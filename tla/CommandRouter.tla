----------------------------- MODULE CommandRouter -----------------------------
(***************************************************************************)
(* Which module gets a command of the server (Aggregator::parseCmd).  An   *)
(* order for a device goes to the first module that says the device is     *)
(* its own; what nobody claims goes to the PAN coordinator, which takes    *)
(* the lower bytes of the identifier for an address.  VPT and Jablotron    *)
(* learn their devices only in the course of time.                         *)
(***************************************************************************)
EXTENDS Integers, Sequences, FiniteSets

CONSTANTS
  Present,   \* the modules that are enabled
  Devices,   \* identifiers of devices
  Owner,     \* the module that each device belongs to
  Low,       \* the address that PAN makes of each identifier
  MaxVirtual \* virtual sensors to pair

Modules == {"psm", "led", "vsm", "vpt", "jablotron", "belkin", "pan", "mqttdata", "bluetooth"}
Orders == {"set", "update", "clean", "error"}

VARIABLES
  listed,   \* devices that VPT and Jablotron have in their lists
  unpaired, \* unpaired_sensors of the virtual sensors' module
  command,  \* the last command: its state, its device, and if the owner had it listed
  given,    \* modules that parseCmd gave it to
  acts      \* devices that act on it

routerVars == <<listed, unpaired, command, given, acts>>

NoCommand == [state |-> "none", device |-> CHOOSE d \in Devices : TRUE, known |-> FALSE]

RouterTypeOK ==
  /\ listed \subseteq Devices /\ unpaired \in 0 .. MaxVirtual
  /\ command.device \in Devices /\ command.known \in BOOLEAN
  /\ given \subseteq Present /\ acts \subseteq Devices

RouterInit ==
  /\ listed = {} /\ unpaired = MaxVirtual
  /\ command = NoCommand /\ given = {} /\ acts = {}

Of(m) == {d \in Devices : Owner[d] = m}

\* belongTo, isVirtualDevice, isVPTSensor, isJablotronModule, isBelkinDevice
Claims(m, d) ==
  /\ m \in Present \ {"pan", "mqttdata", "bluetooth"} /\ Owner[d] = m
  /\ m \in {"vpt", "jablotron"} => d \in listed

-----------------------------------------------------------------------------
\* VPT's search finds a device, or drops it; the next slot of the Jablotron stick is read.
Listed(d) ==
  /\ Owner[d] \in {"vpt", "jablotron"} /\ listed' = listed \union {d}
  /\ UNCHANGED <<unpaired, command, given, acts>>

Dropped(d) ==
  /\ Owner[d] = "vpt" /\ d \in listed /\ listed' = listed \ {d}
  /\ UNCHANGED <<unpaired, command, given, acts>>

\* The stick has been plugged in again: loadRegDevices begins with an empty list.
Reload ==
  /\ listed' = listed \ Of("jablotron")
  /\ UNCHANGED <<unpaired, command, given, acts>>

\* Always: Bluetooth; for the others see below.
Gives(state, to) == given' = Present \intersect (to \union {"bluetooth"})

\* pairNewVS takes one sensor; PAN opens its network.
Listen(d) ==
  /\ command' = [state |-> "listen", device |-> d, known |-> FALSE]
  /\ LET virtual == "vsm" \in Present /\ unpaired > 0
     IN  /\ Gives("listen", {IF virtual THEN "vsm" ELSE "pan", "vpt", "mqttdata"})
         /\ unpaired' = IF virtual THEN unpaired - 1 ELSE unpaired
  /\ acts' = {} /\ UNCHANGED listed

\* register and the parameters go to no module (ParameterExchange has the latter).
OwnCommand(state, d) ==
  /\ command' = [state |-> state, device |-> d, known |-> FALSE]
  /\ Gives(state, {}) /\ acts' = {}
  /\ UNCHANGED <<listed, unpaired>>

\* Faulty variant: the coordinator is asked first, as if the address were the identifier.
ClaimantPanFirst(d) ==
  IF \E p \in Of("pan") : Low[p] = Low[d] THEN "pan" ELSE
  IF Claims(Owner[d], d) THEN Owner[d] ELSE "pan"

\* The tests of parseCmd, in their order; the first module to claim the device has it.
\* Since no identifier belongs to two modules here, at most one of them does.
Chain == <<"psm", "led", "vsm", "vpt", "jablotron", "belkin">>
IsFirst(i, d) == Claims(Chain[i], d) /\ \A j \in 1 .. (i - 1) : ~Claims(Chain[j], d)
Claimant(d) ==
  IF \E i \in DOMAIN Chain : IsFirst(i, d)
  THEN Chain[CHOOSE i \in DOMAIN Chain : IsFirst(i, d)]
  ELSE "pan"

\* The devices that a module moves when it is given an order for d.
Moved(m, d) == IF m = "pan" THEN {p \in Of("pan") : Low[p] = Low[d]} ELSE {d}

Order(state, d) ==
  LET m == Claimant(d)
  IN  /\ command' = [state |-> state, device |-> d,
                     known |-> Claims(Owner[d], d) \/ (Owner[d] = "pan" /\ "pan" \in Present)]
      /\ Gives(state, {m, "mqttdata"})
      /\ acts' = IF m \in Present THEN Moved(m, d) ELSE {}
      /\ UNCHANGED <<listed, unpaired>>

RouterNext ==
  \/ Reload
  \/ \E d \in Devices :
       \/ Listed(d) \/ Dropped(d) \/ Listen(d)
       \/ \E s \in {"register", "getparameters", "parameters"} : OwnCommand(s, d)
       \/ \E s \in Orders : Order(s, d)

RouterSpec == RouterInit /\ [][RouterNext]_routerVars

-----------------------------------------------------------------------------
\* A device whose module claims it gets its orders, and no other one does.  Only an order
\* for a device that nobody claims (yet) can move another device, one of PAN with the same
\* lower bytes in its identifier (Aggregator.cpp:330-364, PanInterface.cpp:85-139).
OrderReachesDevice ==
  command.state \in Orders =>
    /\ command.known => acts = {command.device}
    /\ \A d \in acts : Owner[d] = "pan" \/ d = command.device
==============================================================================
