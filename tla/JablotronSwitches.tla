-------------------------- MODULE JablotronSwitches --------------------------
(***************************************************************************)
(* The AC-88 switches of the Jablotron module (src/JablotronModule.cpp,    *)
(* src/SerialControl.cpp).  The module's thread opens the serial line,     *)
(* reads from the dongle which devices it knows and sets each switch to    *)
(* the state the server remembers; the thread that brings the server's     *)
(* commands sets switches too.  Both run setSwitch over the same pgx, pgy  *)
(* and devList, without a lock.  Slot d of the dongle holds switch d; the  *)
(* first one is on the output PGX, the others are on PGY.                  *)
(***************************************************************************)
EXTENDS Integers, Sequences

CONSTANTS
  Switches,  \* how many switches the dongle knows
  States,    \* what a switch may be set to
  MaxFailed, \* MAX_NUMBER_FAILED_REPEATS
  Retries,   \* NUMBER_OF_RETRIES
  MaxSets, MaxFailures \* bounds: commands, and failures of the line

VARIABLES
  fd,      \* isValidFd()
  loaded,  \* loadDevices
  mpc,     \* where the module's thread is: its loop, the slots, or the states
  slot,    \* the slot, or the position in devList, it is at
  devs,    \* devList
  pgx, pgy,
  dongle,  \* what the dongle was last told of the two
  setting, \* where each thread is in setSwitch
  switch, value, \* the euid and sw it was called with
  packet,  \* the text it sends
  written, failed, \* calls of ssend that wrote the packet, and that could not
  slotLost,\* an answer to GET SLOT did not come
  moved,   \* devList was cleared between the check of a command and its setSwitch
  alone,   \* threads that nobody has joined in setSwitch since they began it
  doubt,   \* the last setSwitch was not alone, or could not write
  commands, failures \* counters for the bounds

lineVars == <<fd, loaded, mpc, slot, devs, slotLost, moved, failures>>
setVars  == <<pgx, pgy, dongle, setting, switch, value, packet, written, failed, alone, doubt>>
switchVars == <<lineVars, setVars, commands>>

Setters == {"module", "command"}
AC88s   == 1..Switches
Packets == States \X States

SwitchTypeOK ==
  /\ fd \in BOOLEAN /\ loaded \in BOOLEAN /\ mpc \in {"loop", "slots", "states"}
  /\ slot \in 1..(Switches + 1) /\ devs \in Seq(AC88s) /\ Len(devs) <= Switches
  /\ pgx \in States /\ pgy \in States /\ dongle \in Packets
  /\ setting \in [Setters -> {"no", "assign", "build", "send"}]
  /\ switch \in [Setters -> AC88s] /\ value \in [Setters -> States]
  /\ packet \in [Setters -> Packets]
  /\ written \in [Setters -> 0..MaxFailed] /\ failed \in [Setters -> 0..Retries]
  /\ slotLost \in BOOLEAN /\ moved \in BOOLEAN /\ alone \subseteq Setters /\ doubt \in BOOLEAN
  /\ commands \in 0..MaxSets /\ failures \in 0..MaxFailures

SwitchInit ==
  /\ fd = FALSE /\ loaded = FALSE /\ mpc = "loop" /\ slot = 1 /\ devs = <<>>
  /\ pgx = 0 /\ pgy = 0 /\ dongle \in Packets
  /\ setting = [a \in Setters |-> "no"]
  /\ switch = [a \in Setters |-> 1] /\ value = [a \in Setters |-> 0]
  /\ packet = [a \in Setters |-> <<0, 0>>]
  /\ written = [a \in Setters |-> 0] /\ failed = [a \in Setters |-> 0]
  /\ slotLost = FALSE /\ moved = FALSE /\ alone = {} /\ doubt = TRUE
  /\ commands = 0 /\ failures = 0

Listed(d) == \E i \in DOMAIN devs : devs[i] = d

----------------------------------------------------------------------------
\* initSerial; a reload follows only if it fails at least once.
OpenSerial ==
  /\ mpc = "loop" /\ ~fd
  /\ \/ fd' = TRUE /\ UNCHANGED <<loaded, failures>>
     \/ /\ failures < MaxFailures /\ failures' = failures + 1
        /\ loaded' = FALSE /\ UNCHANGED fd
  /\ UNCHANGED <<mpc, slot, devs, slotLost, moved, setVars, commands>>

\* sread finds the line broken and closes it.
LoseSerial ==
  /\ mpc = "loop" /\ fd /\ loaded /\ failures < MaxFailures
  /\ failures' = failures + 1 /\ fd' = FALSE
  /\ UNCHANGED <<loaded, mpc, slot, devs, slotLost, moved, setVars, commands>>

\* loadRegDevices: devList is cleared,
LoadDevices ==
  /\ mpc = "loop" /\ fd /\ ~loaded
  /\ mpc' = "slots" /\ slot' = 1 /\ devs' = <<>>
  /\ slotLost' = FALSE /\ moved' = (moved \/ setting["command"] = "assign")
  /\ UNCHANGED <<fd, loaded, failures, setVars, commands>>

\* then each slot is asked; an answer that does not come in time is taken for
\* an empty slot.
AskSlot ==
  /\ mpc = "slots" /\ slot <= Switches
  /\ slot' = slot + 1
  /\ \/ devs' = Append(devs, slot) /\ UNCHANGED <<slotLost, failures>>
     \/ /\ failures < MaxFailures /\ failures' = failures + 1
        /\ slotLost' = TRUE /\ UNCHANGED devs
  /\ UNCHANGED <<fd, loaded, mpc, moved, setVars, commands>>

AskStates ==
  /\ mpc = "slots" /\ slot > Switches
  /\ mpc' = "states" /\ slot' = 1
  /\ UNCHANGED <<fd, loaded, devs, slotLost, moved, failures, setVars, commands>>

\* A call of setSwitch(d, v) on a thread.
Call(a, d, v) ==
  /\ setting[a] = "no"
  /\ setting' = [setting EXCEPT ![a] = "assign"]
  /\ switch' = [switch EXCEPT ![a] = d] /\ value' = [value EXCEPT ![a] = v]
  /\ UNCHANGED <<pgx, pgy, dongle, packet, written, failed, alone, doubt>>

\* obtainActuatorState asks for the last value, until there is an answer: a state,
\* or 0 where the server has none.
ServerState == States \cup {0}

ObtainState ==
  /\ mpc = "states" /\ slot <= Len(devs)
  /\ \E v \in ServerState : Call("module", devs[slot], v)
  /\ slot' = slot + 1
  /\ UNCHANGED <<fd, loaded, mpc, devs, slotLost, moved, failures, commands>>

EndLoad ==
  /\ mpc = "states" /\ slot > Len(devs) /\ setting["module"] = "no"
  /\ mpc' = "loop" /\ loaded' = TRUE /\ slot' = 1
  /\ UNCHANGED <<fd, devs, slotLost, moved, failures, setVars, commands>>

\* parseCmdFromServer looks the switch up in devList.
Command ==
  /\ commands < MaxSets /\ commands' = commands + 1
  /\ \E d \in AC88s, v \in States : Listed(d) /\ Call("command", d, v)
  /\ moved' = FALSE
  /\ UNCHANGED <<fd, loaded, mpc, slot, devs, slotLost, failures>>

----------------------------------------------------------------------------
\* Faulty variant: the last AC-88 of devList.
OnPgxLast(d) == devs # <<>> /\ devs[Len(devs)] = d

\* setSwitch: the first AC-88 of devList is the one on PGX.
OnPgx(d) == devs # <<>> /\ Head(devs) = d

Assign(a) ==
  /\ setting[a] = "assign"
  /\ IF OnPgx(switch[a]) THEN pgx' = value[a] /\ UNCHANGED pgy
                         ELSE pgy' = value[a] /\ UNCHANGED pgx
  /\ alone' = {b \in Setters : b = a /\ \A c \in Setters \ {a} : setting[c] \in {"no", "assign"}}
  /\ setting' = [setting EXCEPT ![a] = "build"]
  /\ UNCHANGED <<dongle, switch, value, packet, written, failed, doubt, lineVars, commands>>

\* The text of the packet has both outputs.
Build(a) ==
  /\ setting[a] = "build"
  /\ packet' = [packet EXCEPT ![a] = <<pgx, pgy>>]
  /\ written' = [written EXCEPT ![a] = 0] /\ failed' = [failed EXCEPT ![a] = 0]
  /\ setting' = [setting EXCEPT ![a] = "send"]
  /\ UNCHANGED <<pgx, pgy, dongle, switch, value, alone, doubt, lineVars, commands>>

\* Faulty variant: the failures are counted past their limit.
SendingOnceMore(a) == setting[a] = "send" /\ written[a] <= MaxFailed /\ failed[a] < Retries

\* retransmissionPacket.  ssend returns true if it could not write, so the packets
\* that were written count as failed, and those that were not as sent.
Sending(a) == setting[a] = "send" /\ written[a] < MaxFailed /\ failed[a] < Retries

Send(a) ==
  /\ Sending(a) /\ fd
  /\ written' = [written EXCEPT ![a] = @ + 1] /\ dongle' = packet[a]
  /\ UNCHANGED <<pgx, pgy, setting, switch, value, packet, failed, alone, doubt, lineVars, commands>>

SendFails(a) ==
  /\ Sending(a)
  /\ fd => failures < MaxFailures
  /\ failures' = IF fd THEN failures + 1 ELSE failures
  /\ failed' = [failed EXCEPT ![a] = @ + 1]
  /\ UNCHANGED <<pgx, pgy, dongle, setting, switch, value, packet, written, alone, doubt,
                 fd, loaded, mpc, slot, devs, slotLost, moved, commands>>

Return(a) ==
  /\ setting[a] = "send" /\ ~Sending(a)
  /\ setting' = [setting EXCEPT ![a] = "no"]
  /\ doubt' = (a \notin alone \/ written[a] = 0)
  /\ UNCHANGED <<pgx, pgy, dongle, switch, value, packet, written, failed, alone, lineVars, commands>>

SwitchNext ==
  \/ OpenSerial \/ LoseSerial \/ LoadDevices \/ AskSlot \/ AskStates \/ ObtainState \/ EndLoad
  \/ Command
  \/ \E a \in Setters : Assign(a) \/ Build(a) \/ Send(a) \/ SendFails(a) \/ Return(a)

SwitchSpec == SwitchInit /\ [][SwitchNext]_switchVars

----------------------------------------------------------------------------
\* A switch is set on its own output (lines 482-494): PGX for the first and PGY for
\* the others, unless the list lacks a device whose answer was lost, or is being
\* read again when a command arrives.
RightSwitch ==
  [][\A a \in Setters :
       setting[a] = "assign" /\ setting'[a] = "build" /\ ~slotLost /\ ~moved =>
         IF switch[a] = 1 THEN pgy' = pgy ELSE pgx' = pgx]_switchVars

\* Between two calls of setSwitch the dongle has what pgx and pgy say, though each
\* call sends both (lines 465-498), unless the last one met another or could not write.
DongleFollows ==
  (\A a \in Setters : setting[a] \in {"no", "assign"}) /\ ~doubt => dongle = <<pgx, pgy>>
==============================================================================
