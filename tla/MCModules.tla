------------------------------ MODULE MCModules ------------------------------
(***************************************************************************)
(* Sensor modules on small instances.  They share nothing with one         *)
(* another, so a behaviour exercises one, picked at the start, and leaves  *)
(* the others at rest.                                                     *)
(***************************************************************************)
EXTENDS VirtualPairing, Sequences

CONSTANTS
  Values, Requests, MaxRequests,
  Switches, States, MaxFailed, Retries, MaxSets, MaxFailures,
  Devices, Attempts, MaxScans, MaxPairings, MaxReboots,
  Refreshes, Longest, Default, MaxChanges,
  Leds, MaxOrders, MaxQueued, MaxUpsets

ASSUME AttemptsAssumption == Attempts \in Nat /\ Attempts > 1
ASSUME BoundsAssumption ==
  {MaxRequests, MaxSets, MaxFailures, MaxScans, MaxPairings, MaxReboots, MaxChanges, MaxOrders,
   MaxUpsets} \subseteq Nat
ASSUME RequestsAssumption == Requests \subseteq Int
ASSUME SwitchesAssumption ==
  /\ Switches \in Nat \ {0} /\ 0 \in States /\ MaxFailed \in Nat /\ Retries \in Nat
ASSUME LedsAssumption == Leds # {}
ASSUME RefreshAssumption == Refreshes \subseteq Int /\ Longest \in Nat /\ Default \in 1..Longest

VARIABLES
  exercised, \* the module
  conf, step, actual, upcoming, holder, timer, started, queue, current, worker, alive,
  last, bySet, sets, applied,
  fd, loaded, mpc, slot, devs, pgx, pgy, dongle, setting, switch, value, packet,
  written, failed, slotLost, moved, alone, doubt, commands, failures,
  macs, queries, bpc, todo, adding, sent, handling, offered, paired, stale, owed,
  scans, pairings, reboots,
  wakeTime, counter, obtained, pspc, counted, writing, chosen, late, since, missed, changes,
  ledConf, initialized, lpc, recovered, orders, ledSetting, local, datagrams, lit, reports,
  wanted, told, upset, ordered, upsets

\* The kinds of value of etc/virtual_sensor.ini, and the odd ones: a range of one
\* number, ends the other way round, texts that are refused.
Text(generator, range, by, actuator) ==
  [generator |-> generator, range |-> range, step |-> by, actuator |-> actuator]
Initial == Text("initial", <<0>>, 1, TRUE)
Texts ==
  {Text("none", <<0, 2>>, 1, TRUE), Text("triangle", <<2, 0>>, -1, TRUE),
   Text("triangle", <<0, 3>>, 2, FALSE), Text("random", <<2, 0>>, 1, TRUE),
   Text("random", <<1, 1>>, 1, FALSE), Text("linear", <<1>>, 1, TRUE), Initial,
   Text("constant", <<0, 1>>, 1, FALSE), Text("initial", <<1>>, 1, FALSE)}

V == INSTANCE VirtualValue WITH MaxSets <- MaxRequests
J == INSTANCE JablotronSwitches
B == INSTANCE BluetoothPresence
P == INSTANCE PressureSensor
L == INSTANCE LedModule WITH setting <- ledSetting

valuesOf   == <<conf, step, actual, upcoming, holder, timer, started, queue, current, worker,
                alive, last, bySet, sets, applied>>
switchesOf == <<fd, loaded, mpc, slot, devs, pgx, pgy, dongle, setting, switch, value, packet,
                written, failed, slotLost, moved, alone, doubt, commands, failures>>
presenceOf == <<macs, queries, bpc, todo, adding, sent, handling, offered, paired, stale, owed,
                scans, pairings, reboots>>
pressureOf == <<wakeTime, counter, obtained, pspc, counted, writing, chosen, late, since, missed,
                changes>>
ledsOf     == <<ledConf, initialized, lpc, recovered, orders, ledSetting, local, datagrams, lit,
                reports, wanted, told, upset, ordered, upsets>>

ModulesInit ==
  /\ exercised \in {"pairing", "values", "switches", "presence", "pressure", "leds"}
  /\ PairingInit /\ V!ValueInit /\ J!SwitchInit
  /\ B!PresenceInit /\ P!PressureInit /\ L!LedInit
  /\ exercised = "values" \/ conf = [v \in Values |-> V!Configured(Initial)]
  /\ exercised = "switches" \/ dongle = <<0, 0>>
  /\ exercised = "presence" \/ paired = {}
  /\ exercised = "pressure" \/ counter = 0
  /\ exercised = "leds" \/ (ledConf = L!Off /\ lit = L!Off)

PairSensors ==
  /\ exercised = "pairing" /\ PairingNext
  /\ UNCHANGED <<exercised, valuesOf, switchesOf, presenceOf, pressureOf, ledsOf>>
SetValues ==
  /\ exercised = "values" /\ V!ValueNext
  /\ UNCHANGED <<exercised, pairVars, switchesOf, presenceOf, pressureOf, ledsOf>>
SetSwitches ==
  /\ exercised = "switches" /\ J!SwitchNext
  /\ UNCHANGED <<exercised, pairVars, valuesOf, presenceOf, pressureOf, ledsOf>>
LookForDevices ==
  /\ exercised = "presence" /\ B!PresenceNext
  /\ UNCHANGED <<exercised, pairVars, valuesOf, switchesOf, pressureOf, ledsOf>>
MeasurePressure ==
  /\ exercised = "pressure" /\ P!PressureNext
  /\ UNCHANGED <<exercised, pairVars, valuesOf, switchesOf, presenceOf, ledsOf>>
SwitchLeds ==
  /\ exercised = "leds" /\ L!LedNext
  /\ UNCHANGED <<exercised, pairVars, valuesOf, switchesOf, presenceOf, pressureOf>>

ModulesNext ==
  \/ PairSensors \/ SetValues \/ SetSwitches \/ LookForDevices \/ MeasurePressure \/ SwitchLeds

ModulesSpec ==
  /\ ModulesInit
  /\ [][ModulesNext]_<<exercised, pairVars, valuesOf, switchesOf, presenceOf, pressureOf, ledsOf>>
  /\ V!ValueFairness
  /\ WF_presenceOf(exercised = "presence" /\ B!ModuleThread) \* PresenceFairness, unless at rest

\* The types of all (VirtualSensorModule.cpp, VirtualSensorValue.cpp,
\* JablotronModule.cpp, Bluetooth.cpp, PressureSensor.cpp, LedModule.cpp).
ModulesTypeOK ==
  /\ PairingTypeOK /\ V!ValueTypeOK /\ J!SwitchTypeOK
  /\ B!PresenceTypeOK /\ P!PressureTypeOK /\ L!LedTypeOK

\* nextVal and setNewVal share a value: it is in its range or as the server set it.
ActualIsRight == V!ActualIsRight

\* setSwitch sets the output that the switch is on.
RightSwitch == J!RightSwitch

\* What is asked for is done: processActuatorCommands deals with every request to a virtual
\* sensor, unless a linear generator ended (VirtualSensorValue.cpp:60-110), and a scan for
\* Bluetooth devices is followed by a question for the paired ones, or by a new device
\* (Bluetooth.cpp:90-150).
RequestsAreFollowed == V!SetIsApplied /\ B!ScanIsFollowed

\* The gateway has as paired what was paired: the sensors of pairNewVS
\* (VirtualSensorModule.cpp:86-109), and the devices of m_MAC_list, though two threads
\* change that (Bluetooth.cpp:304-330).  Not when the two threads meet in pairNewVS, or a
\* late answer overtakes a clean command; nor for sensors after a restart within a pairing,
\* a count of more than one digit, or a count file that cannot be written or read.
PairedIsRight == PairedAddsUp /\ B!ListedIsPaired

\* What a command sets is kept by the module's thread: the refresh time of the pressure
\* sensor (PressureSensor.cpp:155-166), each of the LEDs (LedModule.cpp:119-146), and
\* the states of both switches, which every packet to the dongle has
\* (JablotronModule.cpp:459-520).
SettingsAreKept == P!RefreshIsObeyed /\ L!LedsFollow /\ J!DongleFollows
==============================================================================
