------------------------------ MODULE MCServices ------------------------------
(***************************************************************************)
(* What the gateway exchanges with its devices and tells the server, on    *)
(* small instances: the PAN coordinator, the Jablotron dongle, the WeMo    *)
(* switch, the VPT regulators and the search for them, the routing of      *)
(* commands, the parameters, and the time of what came in a blackout.  The *)
(* models are independent, so a behaviour exercises one and leaves the     *)
(* others at rest.                                                         *)
(***************************************************************************)
EXTENDS BlackoutClock

CONSTANTS
  Base, Devices, Numbers, Wanted, Strengths, Chosen, MaxReadings,
  Registered, MaxSeconds,
  MaxTells, MaxSets, MaxHands,
  MaxVirtual,
  AskIds, ServerIds, OverTCP, MaxAsks, MaxDepth,
  Bits, Hosts, Interfaces,
  PageValues, SEND_RETRY, MaxCalls

ASSUME PanAssumption ==
  /\ Base \in Nat \ {0} /\ Strengths \subseteq Nat /\ MaxReadings \in Nat
  /\ Numbers \subseteq Int /\ Wanted \subseteq Int
ASSUME TypesAssumption == Registered \subseteq
  {"AC88", "JA81M", "JA83P", "JA85ST", "RC86K", "TP82N", "JA80L", "other"}
ASSUME ExchangeAssumption == AskIds \subseteq Nat /\ ServerIds \subseteq Nat /\ OverTCP \in BOOLEAN
ASSUME ScanAssumption ==
  /\ Bits \in 1 .. 8 /\ Hosts \subseteq 0 .. 2^Bits - 1
  /\ Interfaces \subseteq [octet : 0 .. 2^Bits - 1, prefix : 1 .. 32]
ASSUME MoreBoundsAssumption ==
  /\ {MaxSeconds, MaxTells, MaxSets, MaxHands, MaxVirtual, MaxAsks, MaxCalls} \subseteq Nat
  /\ {MaxDepth, SEND_RETRY} \subseteq Nat \ {0}

VARIABLES
  exercised, \* the part
  pan, priority, report, toServer, order, toPan,
  jrpc, event, sensorEvent, readTime, seconds, packet, dongleToServer, newest, began,
  wemo, values, bkpc, answer, length, terminated, view, clean, settled, tells, sets, hands,
  listed, unpaired, command, given, acts,
  shared, calls, sent, result, ended, asks,
  network, up, tries, testIP, mask, devices,
  page, guarded, hash, vrpc, request, client, content, orderTries, carried, alone, returned,
  reading, setterEnded, vrCalls

panOf      == <<pan, priority, report, toServer, order, toPan>>
readingsOf == <<jrpc, event, sensorEvent, readTime, seconds, packet, dongleToServer, newest, began>>
switchOf   == <<wemo, values, bkpc, answer, length, terminated, view, clean, settled, tells,
                sets, hands>>
routerOf   == <<listed, unpaired, command, given, acts>>
exchangeOf == <<shared, calls, sent, result, ended, asks>>
scanOf     == <<network, up, tries, testIP, mask, devices>>
requestsOf == <<page, guarded, hash, vrpc, request, client, content, orderTries, carried, alone,
                returned, reading, setterEnded, vrCalls>>

\* What PAN's modules report and the server sets: the ends of the ranges, and beyond.
SomeNumbers == {-200, -1, 0, 1, 15, 200, 32767}
SomeWanted  == {-1500, 0, 400, 1000, 20004, 70000}

\* One device of each module, with lower bytes that a device of PAN has, too.
Owners ==
  [d \in {"pan1", "pan2", "led", "pressure", "virtual", "regulator", "siren", "wemo", "mqtt",
          "phone"} |->
     CASE d = "pressure" -> "psm"      [] d = "virtual" -> "vsm" [] d = "regulator" -> "vpt"
       [] d = "siren" -> "jablotron"   [] d = "wemo" -> "belkin" [] d = "mqtt" -> "mqttdata"
       [] d = "phone" -> "bluetooth"   [] d = "led" -> "led"     [] OTHER -> "pan"]
Lows ==
  [d \in DOMAIN Owners |-> IF d \in {"pan2", "regulator", "mqtt", "phone"} THEN 2 ELSE 1]

\* Addresses at the ends of their ranges and within, of networks small and large.
SomeInterfaces == [octet : {1, 130, 255}, prefix : {16, 24, 25, 26, 30, 32}]

\* A regulator with a mode, off or on, and the pressure.
Modes ==
  [v \in {"mode"} |-> <<[word |-> "off", number |-> 0], [word |-> "on", number |-> 1]>>]

P == INSTANCE PanMessages
J == INSTANCE JablotronReadings WITH toServer <- dongleToServer, time <- readTime,
                                    clock <- seconds, MaxTime <- MaxSeconds
W == INSTANCE BelkinSwitch
R == INSTANCE CommandRouter WITH Devices <- DOMAIN Owners, Owner <- Owners, Low <- Lows,
                                 Present <- {"psm", "led", "vsm", "vpt", "jablotron", "belkin",
                                             "pan", "mqttdata", "bluetooth"}
X == INSTANCE ParameterExchange
N == INSTANCE NetworkScan
V == INSTANCE VptRequests WITH Variables <- {"mode", "pressure"}, Options <- Modes,
                               Sensors <- [id \in {1, 62} |-> IF id = 1 THEN "mode" ELSE "pressure"],
                               Actuators <- [id \in {5, 6} |-> IF id = 5 THEN "mode" ELSE "pressure"],
                               Values <- PageValues, tries <- orderTries,
                               ended <- setterEnded

ServicesInit ==
  /\ exercised \in {"pan", "jablotron", "belkin", "router", "parameters", "scan", "vpt", "blackout"}
  /\ P!PanInit /\ J!ReadingsInit /\ W!BelkinInit /\ R!RouterInit /\ X!ExchangeInit
  /\ N!ScanInit /\ V!RequestsInit /\ Init
  /\ exercised = "jablotron" \/ event = FALSE
  /\ exercised = "belkin" \/ wemo = 0
  /\ exercised = "scan" \/ (network.prefix = 32 /\ network.octet = 1 /\ up = {})
  \* off and on are alike
  /\ page["pressure"] = 1 /\ page["mode"] # 0
  /\ exercised = "vpt" \/ (page["mode"] = 1 /\ guarded = "no")
  /\ exercised = "blackout" \/ clock

OfPan ==
  /\ exercised = "pan" /\ P!PanNext
  /\ UNCHANGED <<exercised, readingsOf, switchOf, routerOf, exchangeOf, scanOf, requestsOf, vars>>
OfJablotron ==
  /\ exercised = "jablotron" /\ J!ReadingsNext
  /\ UNCHANGED <<exercised, panOf, switchOf, routerOf, exchangeOf, scanOf, requestsOf, vars>>
OfBelkin ==
  /\ exercised = "belkin" /\ W!BelkinNext
  /\ UNCHANGED <<exercised, panOf, readingsOf, routerOf, exchangeOf, scanOf, requestsOf, vars>>
OfRouter ==
  /\ exercised = "router" /\ R!RouterNext
  /\ UNCHANGED <<exercised, panOf, readingsOf, switchOf, exchangeOf, scanOf, requestsOf, vars>>
OfParameters ==
  /\ exercised = "parameters" /\ X!ExchangeNext
  /\ UNCHANGED <<exercised, panOf, readingsOf, switchOf, routerOf, scanOf, requestsOf, vars>>
OfScan ==
  /\ exercised = "scan" /\ N!ScanNext
  /\ UNCHANGED <<exercised, panOf, readingsOf, switchOf, routerOf, exchangeOf, requestsOf, vars>>
OfVpt ==
  /\ exercised = "vpt" /\ V!RequestsNext
  /\ UNCHANGED <<exercised, panOf, readingsOf, switchOf, routerOf, exchangeOf, scanOf, vars>>
OfBlackout ==
  /\ exercised = "blackout" /\ Next
  /\ UNCHANGED <<exercised, panOf, readingsOf, switchOf, routerOf, exchangeOf, scanOf,
                 requestsOf>>

ServicesNext ==
  \/ OfPan \/ OfJablotron \/ OfBelkin \/ OfRouter \/ OfParameters \/ OfScan \/ OfVpt
  \/ OfBlackout

ServicesSpec ==
  /\ ServicesInit
  /\ [][ServicesNext]_<<exercised, panOf, readingsOf, switchOf, routerOf, exchangeOf, scanOf,
                        requestsOf, vars>>

\* The types of all (PanInterface.cpp, JablotronModule.cpp, Belkin_WeMo.cpp, Parameters.cpp,
\* HTTP.cpp, VPT.cpp, Aggregator.cpp:304-374, Aggregator.h:91-114).
ServicesTypeOK ==
  /\ P!PanTypeOK /\ J!ReadingsTypeOK /\ W!BelkinTypeOK /\ R!RouterTypeOK
  /\ X!ExchangeTypeOK /\ N!ScanTypeOK /\ V!RequestsTypeOK /\ TypeOK

\* What the devices of PAN report the server is told, and what it orders they are told, in
\* the numbers that were meant (PanInterface.cpp:81-139, 176-288).
PanIsRight == P!ReportIsRight /\ P!OrderIsRight

\* The server is told what the Jablotron devices mean, with their events
\* (JablotronModule.cpp:115-330), and how the WeMo switch is after a round that nobody
\* disturbed (Belkin_WeMo.cpp:37-53); an order goes to the device that it is for, also while
\* the modules still look for theirs (Aggregator.cpp:330-364).
DevicesAreRight == J!ReadingsAreRight /\ W!ServerKnowsSwitch /\ R!OrderReachesDevice

\* Questions and answers of several threads keep to their callers (Parameters.cpp:47-124).
AnswersAreOwn == X!AnswersAreOwn

\* A search finds every host of the networks it is to try, but for the one at the end of
\* the byte (HTTP.cpp:118-190).
FindsHosts == N!FindsHosts

\* What a regulator agreed to it has done, what it shows is what the server is told
\* (VPT.cpp:400-530, JSON.cpp:76-190).
RegulatorIsRight == V!RegulatorIsRight
==============================================================================
