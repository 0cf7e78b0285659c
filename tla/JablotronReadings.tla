-------------------------- MODULE JablotronReadings --------------------------
(***************************************************************************)
(* What the Jablotron module tells the server of the packets its dongle    *)
(* receives (threadFunction to getDeviceID of src/JablotronModule.cpp).  A *)
(* packet names a device and has a word, the state of the battery and      *)
(* perhaps an argument.  What cannot be read makes the parser throw, and   *)
(* nothing is sent.  Some words are events: the server is told of the      *)
(* event and, 400 ms later and with a time 2 s later, of its end.          *)
(***************************************************************************)
EXTENDS Integers, Sequences

CONSTANTS
  Registered, \* the devices of devList, each by its type; a serial number may be of
              \* a type that the parser has no case for, or of none
  MaxTime     \* bound: seconds

VARIABLES
  jrpc,    \* where threadFunction is: read, reset (in usleep)
  event, sensorEvent,  \* members; event is not initialized
  time,    \* msg.time
  clock,   \* seconds
  packet,  \* the packet that is dealt with, or <<>>
  toServer,\* the message last given to sendData, or <<>>
  newest,  \* what the server has of each module of an event: the value with the latest time
  began    \* when the last two events of each began

readingVars == <<jrpc, event, sensorEvent, time, clock, packet, toServer, newest, began>>

Missing == -1 \* an argument that is not there, or is not a number

Full == 100
Low  == 5
Battery(type) == IF type = "JA85ST" THEN 3 ELSE 2

\* convert: 1 is UNSET_STATE, all else SET_STATE or, for an AC-88, UNKNOWN_STATE.
Convert(arg) == IF arg = 1 THEN 1 ELSE 2
SwitchState(arg) == IF arg = 1 THEN 1 ELSE 0

V(module, value) == <<[module |-> module, value |-> value]>>

\* The words that are an event: the module, and its values on and off.
Events ==
  [e \in {<<"JA85ST", "SENSOR">>, <<"JA83P", "SENSOR">>, <<"RC86K", "PANIC">>} |->
     CASE e[1] = "JA85ST" -> [module |-> 0, on |-> 1, off |-> 0]
       [] e[1] = "JA83P"  -> [module |-> 0, on |-> 1, off |-> 2]
       [] e[1] = "RC86K"  -> [module |-> 1, on |-> 1, off |-> 2]]
IsEvent(p) == <<p.type, p.word>> \in DOMAIN Events

EventTypes == {e[1] : e \in DOMAIN Events}
EventOf(type) == Events[CHOOSE e \in DOMAIN Events : e[1] = type]

\* The words with an argument: the module it is for.
Arguments ==
  [w \in {<<"JA85ST", "TAMPER">>, <<"JA85ST", "DEFECT">>, <<"JA83P", "TAMPER">>,
          <<"JA81M", "SENSOR">>, <<"JA81M", "TAMPER">>, <<"RC86K", "ARM">>} |->
     IF w[2] \in {"SENSOR", "ARM"} THEN 0 ELSE IF w[2] = "DEFECT" THEN 2 ELSE 1]
HasArgument(p) == <<p.type, p.word>> \in DOMAIN Arguments

\* parseMessageFromDevice returns false, or has caught what the tokenizer or the
\* number parser threw.
Unreadable(p) ==
  \/ p.type \in {"JA80L", "other"}
  \/ p.type = "AC88" /\ p.arg = Missing
  \/ p.type # "AC88" /\ p.battery = Missing
  \/ HasArgument(p) /\ p.arg = Missing
  \/ p.type = "TP82N" /\ ~p.short /\ p.arg = Missing

\* What follows the state of the battery; a word that is not known adds nothing.
\* The BUTTON of a fire sensor is a fire, and no event.
ValueOf(p) ==
  CASE IsEvent(p)                  -> V(Events[<<p.type, p.word>>].module, Events[<<p.type, p.word>>].on)
    [] HasArgument(p)              -> V(Arguments[<<p.type, p.word>>], Convert(p.arg))
    [] p.type = "JA85ST" /\ p.word = "BUTTON" -> V(0, 1)
    [] p.type = "TP82N" /\ ~p.short -> V(IF p.word = "SET" THEN 1 ELSE 0, p.arg)
    [] OTHER                       -> <<>>

Values(p) ==
  IF p.type = "AC88" THEN V(0, SwitchState(p.arg))
  ELSE V(Battery(p.type), IF p.battery = 1 THEN Low ELSE Full) \o ValueOf(p)

EndOf(p) == LET e == Events[<<p.type, p.word>>] IN V(e.module, e.off)

Words ==
  [t \in Registered |->
     CASE t = "JA85ST" -> {"SENSOR", "BUTTON", "TAMPER", "DEFECT", "LOST"}
       [] t \in {"JA81M", "JA83P"} -> {"SENSOR", "TAMPER", "LOST"}
       [] t = "RC86K" -> {"PANIC", "ARM"}
       [] t = "TP82N" -> {"SET", "INT"}
       [] OTHER -> {"RELAY"}]

Packets ==
  UNION {[type : {t}, word : Words[t], battery : {0, 1, Missing}, arg : {0, 1, Missing},
          short : IF t = "TP82N" THEN BOOLEAN ELSE {FALSE}] : t \in Registered}

Message(type, values, at) == [type |-> type, values |-> values, time |-> at]

ReadingsInit ==
  /\ jrpc = "read" /\ event \in BOOLEAN /\ sensorEvent = <<>>
  /\ time = 0 /\ clock = 0 /\ packet = <<>> /\ toServer = <<>>
  /\ newest = [t \in EventTypes |-> [value |-> EventOf(t).off, time |-> -1]]
  /\ began = [t \in EventTypes |-> <<-3, -3>>]

\* The server goes by time; of two values of one time it may keep the first.
Newest(message) ==
  [t \in EventTypes |->
     LET new == {i \in DOMAIN message.values : message.values[i].module = EventOf(t).module}
     IN  IF t = message.type /\ new # {} /\ message.time > newest[t].time
         THEN [value |-> message.values[CHOOSE i \in new : TRUE].value, time |-> message.time]
         ELSE newest[t]]

-----------------------------------------------------------------------------
\* sensorEvent is a copy of the empty sensor, then gets the end of an event.
SensorEvent(p) == IF IsEvent(p) THEN EndOf(p) ELSE <<>>

\* A packet of a registered device is read, and sendMessageToServer is called.  Two that
\* were read at once are one that cannot be read.
SendMessage(p) ==
  /\ jrpc = "read" /\ packet = <<>>
  /\ packet' = p /\ time' = clock
  /\ IF Unreadable(p)
     THEN /\ sensorEvent' = <<>>
          /\ UNCHANGED <<jrpc, event, toServer, newest, began>>
     ELSE /\ sensorEvent' = SensorEvent(p)
          /\ event' = (event \/ IsEvent(p))
          /\ toServer' = Message(p.type, Values(p), clock)
          /\ jrpc' = IF event' THEN "reset" ELSE "read"
          /\ newest' = Newest(toServer')
          /\ began' = IF IsEvent(p) THEN [began EXCEPT ![p.type] = <<@[2], clock>>] ELSE began
  /\ UNCHANGED clock

\* Faulty variant: the time of the end is that of the event.
EndEventAtOnce ==
  /\ jrpc = "reset" /\ jrpc' = "read"
  /\ toServer' = Message(packet.type, sensorEvent, time)
  /\ newest' = Newest(toServer') /\ event' = FALSE
  /\ UNCHANGED <<time, sensorEvent, clock, packet, began>>

EndEvent ==
  /\ jrpc = "reset" /\ jrpc' = "read"
  /\ time' = time + 2
  /\ toServer' = Message(packet.type, sensorEvent, time')
  /\ newest' = Newest(toServer') /\ event' = FALSE
  /\ UNCHANGED <<sensorEvent, clock, packet, began>>

\* The loop goes on to the next packet.
NextPacket ==
  /\ jrpc = "read" /\ packet # <<>>
  /\ packet' = <<>> /\ toServer' = <<>>
  /\ UNCHANGED <<jrpc, event, sensorEvent, time, clock, newest, began>>

\* Time also passes in sendData.
Second ==
  /\ clock < MaxTime /\ clock' = clock + 1
  /\ UNCHANGED <<jrpc, event, sensorEvent, time, packet, toServer, newest, began>>

ReadingsNext == (\E p \in Packets : SendMessage(p)) \/ EndEvent \/ NextPacket \/ Second

ReadingsSpec == ReadingsInit /\ [][ReadingsNext]_readingVars

-----------------------------------------------------------------------------
ReadingsTypeOK ==
  /\ jrpc \in {"read", "reset"} /\ event \in BOOLEAN
  /\ time \in 0..(MaxTime + 2) /\ clock \in 0..MaxTime
  /\ \A t \in EventTypes : newest[t].time \in -1..(MaxTime + 2)

\* The server sees an event, by the times of its messages, unless another one of the
\* device began less than two seconds before: the end of that one has a later time
\* (JablotronModule.cpp:115-147).
EventIsSeen ==
  jrpc = "reset" /\ IsEvent(packet) =>
    LET t == packet.type
    IN  newest[t].value = EventOf(t).on \/ began[t][2] - began[t][1] <= 2

\* Once the end of an event has been sent, the server has the event as ended.  It has a
\* fire for ever after a BUTTON, which is no event (lines 194-208).
EndIsSeen ==
  jrpc = "read" =>
    \A t \in EventTypes :
      newest[t].value # EventOf(t).off => t = "JA85ST" /\ began[t][2] < newest[t].time

\* A message that ends no event has the readings of its packet, and only of one that could
\* be read; the end of one is for the module of the event.  The first message after the
\* start may be followed by one without values, as event was not initialized.
ReadingIsSent ==
  toServer # <<>> =>
    /\ toServer.type = packet.type
    /\ jrpc = "reset" => toServer.values = Values(packet) /\ event
    /\ toServer.values = <<>> => ~IsEvent(packet)

ReadingsAreRight == EventIsSeen /\ EndIsSeen /\ ReadingIsSent
==============================================================================
