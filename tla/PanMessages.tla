----------------------------- MODULE PanMessages -----------------------------
(***************************************************************************)
(* The messages between the server and the PAN coordinator                 *)
(* (src/PanInterface.cpp; newMessageFromPAN of src/MosqClient.cpp;         *)
(* sendToPANviaMQTT and convertValue of src/Aggregator.cpp).  They are     *)
(* bytes, sent over MQTT as numbers with a comma behind each.  The device  *)
(* table says how a value is put into bytes; the coordinator is taken to   *)
(* do it by the same table, negative numbers as a two's complement.        *)
(*                                                                         *)
(* A byte of a value has Base values, an identifier 256.  Numbers of the   *)
(* server are in thousandths; a float is taken to be exact.                *)
(***************************************************************************)
EXTENDS DeviceTable, SequencesExt, FiniteSets

CONSTANTS
  Base,       \* what a byte of a value can be: 0..Base-1
  Devices,    \* types of devices that report or are set, known or not
  Numbers,    \* what the modules report, in units of the device
  Wanted,     \* what the server sets, in thousandths
  Strengths,  \* of the signal: a byte
  Chosen,     \* the modules that are used
  MaxReadings \* bound: readings or orders of a message

VARIABLES
  pan,      \* idle, or done with a message
  priority, \* msg.priority, which keeps the value of the last message
  report,   \* what the sensor meant, or <<>>
  toServer, \* the message given to sendData, or <<>>
  order,    \* the command of the server, or <<>>
  toPan     \* the bytes given to sendCmd

panVars == <<pan, priority, report, toServer, order, toPan>>

Modules(d) == IF d \in Known THEN DOMAIN TT[d] ELSE {}

Pow[k \in Nat] == IF k = 0 THEN 1 ELSE Base * Pow[k - 1]

\* The number n as k bytes, the highest first, and the number that bytes make.
Bytes(n, k) == [i \in 1..k |-> (n \div Pow[k - i]) % Base]
Number(bytes) ==
  LET upTo[i \in 0..Len(bytes)] == IF i = 0 THEN 0 ELSE Base * upTo[i - 1] + bytes[i]
  IN  upTo[Len(bytes)]

\* Division with rounding to the nearest, halves away from 0: round()
RoundDiv(n, d) == IF n >= 0 THEN (2 * n + d) \div (2 * d) ELSE -((d - 2 * n) \div (2 * d))

PanInit ==
  /\ pan = "idle" /\ priority = "sensor"
  /\ report = <<>> /\ toServer = <<>> /\ order = <<>> /\ toPan = <<>>

-----------------------------------------------------------------------------
(* From the coordinator. *)

\* A reading as the coordinator sends it; the value of a module that the device
\* does not have is one byte.
SentReading(d, r) ==
  <<r.module % 256>> \o Bytes(r.number, IF r.module \in Modules(d) THEN Size(TT[d][r.module]) ELSE 1)

\* Version, address, strength, type, number of readings (one byte each here), readings.
SentBytes(m) ==
  <<1, m.address, m.strength, m.device, Len(m.readings)>>
    \o FlattenSeq([i \in DOMAIN m.readings |-> SentReading(m.device, m.readings[i])])

\* newMessageFromPAN: what is behind the last comma is left out.
Received(m) == IF m.closed THEN SentBytes(m) ELSE Front(SentBytes(m))

\* Faulty variant: the bytes are never taken for a negative number.
OriginalValueUnsigned(size, bytes) == Number(bytes)

\* tmp_val_orig is an int of four bytes: shorter numbers are not negative.
OriginalValue(size, bytes) ==
  LET n == Number(bytes) IN IF size = 4 /\ n >= Pow[4] \div 2 THEN n - Pow[4] ELSE n

\* convertBattery: percents of 1.8 V to 3 V.
Percent(n) == IF n > 1810 THEN (IF n >= 3000 THEN 100 ELSE RoundDiv(n - 1800, 12)) ELSE 1

\* The value of a module that goes to the server.
ServerValue(d, m, original) ==
  LET number == (original * 1000) \div Scale(TT[d][m])
      off    == HasUnavailable(d, m) /\ original = Pow[4] \div 2 - 1
  IN  IF m = 3 THEN [module |-> m, number |-> 1000 * Percent(number), status |-> TRUE]
      ELSE [module |-> m, number |-> IF off THEN 0 ELSE number, status |-> ~off]

\* The loop over the readings: it ends early at an unknown module or the end of
\* the bytes, and has then set msg.priority for the modules before.
Parsed(d, bytes, count) ==
  LET go[i \in 0..count] ==
        IF i = 0 THEN [pos |-> 1, values |-> <<>>, last |-> -1, ok |-> TRUE]
        ELSE LET p == go[i - 1]
                 m == bytes[p.pos]
                 k == Size(TT[d][m])
             IN  IF ~p.ok \/ p.pos > Len(bytes) \/ m \notin Modules(d) \/ p.pos + k > Len(bytes)
                 THEN [p EXCEPT !.ok = FALSE]
                 ELSE [pos |-> p.pos + k + 1, last |-> m, ok |-> TRUE,
                       values |-> Append(p.values,
                         ServerValue(d, m, OriginalValue(k, SubSeq(bytes, p.pos + 1, p.pos + k))))]
  IN  go[count]

\* The strength of the signal is put behind, for each module of that type.
Signals(d, strength) ==
  [m \in {x \in Modules(d) : TT[d][x] = Rssi} |->
     [module |-> m, number |-> 1000 * strength, status |-> TRUE]]

FromSensor(m) ==
  /\ pan' = "done"
  /\ report' = m
  /\ LET bytes == Received(m)
     IN  IF Len(bytes) < 5 \/ m.device \notin Known
         THEN UNCHANGED <<priority, toServer>>
         ELSE LET p == Parsed(m.device, SubSeq(bytes, 6, Len(bytes)), bytes[5])
                  signals == Signals(m.device, bytes[3])
                  values  == p.values \o SetToSeq({signals[x] : x \in DOMAIN signals})
              IN  /\ priority' = IF p.last = -1 THEN priority
                                 ELSE IF IsActuator(m.device, p.last) THEN "actuator" ELSE "sensor"
                  /\ toServer' = IF p.ok /\ values # <<>>
                                 THEN [address |-> bytes[2], pairs |-> Len(values),
                                       values |-> values, priority |-> priority']
                                 ELSE <<>>
  /\ UNCHANGED <<order, toPan>>

WaitForAdapter ==
  /\ pan' = "done"
  /\ toPan' = <<"RESTORE_YES">>
  /\ UNCHANGED <<priority, report, toServer, order>>

-----------------------------------------------------------------------------
(* To the coordinator. *)

\* The lowest four bytes of the address of a device.
Address(euid) == euid.low

\* convertValue and round
RawValue(d, m, number) == RoundDiv(number * Scale(TT[d][m]), 1000)

OrderBytes(c) ==
  <<"SET_ACTUATORS", 1, Address(c.euid), Len(c.values)>> \o
    FlattenSeq([i \in DOMAIN c.values |->
      LET m == c.values[i].module
          k == Size(TT[c.device][m])
      IN  <<m % 256, k>> \o Bytes(RawValue(c.device, m, c.values[i].number), k)])

\* An unknown device or module leaves the function before anything is sent.
SetActuators(c) ==
  /\ pan' = "done"
  /\ order' = c
  /\ toPan' = IF \A i \in DOMAIN c.values : c.values[i].module \in Modules(c.device)
              THEN OrderBytes(c) ELSE <<>>
  /\ UNCHANGED <<priority, report, toServer>>

SetPairingMode ==
  /\ pan' = "done"
  /\ toPan' = <<"SET_JOIN_MODE", 1>>
  /\ UNCHANGED <<priority, report, toServer, order>>

DeleteDevice(euid) ==
  /\ pan' = "done"
  /\ toPan' = <<"UNPAIR_SENSOR", Address(euid)>>
  /\ UNCHANGED <<priority, report, toServer, order>>

Reset ==
  /\ pan' = "done"
  /\ toPan' = <<"PAN_RESET">>
  /\ UNCHANGED <<priority, report, toServer, order>>

\* The message has been passed on.
Passed ==
  /\ pan = "done" /\ pan' = "idle"
  /\ report' = <<>> /\ toServer' = <<>> /\ order' = <<>> /\ toPan' = <<>>
  /\ UNCHANGED priority

\* Readings or orders for modules of the device, and for one that it does not have.
Lists(d, numbers) ==
  LET one == {[module |-> m, number |-> n] : m \in (Modules(d) \cap Chosen) \cup {99}, n \in numbers}
  IN  UNION {[1..n -> one] : n \in 0..MaxReadings}

ACommand ==
  \/ \E d \in Devices, e \in [high : {0, 1}, low : {7}] :
       \/ \E vs \in Lists(d, Wanted) : SetActuators([device |-> d, euid |-> e, values |-> vs])
       \/ DeleteDevice(e)
  \/ SetPairingMode \/ Reset

AReport ==
  \/ \E d \in Devices, s \in Strengths, c \in BOOLEAN : \E rs \in Lists(d, Numbers) :
       FromSensor([address |-> 7, device |-> d, strength |-> s, readings |-> rs, closed |-> c])
  \/ WaitForAdapter

PanNext == (pan = "idle" /\ (ACommand \/ AReport)) \/ Passed

PanSpec == PanInit /\ [][PanNext]_panVars

-----------------------------------------------------------------------------
PanTypeOK ==
  /\ pan \in {"idle", "done"} /\ priority \in {"sensor", "actuator"}
  /\ toServer # <<>> => toServer.pairs = Len(toServer.values) /\ toServer.values # <<>>
  /\ toPan # <<>> => pan = "done"

\* What the bytes of the module can say, read as the gateway reads them.
Readable(d, r) ==
  LET p == Pow[Size(TT[d][r.module])]
  IN  IF Size(TT[d][r.module]) = 4 THEN -(p \div 2) <= r.number /\ r.number < p \div 2
      ELSE 0 <= r.number /\ r.number < p

\* A report of the coordinator's is passed on if it is whole, and then its readings come
\* first, in their order, each with the number that the sensor meant, and then the strength
\* of the signal.  The exceptions: identifiers over 255, after which nothing is read right;
\* module 3, taken for a battery whatever it is; negative numbers of one or two bytes
\* (PanInterface.cpp:176-288, MosqClient.cpp:56-80).
ReportIsRight ==
  report # <<>> /\ report.device \in Known =>
    LET d == report.device
        rs == report.readings
        known == \A i \in DOMAIN rs : rs[i].module \in Modules(d) /\ rs[i].module < 256
        signals == {m \in Modules(d) : TT[d][m] = Rssi}
    IN  known =>
          /\ toServer # <<>> <=> report.closed /\ (rs # <<>> \/ signals # {})
          /\ toServer # <<>> =>
               /\ toServer.pairs = Len(rs) + Cardinality(signals)
               /\ toServer.address = report.address
               /\ \A i \in DOMAIN rs :
                    LET v == toServer.values[i]
                    IN  /\ v.module = rs[i].module
                        /\ v.module # 3 /\ Readable(d, rs[i]) /\ v.status =>
                             v.number * Scale(TT[d][v.module]) = 1000 * rs[i].number
                        /\ ~v.status => HasUnavailable(d, v.module)
               /\ \A m \in signals :
                    [module |-> m, number |-> 1000 * report.strength, status |-> TRUE]
                      \in ToSet(toServer.values)

\* What the coordinator reads from the bytes of a set command: address and orders.
OrdersIn(bytes) ==
  LET at[i \in 1..(bytes[4] + 1)] == IF i = 1 THEN 5 ELSE at[i - 1] + 2 + bytes[at[i - 1] + 1]
  IN  [i \in 1..bytes[4] |->
         [module |-> bytes[at[i]],
          number |-> Number(SubSeq(bytes, at[i] + 2, at[i] + 1 + bytes[at[i] + 1]))]]

\* A set command reaches the coordinator whole or not at all, with the address, the modules
\* and the numbers that the server meant, if they fit: an address of four bytes, an
\* identifier of one, a number of as many as the table says (PanInterface.cpp:81-139,
\* Aggregator.cpp:99-111, 578-603).
OrderIsRight ==
  order # <<>> =>
    LET vs == order.values
    IN  /\ toPan = <<>> <=> \E i \in DOMAIN vs : vs[i].module \notin Modules(order.device)
        /\ toPan # <<>> =>
             /\ order.euid.high = 0 => toPan[3] = order.euid.low
             /\ Len(OrdersIn(toPan)) = Len(vs)
             /\ \A i \in DOMAIN vs :
                  LET type == TT[order.device][vs[i].module]
                      got  == OrdersIn(toPan)[i]
                      p    == Pow[Size(type)]
                      n    == IF got.number * 2 >= p /\ vs[i].number < 0 THEN got.number - p
                              ELSE got.number
                      most == ((p - 1) * 1000) \div Scale(type)
                  IN  /\ vs[i].module < 256 => got.module = vs[i].module
                      /\ -(most \div 2) <= vs[i].number /\ vs[i].number <= most =>
                           (* within half a unit of the device *)
                           LET off == 2 * (n * 1000 - vs[i].number * Scale(type))
                           IN  -1000 <= off /\ off <= 1000
==============================================================================
