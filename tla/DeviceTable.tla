----------------------------- MODULE DeviceTable -----------------------------
(***************************************************************************)
(* The table of the types of devices (src/device_table.h, fillDeviceTable):*)
(* for each device the modules it has, and for each module the type of its *)
(* value.  In that table the size of a value in bytes, and the factor      *)
(* between the number of the server and that of the device, follow from    *)
(* the type, so they are functions of it here.                             *)
(***************************************************************************)
EXTENDS Integers, Sequences

OnOff   == 1
Battery == 8
Rssi    == 9
Refresh == 10

\* TT_Module.size, transform_from and transform_to
Size(type)  == IF type \in {1, 9, 21, 23, 24} THEN 1 ELSE IF type \in {4, 8, 10, 22, 26} THEN 2 ELSE 4
Scale(type) == IF type \in 2..6 THEN 100 ELSE IF type = Battery THEN 1000 ELSE 1

\* Modules 0, 1, ... of the given types.
Row(types) == [m \in 0..(Len(types) - 1) |-> types[m + 1]]

\* A boiler controller with four zones of six modules.
Boiler == [m \in 0..25 |-> IF m = 25 THEN Rssi ELSE IF m = 24 \/ (m % 6) \in {0, 1} THEN OnOff ELSE 2]

\* A heating controller: four zones of modules that differ by 14, others in a block
\* of 14 of their own, and modules of the whole device.
ZoneOf(m) == IF m \in 65..68 THEN 4 ELSE IF m \in 73..88 THEN 14 + ((m - 73) % 4) ELSE m % 14
InZone    == {m \in 0..55 : (m % 14) \in {0, 1, 2, 3, 5, 6, 7, 11, 12, 13}} \cup (65..68) \cup (73..88)
Heating ==
  [m \in InZone \cup (56..63) \cup {300} |->
     IF m = 300 THEN Refresh ELSE IF m = 61 THEN 3 ELSE IF m = 62 THEN 4 ELSE IF m = 63 THEN 11
     ELSE IF m \in {56, 57} \/ (m \in InZone /\ ZoneOf(m) \in {0, 1, 11}) THEN OnOff ELSE 2]

\* Sensors and weather stations: 0, 2 to 5 and 7 to 13.
Sensors ==
  [d \in {0} \cup (2..5) \cup (7..13) |->
     CASE d = 0 -> Row(<<2, 2, 3, Battery, Rssi, Refresh>>)
       [] d = 2 -> Row(<<4, Refresh>>)
       [] d = 3 -> Row(<<2, 3, 6>>)
       [] d = 4 -> Row(<<2, 3, 6, 2, 3, 6, 2, 3, 6>>)
       [] d = 10 -> Row(<<2, 2, Battery>>)
       [] d = 11 -> Row(<<OnOff, OnOff, Battery>>)
       [] d = 12 -> Row(<<OnOff, 14, 15, 16, 17, 18, Rssi>>)
       [] d = 13 -> Row(<<OnOff, Rssi, Battery>>)
       [] OTHER -> Row(<<OnOff>>)]

\* Heads, Jablotron, air conditioning and lights: 14 to 36, but for 23.
Others ==
  [d \in (14..36) \ {23} |->
     CASE d \in {14, 15} -> Row(<<2, 2, 19, Rssi, Battery>>)
       [] d = 16 -> Row(<<OnOff, 2, 5, Battery>>)
       [] d \in {18, 19, 20, 22} -> Row(<<OnOff, OnOff, Battery>>)
       [] d = 21 -> Row(<<OnOff, OnOff, OnOff, Battery>>)
       [] d = 24 -> Row(<<OnOff, OnOff, 20>>)
       [] d = 25 -> Row(<<OnOff, Battery>>)
       [] d = 26 -> Row(<<OnOff, 5, 2, OnOff, 26, Battery>>)
       [] d = 27 -> Row(<<OnOff, OnOff, 25, 5, 2, 3, 26, Battery, Refresh>>)
       [] d = 28 -> Row(<<OnOff, 3, 3, 3, 3, Battery>>)
       [] d = 29 -> Row(<<3, Battery>>)
       [] d = 30 -> Row(<<OnOff, OnOff>>)
       [] d = 31 -> Row(<<OnOff, OnOff, 24>>)
       [] d = 32 -> Row(<<OnOff, OnOff, 21>>)
       [] d = 33 -> Row(<<OnOff, OnOff, 24, OnOff, 22, 23>>)
       [] d = 34 -> Row(<<OnOff, OnOff, 24, OnOff, 22, 23, 21>>)
       [] OTHER -> Row(<<OnOff>>)]

Known == (0..36) \ {23}

TT == [d \in Known |->
         IF d = 1 THEN Boiler ELSE IF d = 6 THEN Heating
         ELSE IF d \in DOMAIN Sensors THEN Sensors[d] ELSE Others[d]]

\* TT_Module.module_is_actuator.  The modules of device 35 are not cleared before
\* those of 36 are inserted, and insert keeps what is there: 36 has the module of 35,
\* which is no actuator.
IsActuator(d, m) ==
  LET type == TT[d][m]
  IN  \/ type \in {Refresh, 20, 21, 22, 23, 24, 26}
      \/ d = 1 /\ m < 24 /\ (m % 6) \in {0, 1, 2, 4}
      \/ d = 6 /\ m \in InZone /\ ZoneOf(m) \notin {2, 3, 4, 5}
      \/ d \in {14, 15} /\ m = 0
      \/ d \in {7, 8, 9, 12, 17, 24} \cup (30..34) /\ type = OnOff

\* TT_Module.unavailableValue, of the only module that has one: the largest number
\* of four bytes.
HasUnavailable(d, m) == d = 0 /\ m = 1
==============================================================================
