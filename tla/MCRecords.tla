------------------------------- MODULE MCRecords -------------------------------
(***************************************************************************)
(* What the gateway keeps and hands on besides the server's connections,   *)
(* on small instances: the Distributor's queue and history, and what the   *)
(* backup file says.  The models are independent, so a behaviour exercises *)
(* one and leaves the other at rest.                                       *)
(***************************************************************************)
EXTENDS Distributor

CONSTANTS
  m1, m2, m3,            \* messages
  Readings,              \* what modules cache
  MaxMessages, MaxStores

ASSUME RecordsBoundAssumption == {MaxMessages, MaxStores} \subseteq Nat
ASSUME ReadingsAssumption ==
  \A r \in Readings :
    /\ r.priority \in Nat /\ r.pairs \in Nat
    /\ r.values \in Seq([mid : Nat, number : Int, status : BOOLEAN])

VARIABLES
  exercised, \* the part
  cache, file, gateway, promised, torn, time, stores

backupOf == <<cache, file, gateway, promised, torn, time, stores>>

\* m1 and m2 are of the same second; m3 comes in a blackout and is given another
\* time afterwards.
Stamped   == [m \in Msgs |-> IF m = m3 THEN 2 ELSE 1]
Corrected == [m \in Msgs |-> IF m = m3 THEN 3 ELSE 1]

\* As the modules cache them: with as many values as they say, with more (VPT's, if the
\* device has a sensor twice), with fewer, and with none; one is of an actuator.
Value(mid, number, status) == [mid |-> mid, number |-> number, status |-> status]
SomeReadings ==
  {[priority |-> 1, pairs |-> 1, values |-> <<Value(1, 21505, TRUE)>>],
   [priority |-> 3, pairs |-> 2, values |-> <<Value(1, 1000, TRUE), Value(2, 500, FALSE)>>],
   [priority |-> 1, pairs |-> 1, values |-> <<Value(2, 1000, TRUE), Value(3, 2000, TRUE)>>],
   [priority |-> 1, pairs |-> 1, values |-> <<>>]}

B == INSTANCE BackupFile

RecordsInit ==
  /\ exercised \in {"distributor", "backup"}
  /\ Init /\ B!FileInit

OfDistributor == exercised = "distributor" /\ Next /\ UNCHANGED <<exercised, backupOf>>
OfBackup      == exercised = "backup" /\ B!FileNext /\ UNCHANGED <<exercised, vars>>

RecordsNext == OfDistributor \/ OfBackup

\* Fair to the threads of the Distributor (see FairSpec there).
RecordsSpec ==
  /\ RecordsInit
  /\ [][RecordsNext]_<<exercised, vars, backupOf>>
  /\ WF_vars(SendBegin \/ SendEnd)
  /\ \A t \in Threads : WF_vars(AddNewMessage(t))

\* What storeCache wrote is what loadCache brings back (Aggregator.cpp:387-497).
BackupIsFaithful == B!BackupIsFaithful
==============================================================================
