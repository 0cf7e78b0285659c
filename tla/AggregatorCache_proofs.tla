------------------------ MODULE AggregatorCache_proofs ------------------------
(***************************************************************************)
(* Proofs about AggregatorCache.  OwnershipInv (types, one owner per       *)
(* message, agreement of msg.valid with the stamp) is inductive; on top of *)
(* it the accounting of messages and the tracking of the backup file are,  *)
(* and that what the server has once has left the application.             *)
(***************************************************************************)
EXTENDS AggregatorCache, TLAPS

USE MsgsAssumption, NoneAssumption, ConfigAssumption, ReplyAssumption,
    RestartAssumption, BoundAssumption

\* What sendData does with the fields of a message.
LEMMA AttemptFacts ==
  ASSUME NEW m \in Msgs, NEW next \in {"insert", "done"}, TypeOK, Attempt(m, next)
  PROVE  /\ copies' \in [Msgs -> 0..2] /\ unsure' \subseteq Msgs
         /\ valid' \in [Msgs -> BOOLEAN]
         /\ \A n \in Msgs : copies[n] > 0 => copies'[n] > 0
         /\ \A n \in Msgs : n # m => copies'[n] = copies[n] /\ valid'[n] = valid[n]
         /\ valid'[m] = (valid[m] /\ stamped[m])
         /\ next = "insert" => m \in DataMsgs
         /\ next = "done" /\ m \in DataMsgs /\ ~EmptyReplyIsOk => copies'[m] > 0
<1>1. CASE \E reply \in Replies : Send(m, reply, next)
  <2>1. PICK reply \in Replies : Send(m, reply, next)
    BY <1>1
  <2>2. copies \in [Msgs -> 0..2] /\ valid \in [Msgs -> BOOLEAN] /\ unsure \subseteq Msgs
    BY DEF TypeOK
  <2>3. /\ copies' \in [Msgs -> 0..2]
        /\ \A n \in Msgs : copies[n] > 0 => copies'[n] > 0
        /\ \A n \in Msgs : n # m => copies'[n] = copies[n]
        /\ Received(reply) => copies'[m] > 0
    BY <2>1, <2>2 DEF Send, SendToServer
  <2>4. next = "done" /\ m \in DataMsgs /\ ~EmptyReplyIsOk => Received(reply)
    BY <2>1 DEF Send, Replies, Received, Success
  <2> QED
    BY <2>1, <2>2, <2>3, <2>4 DEF Send, SendToServer
<1>2. CASE Invalidate(m, next)
  BY <1>2 DEF Invalidate, TypeOK, netVars
<1> QED
  BY <1>1, <1>2 DEF Attempt

\* The lines that storeCache writes, those of an empty file, and what run() takes from
\* the cache.
LEMMA CacheFacts ==
  /\ NoLines \in [Msgs -> OnFile] /\ \A m \in Msgs : NoLines[m] = "absent"
  /\ cache \subseteq DataMsgs =>
       /\ CacheLines \in [Msgs -> OnFile]
       /\ \A m \in Msgs : CacheLines[m] # "absent" <=> m \in cache
  /\ TypeOK /\ OneOwner /\ item = None /\ Take =>
       \/ item' = None /\ cache' = cache /\ runPc' = "check"
       \/ /\ item' \in cache /\ item' \in DataMsgs /\ runPc' = "send"
          /\ cache' = cache \ {item'}
<1>1. /\ NoLines \in [Msgs -> OnFile] /\ \A m \in Msgs : NoLines[m] = "absent"
      /\ cache \subseteq DataMsgs =>
           /\ CacheLines \in [Msgs -> OnFile]
           /\ \A m \in Msgs : CacheLines[m] # "absent" <=> m \in cache
  BY DEF CacheLines, NoLines, OnFile
<1>2. ASSUME TypeOK, OneOwner, item = None, Take
      PROVE  \/ item' = None /\ cache' = cache /\ runPc' = "check"
             \/ /\ item' \in cache /\ item' \in DataMsgs /\ runPc' = "send"
                /\ cache' = cache \ {item'}
  BY <1>2 DEF Take, First, Sendable, TypeOK
<1> QED
  BY <1>1, <1>2

\* Types, single ownership and the agreement of msg.valid with the time stamp
\* (Aggregator.cpp:134-259, 400-500, 540-556) hold in every reachable state.
THEOREM Ownership == Spec => []OwnershipInv
<1>1. Init => OwnershipInv
  <2> SUFFICES ASSUME Init PROVE OwnershipInv
    OBVIOUS
  <2>1. TypeOK
    <3>1. /\ stamped \in [Msgs -> BOOLEAN] /\ valid \in [Msgs -> BOOLEAN]
          /\ caller \in [Msgs -> CallerPcs] /\ copies \in [Msgs -> 0..2]
          /\ file \in [Msgs -> OnFile]
      BY DEF Init, CallerPcs, OnFile
    <3>2. clock \in BOOLEAN /\ exists \in BOOLEAN
      BY DEF Init
    <3>3. /\ item # None <=> runPc \in {"send", "insert"}
          /\ locked = "run" <=> runPc \in {"flushing", "storing"}
          /\ locked = "watchdog" <=> wd = "storing"
      BY DEF Init
    <3> QED
      BY <3>1, <3>2, <3>3 DEF Init, TypeOK, RunPcs, WdPcs
  <2>2. OneOwner /\ SendableHasTime /\ Strengthening
    BY DEF Init, OneOwner, SendableHasTime, Strengthening, Lines
  <2> QED
    BY <2>1, <2>2 DEF OwnershipInv
<1>2. OwnershipInv /\ [Next]_vars => OwnershipInv'
  <2> SUFFICES ASSUME OwnershipInv, [Next]_vars PROVE OwnershipInv'
    OBVIOUS
  <2>0. TypeOK /\ OneOwner /\ SendableHasTime /\ Strengthening
    BY DEF OwnershipInv
  <2> USE DEF CallerPcs, RunPcs, WdPcs, OnFile, clockVars, fileVars, msgVars,
              netVars
  <2>1. ASSUME NEW m \in Msgs, Call(m) PROVE OwnershipInv'
    <3>1. TypeOK'
      BY <2>0, <2>1 DEF TypeOK, Call
    <3>2. m \notin cache /\ item # m /\ m \notin Lines
      BY <2>0, <2>1 DEF OneOwner, Call, Strengthening
    <3>3. OneOwner' /\ SendableHasTime' /\ Strengthening'
      BY ZenonT(40), <2>0, <2>1, <3>2 DEF TypeOK, OneOwner, SendableHasTime, Strengthening,
         Call, Lines
    <3> QED
      BY <3>1, <3>3 DEF OwnershipInv
  <2>2. ASSUME NEW m \in Msgs, CallerSend(m) PROVE OwnershipInv'
    <3>1. PICK next \in {"insert", "done"} :
            Attempt(m, next) /\ caller' = [caller EXCEPT ![m] = next]
      BY <2>2 DEF CallerSend
    <3>2. TypeOK'
      BY <2>0, <2>2, <3>1, AttemptFacts DEF TypeOK, CallerSend
    <3>3. m \notin cache /\ item # m /\ m \notin Lines
      BY <2>0, <2>2 DEF OneOwner, CallerSend, Strengthening
    <3>4. OneOwner'
      BY <2>0, <2>2, <3>1 DEF TypeOK, OneOwner, CallerSend
    <3>5. SendableHasTime'
      BY <2>0, <2>2, <3>1, <3>3, AttemptFacts DEF TypeOK, SendableHasTime, CallerSend
    <3>6. Strengthening'
      <4>1. valid'[m] = stamped[m]
        BY <2>0, <2>2, <3>1, AttemptFacts DEF CallerSend, Strengthening, TypeOK
      <4>2. \A n \in Msgs : caller'[n] = "send" => valid'[n] = TRUE
        BY <2>0, <2>2, <3>1, AttemptFacts DEF TypeOK, Strengthening
      <4>3. \A n \in Msgs : caller'[n] = "insert" =>
               n \in DataMsgs /\ valid'[n] = stamped'[n]
        BY <2>0, <2>2, <3>1, <4>1, AttemptFacts DEF TypeOK, Strengthening, CallerSend
      <4>4. \A n \in Lines' : n \in DataMsgs /\ caller'[n] = "done"
        BY <2>0, <2>2, <3>1, <3>3 DEF TypeOK, Strengthening, CallerSend, Lines
      <4> QED
        BY <2>0, <2>2, <4>2, <4>3, <4>4 DEF Strengthening, CallerSend
    <3> QED
      BY <3>2, <3>4, <3>5, <3>6 DEF OwnershipInv
  <2>3. ASSUME NEW m \in Msgs, CallerInsert(m) PROVE OwnershipInv'
    <3>1. m \in DataMsgs /\ valid[m] = stamped[m] /\ m \notin Lines /\ item # m
      BY <2>0, <2>3 DEF CallerInsert, Strengthening, OneOwner
    <3>2. TypeOK'
      BY <2>0, <2>3, <3>1 DEF TypeOK, CallerInsert, Insert
    <3>3. OneOwner' /\ SendableHasTime' /\ Strengthening'
      BY <2>0, <2>3, <3>1 DEF TypeOK, OneOwner, SendableHasTime, Strengthening,
         CallerInsert, Insert, Lines
    <3> QED
      BY <3>2, <3>3 DEF OwnershipInv
  <2>4. ASSUME Load PROVE OwnershipInv'
    <3>1. item = None /\ Lines \subseteq DataMsgs
      BY <2>0, <2>4 DEF TypeOK, Load, Strengthening
    <3>2. TypeOK'
      BY <2>0, <2>4, <3>1 DEF TypeOK, Load
    <3>3. OneOwner'
      BY <2>0, <2>4, <3>1 DEF TypeOK, OneOwner, Strengthening, Load
    <3>4. SendableHasTime'
      BY <2>0, <2>4, <3>1 DEF TypeOK, SendableHasTime, Load
    <3>5. Strengthening'
      <4>1. \A m \in Msgs : caller[m] \in {"send", "insert"} =>
               stamped'[m] = stamped[m] /\ valid'[m] = valid[m]
        BY <2>0, <2>4 DEF TypeOK, Load, Strengthening
      <4> QED
        BY <2>0, <2>4, <4>1 DEF TypeOK, Strengthening, Load, Lines
    <3> QED
      BY <3>2, <3>3, <3>4, <3>5 DEF OwnershipInv
  <2>5. CASE Check \/ FlushNothing \/ PickTimeout \/ WdStart \/ WdSeesClock
    <3>1. UNCHANGED <<caller, cache, msgVars, item, locked, fileVars, netVars,
                      restarts, clockVars, lost>>
      BY <2>5 DEF Check, FlushNothing, PickTimeout, WdStart, WdSeesClock
    <3>2. TypeOK'
      BY <2>0, <2>5, <3>1 DEF TypeOK, Check, FlushNothing, PickTimeout, WdStart,
         WdSeesClock
    <3>3. OneOwner' /\ SendableHasTime' /\ Strengthening'
      BY <2>0, <2>5, <3>1 DEF TypeOK, OneOwner, SendableHasTime, Strengthening,
         Lines, Check, FlushNothing, PickTimeout, WdStart, WdSeesClock
    <3> QED
      BY <3>2, <3>3 DEF OwnershipInv
  <2>6. CASE FlushBegin \/ PickStoreBegin
    <3>1. TypeOK'
      BY <2>0, <2>6, CacheFacts DEF TypeOK, FlushBegin, PickStoreBegin, OpenFile
    <3>2. OneOwner' /\ SendableHasTime' /\ Strengthening'
      BY <2>0, <2>6, CacheFacts DEF TypeOK, OneOwner, SendableHasTime,
         Strengthening, Lines, FlushBegin, PickStoreBegin, OpenFile
    <3> QED
      BY <3>1, <3>2 DEF OwnershipInv
  <2>7. CASE FlushEnd \/ ValidateEnd
    <3>1. cache \subseteq DataMsgs /\ \A m \in cache : caller[m] = "done"
      BY <2>0 DEF TypeOK, OneOwner
    <3>2. TypeOK'
      BY ZenonT(40), <2>0, <2>7, <3>1, CacheFacts DEF TypeOK, FlushEnd, ValidateEnd, WriteFile
    <3>3. OneOwner' /\ SendableHasTime' /\ Strengthening'
      BY <2>0, <2>7, <3>1, CacheFacts DEF TypeOK, OneOwner, SendableHasTime,
         Strengthening, Lines, FlushEnd, ValidateEnd, WriteFile
    <3> QED
      BY <3>2, <3>3 DEF OwnershipInv
  <2>8. CASE Pick \/ PickStoreEnd
    <3>1. item = None /\ Take
      BY <2>0, <2>8 DEF TypeOK, Pick, PickStoreEnd
    <3>2. cache \subseteq DataMsgs /\ \A m \in cache : caller[m] = "done"
      BY <2>0 DEF TypeOK, OneOwner
    <3>3. /\ file' \in [Msgs -> OnFile] /\ exists' \in BOOLEAN
          /\ Lines' = Lines \/ Lines' = cache
      <4>1. CASE PickStoreEnd
        BY <2>0, <3>2, <4>1, CacheFacts DEF TypeOK, PickStoreEnd, WriteFile, Lines
      <4>2. CASE Pick
        BY <2>0, <4>2 DEF TypeOK, Pick, Lines
      <4> QED
        BY <2>8, <4>1, <4>2
    <3>4. TypeOK'
      BY <2>0, <2>8, <3>1, <3>3, CacheFacts DEF TypeOK, Pick, PickStoreEnd, WriteFile
    <3>5. OneOwner'
      BY <2>0, <2>8, <3>1, CacheFacts DEF TypeOK, OneOwner, Pick, PickStoreEnd
    <3>6. SendableHasTime'
      BY <2>0, <2>8, <3>1, CacheFacts DEF TypeOK, SendableHasTime, Pick, PickStoreEnd
    <3>7. Strengthening'
      BY <2>0, <2>8, <3>1, <3>2, <3>3, CacheFacts
         DEF TypeOK, Strengthening, Pick, PickStoreEnd
    <3> QED
      BY <3>4, <3>5, <3>6, <3>7 DEF OwnershipInv
  <2>9. CASE PickEmpty
    <3>1. TypeOK'
      BY ZenonT(40), <2>0, <2>9, CacheFacts DEF TypeOK, PickEmpty
    <3>2. OneOwner' /\ SendableHasTime' /\ Strengthening'
      BY <2>0, <2>9, CacheFacts DEF TypeOK, OneOwner, SendableHasTime,
         Strengthening, Lines, PickEmpty
    <3> QED
      BY <3>1, <3>2 DEF OwnershipInv
  <2>10. CASE RunSend
    <3>1. PICK next \in {"insert", "done"} :
            /\ Attempt(item, next)
            /\ runPc' = IF next = "insert" THEN "insert" ELSE "check"
            /\ item' = IF next = "insert" THEN item ELSE None
      BY <2>10 DEF RunSend
    <3>2. item \in DataMsgs /\ item \in Msgs /\ item # None /\ item \notin cache
      BY <2>0, <2>10 DEF RunSend, TypeOK, OneOwner
    <3>3. caller[item] = "done" /\ valid[item] = stamped[item]
      BY <2>0, <3>2 DEF OneOwner, SendableHasTime
    <3>4. valid'[item] = stamped'[item]
      BY <2>0, <2>10, <3>1, <3>2, <3>3, AttemptFacts DEF RunSend, TypeOK
    <3>5. TypeOK'
      BY <2>0, <2>10, <3>1, <3>2, AttemptFacts DEF TypeOK, RunSend
    <3>6. OneOwner'
      BY <2>0, <2>10, <3>1 DEF OneOwner, RunSend, TypeOK
    <3>7. SendableHasTime'
      BY <2>0, <2>10, <3>1, <3>2, <3>4, AttemptFacts
         DEF TypeOK, SendableHasTime, RunSend
    <3>8. Strengthening'
      <4>1. \A m \in Msgs : caller[m] # "done" => valid'[m] = valid[m]
        BY <2>0, <3>1, <3>2, <3>3, AttemptFacts
      <4> QED
        BY <2>0, <2>10, <3>1, <4>1 DEF TypeOK, Strengthening, RunSend, Lines
    <3> QED
      BY <3>5, <3>6, <3>7, <3>8 DEF OwnershipInv
  <2>11. CASE RunInsert
    <3>1. item \in DataMsgs /\ caller[item] = "done" /\ valid[item] = stamped[item]
      BY <2>0, <2>11 DEF RunInsert, TypeOK, OneOwner, SendableHasTime
    <3>2. TypeOK'
      BY <2>0, <2>11, <3>1 DEF TypeOK, RunInsert, Insert
    <3>3. OneOwner' /\ SendableHasTime' /\ Strengthening'
      BY <2>0, <2>11, <3>1 DEF TypeOK, OneOwner, SendableHasTime, Strengthening,
         Lines, RunInsert, Insert
    <3> QED
      BY <3>2, <3>3 DEF OwnershipInv
  <2>12. CASE Validate
    <3>1. /\ stamped' \in [Msgs -> BOOLEAN] /\ valid' \in [Msgs -> BOOLEAN]
          /\ file' \in [Msgs -> OnFile] /\ exists' \in BOOLEAN
      BY <2>0, <2>12, CacheFacts DEF TypeOK, Validate, Restamp, OpenFile
    <3>2. TypeOK'
      BY <2>0, <2>12, <3>1 DEF TypeOK, Validate, OpenFile
    <3>3. /\ \A m \in Msgs : m \notin cache => valid'[m] = valid[m] /\ stamped'[m] = stamped[m]
          /\ \A m \in cache : valid'[m] = TRUE /\ stamped'[m] = TRUE
      <4>1. \A m \in cache : m \in Msgs /\ valid[m] = stamped[m]
        BY <2>0 DEF SendableHasTime, TypeOK
      <4> QED
        BY <2>0, <2>12, <4>1 DEF TypeOK, Validate, Restamp
    <3>4. OneOwner' /\ SendableHasTime'
      BY <2>0, <2>12, <3>3 DEF TypeOK, OneOwner, SendableHasTime, Validate
    <3>5. Strengthening'
      <4>1. \A m \in Msgs : caller[m] # "done" => valid'[m] = valid[m] /\ stamped'[m] = stamped[m]
        BY <2>0, <3>3 DEF OneOwner
      <4>2. Lines' \subseteq Lines
        BY <2>12, CacheFacts DEF Validate, OpenFile, Lines
      <4> QED
        BY <2>0, <2>12, <4>1, <4>2 DEF TypeOK, Strengthening, Validate
    <3> QED
      BY <3>2, <3>4, <3>5 DEF OwnershipInv
  <2>13. CASE ClockLost \/ ClockSet
    <3>1. TypeOK'
      <4>1. clock' \in BOOLEAN
        BY <2>13 DEF ClockLost, ClockSet
      <4>2. blackouts' \in 0..MaxBlackouts
        BY <2>0, <2>13 DEF TypeOK, ClockLost, ClockSet
      <4> QED
        BY <2>0, <2>13, <4>1, <4>2, Zenon DEF TypeOK, ClockLost, ClockSet
    <3>2. OneOwner' /\ SendableHasTime' /\ Strengthening'
      BY <2>0, <2>13 DEF OneOwner, SendableHasTime, Strengthening, Lines, ClockLost,
         ClockSet
    <3> QED
      BY <3>1, <3>2 DEF OwnershipInv
  <2>14. CASE Restart
    <3>1. file' \in [Msgs -> OnFile] /\ Lines' \subseteq Lines \cup cache
      BY <2>0, <2>14, CacheFacts DEF TypeOK, Restart, Lines
    <3>2. TypeOK'
      BY <2>0, <2>14, <3>1 DEF TypeOK, Restart, InMemory
    <3>3. OneOwner' /\ SendableHasTime'
      BY <2>14 DEF OneOwner, SendableHasTime, Restart
    <3>4. Strengthening'
      <4>1. \A m \in Lines \cup cache : m \in DataMsgs /\ caller[m] = "done"
        BY <2>0 DEF Strengthening, OneOwner, TypeOK
      <4> QED
        BY <2>0, <2>14, <3>1, <4>1 DEF TypeOK, Strengthening, Restart
    <3> QED
      BY <3>2, <3>3, <3>4 DEF OwnershipInv
  <2>15. CASE UNCHANGED vars
    BY <2>0, <2>15 DEF vars, OwnershipInv, TypeOK, OneOwner, SendableHasTime,
       Strengthening, Lines
  <2> QED
    BY <2>1, <2>2, <2>3, <2>4, <2>5, <2>6, <2>7, <2>8, <2>9, <2>10, <2>11, <2>12,
       <2>13, <2>14, <2>15 DEF Next, CallerNext, RunNext, WdNext
<1> QED
  BY <1>1, <1>2, PTL DEF Spec
-----------------------------------------------------------------------------
(* What happens to the messages.  From here on an empty answer does not     *)
(* count as success (it does for IOTReceiver::sendToServer, TCP.cpp:289).   *)

Accounting == Accounted /\ FileIsTracked

\* No data message is lost but by a restart, and the backup file holds nothing
\* the cache and run() do not, except what the server has: sendData, run(),
\* loadCache and storeCache together (Aggregator.cpp:134-259, 380-500).
THEOREM NothingLost == ASSUME ~EmptyReplyIsOk PROVE Spec => [](Accounted /\ FileIsTracked)
<1>1. Init => Accounting
  BY DEF Init, Accounting, Accounted, FileIsTracked, Lines
<1>2. OwnershipInv /\ Accounting /\ [Next]_vars => Accounting'
  <2> SUFFICES ASSUME OwnershipInv, Accounting, [Next]_vars PROVE Accounting'
    OBVIOUS
  <2>0. TypeOK /\ OneOwner /\ Strengthening /\ Accounted /\ FileIsTracked
    BY DEF OwnershipInv, Accounting
  <2> USE DEF clockVars, fileVars, msgVars, netVars
  <2>1. ASSUME NEW m \in Msgs, Call(m) PROVE Accounting'
    BY <2>0, <2>1 DEF TypeOK, Accounting, Accounted, FileIsTracked, Held, InMemory,
       Lines, Call
  <2>2. ASSUME NEW m \in Msgs, CallerSend(m) PROVE Accounting'
    <3>1. PICK next \in {"insert", "done"} :
            Attempt(m, next) /\ caller' = [caller EXCEPT ![m] = next]
      BY <2>2 DEF CallerSend
    <3>2. /\ \A n \in Msgs : copies[n] > 0 => copies'[n] > 0
          /\ next = "done" /\ m \in DataMsgs => copies'[m] > 0
      BY <2>0, <3>1, AttemptFacts
    <3> QED
      BY <2>0, <2>2, <3>1, <3>2 DEF TypeOK, Accounting, Accounted, FileIsTracked,
         Held, InMemory, Lines, CallerSend
  <2>3. ASSUME NEW m \in Msgs, CallerInsert(m) PROVE Accounting'
    BY <2>0, <2>3 DEF TypeOK, Accounting, Accounted, FileIsTracked, Held, InMemory,
       Lines, CallerInsert, Insert
  <2>4. CASE Load
    BY <2>0, <2>4 DEF TypeOK, Accounting, Accounted, FileIsTracked, Held, InMemory,
       Lines, Load
  <2>5. CASE Check \/ FlushNothing \/ PickTimeout \/ WdStart \/ WdSeesClock
             \/ ClockLost \/ ClockSet
    <3>1. /\ UNCHANGED <<caller, cache, item, file, copies, lost>>
          /\ runPc' = "load" <=> runPc = "load"
      BY <2>5 DEF Check, FlushNothing, PickTimeout, WdStart, WdSeesClock, ClockLost,
         ClockSet
    <3> QED
      BY <2>0, <3>1 DEF Accounting, Accounted, FileIsTracked, Held, InMemory, Lines
  <2>6. CASE FlushBegin \/ PickStoreBegin \/ Validate
    <3>1. /\ UNCHANGED <<caller, cache, item, copies, lost>>
          /\ runPc # "load" /\ runPc' # "load"
          /\ Lines' \subseteq Lines
      BY <2>0, <2>6, CacheFacts DEF FlushBegin, PickStoreBegin, Validate, OpenFile,
         Lines, Strengthening
    <3> QED
      BY <2>0, <3>1 DEF Accounting, Accounted, FileIsTracked, Held, InMemory
  <2>7. CASE FlushEnd \/ ValidateEnd
    <3>1. /\ UNCHANGED <<caller, cache, item, copies, lost>>
          /\ runPc # "load" /\ runPc' # "load"
          /\ Lines' \subseteq cache
      BY <2>0, <2>7, CacheFacts DEF FlushEnd, ValidateEnd, WriteFile, TypeOK,
         Lines, Strengthening
    <3> QED
      BY <2>0, <3>1 DEF Accounting, Accounted, FileIsTracked, Held, InMemory
  <2>8. CASE Pick \/ PickStoreEnd
    <3>1. /\ item = None /\ runPc # "load" /\ Take
          /\ UNCHANGED <<caller, copies, lost>>
      BY <2>0, <2>8 DEF TypeOK, Pick, PickStoreEnd
    <3>2. cache \cup ({item} \ {None}) = cache' \cup ({item'} \ {None}) /\ runPc' # "load"
      BY <2>0, <3>1, CacheFacts DEF TypeOK
    <3>3. Lines' \subseteq Lines \cup cache
      BY <2>0, <2>8, CacheFacts DEF TypeOK, Pick, PickStoreEnd, WriteFile, Lines
    <3>4. Accounted'
      BY <2>0, <3>1, <3>2 DEF Accounted, Held, InMemory
    <3>5. FileIsTracked'
      BY <2>0, <3>1, <3>2, <3>3 DEF FileIsTracked, Lines
    <3> QED
      BY <3>4, <3>5 DEF Accounting
  <2>9. CASE PickEmpty
    <3>1. /\ UNCHANGED <<caller, cache, item, copies, lost>>
          /\ runPc # "load" /\ runPc' # "load"
          /\ Lines' \subseteq Lines
      BY <2>9, CacheFacts DEF PickEmpty, Lines
    <3> QED
      BY <2>0, <3>1 DEF Accounting, Accounted, FileIsTracked, Held, InMemory
  <2>10. CASE RunSend
    <3>1. PICK next \in {"insert", "done"} :
            /\ Attempt(item, next)
            /\ runPc' = IF next = "insert" THEN "insert" ELSE "check"
            /\ item' = IF next = "insert" THEN item ELSE None
      BY <2>10 DEF RunSend
    <3>2. item \in DataMsgs /\ item \in Msgs
      BY <2>0, <2>10 DEF RunSend, TypeOK
    <3>3. /\ \A n \in Msgs : copies[n] > 0 => copies'[n] > 0
          /\ next = "done" => copies'[item] > 0
      BY <2>0, <3>1, <3>2, AttemptFacts
    <3> QED
      BY <2>0, <2>10, <3>1, <3>2, <3>3 DEF TypeOK, Accounting, Accounted,
         FileIsTracked, Held, InMemory, Lines, RunSend
  <2>11. CASE RunInsert
    BY <2>0, <2>11 DEF TypeOK, Accounting, Accounted, FileIsTracked, Held, InMemory,
       Lines, RunInsert, Insert
  <2>12. CASE Restart
    <3>1. runPc' = "load" /\ copies' = copies
      BY <2>12 DEF Restart
    <3>2. \A m \in InMemory : m \in lost' \/ m \in Lines'
      BY <2>0, <2>12 DEF Restart, InMemory, Lines, TypeOK
    <3>3. lost \subseteq lost'
      BY <2>12 DEF Restart
    <3>4. runPc = "load" => Lines' = Lines
      BY <2>0, <2>12 DEF Restart, Lines, Strengthening, TypeOK
    <3>5. \A m \in Msgs : caller'[m] # "new" => caller[m] # "new"
      BY <2>12 DEF Restart
    <3> QED
      BY <2>0, <3>1, <3>2, <3>3, <3>4, <3>5 DEF Accounting, Accounted, FileIsTracked,
         Held
  <2>13. CASE UNCHANGED vars
    BY <2>0, <2>13 DEF vars, Accounting, Accounted, FileIsTracked, Held, InMemory, Lines
  <2> QED
    BY <2>1, <2>2, <2>3, <2>4, <2>5, <2>6, <2>7, <2>8, <2>9, <2>10, <2>11, <2>12, <2>13
       DEF Next, CallerNext, RunNext, WdNext
<1> QED
  BY <1>1, <1>2, Ownership, PTL DEF Spec, Accounting

\* The backup file is removed only when the server has all of it
\* (Aggregator.cpp:203-217).
THEOREM RemovalIsSafe == ASSUME ~EmptyReplyIsOk PROVE Spec => RemovedMeansSent
<1>1. ASSUME OwnershipInv, FileIsTracked, [Next]_vars
      PROVE  [exists /\ ~exists' => \A m \in Lines : copies[m] > 0]_vars
  <2>1. CASE PickEmpty
    BY <1>1, <2>1 DEF PickEmpty, FileIsTracked, OwnershipInv, TypeOK, Lines
  <2>2. CASE ~PickEmpty
    <3>1. exists' = exists \/ exists' = TRUE
      BY <1>1, <2>2 DEF Next, CallerNext, RunNext, WdNext, vars, fileVars, Call,
         CallerSend, CallerInsert, Load, Check, FlushNothing, FlushBegin, FlushEnd,
         Pick, PickStoreBegin, PickStoreEnd, PickTimeout, RunSend, RunInsert,
         WdStart, WdSeesClock, Validate, ValidateEnd, ClockLost, ClockSet, Restart,
         OpenFile, WriteFile
    <3> QED
      BY <3>1, Zenon
  <2> QED
    BY <2>1, <2>2
<1> QED
  BY <1>1, Ownership, NothingLost, PTL DEF Spec, RemovedMeansSent

\* What the server has once, with its answer in time and no restart in between, has left
\* the application.
SentOnce ==
  \A m \in Msgs \ (unsure \cup reloaded) :
    copies[m] > 0 => copies[m] = 1 /\ caller[m] # "new" /\ m \notin InMemory

\* sendData, run() and loadCache send no message again that the server has answered,
\* unless it came back with the backup file (Aggregator.cpp:134-259, 400-500), whatever
\* counts as success.
THEOREM NothingTwice == Spec => []DuplicateHasCause
<1>1. Init => SentOnce
  BY DEF Init, SentOnce
<1>2. OwnershipInv /\ SentOnce /\ [Next]_vars => SentOnce'
  <2> SUFFICES ASSUME OwnershipInv, SentOnce, [Next]_vars PROVE SentOnce'
    OBVIOUS
  <2> USE DEF clockVars, fileVars, msgVars, netVars
  <2>0. TypeOK /\ OneOwner /\ Strengthening
    BY DEF OwnershipInv
  \* The server hears nothing, and the message is where it was, or nowhere.
  <2>a. ASSUME UNCHANGED <<copies, unsure>>, reloaded \subseteq reloaded',
               \A m \in Msgs \ reloaded' : m \in InMemory' => m \in InMemory,
               \A m \in Msgs : caller'[m] = "new" => caller[m] = "new"
        PROVE  SentOnce'
    BY <2>a DEF SentOnce
  \* sendData, on a caller's thread or on that of run().
  <2>b. ASSUME NEW m \in Msgs, NEW next \in {"insert", "done"}, Attempt(m, next), m \in InMemory,
               reloaded' = reloaded, \A n \in Msgs : n # m /\ n \in InMemory' => n \in InMemory,
               \A n \in Msgs : caller'[n] = "new" => caller[n] = "new" /\ n # m,
               next = "done" => m \notin InMemory'
        PROVE  SentOnce'
    <3>1. CASE Invalidate(m, next)
      BY <2>b, <3>1 DEF Invalidate, SentOnce
    <3>2. ASSUME NEW reply \in Replies, Send(m, reply, next) PROVE SentOnce'
      <4>1. /\ copies' = IF Received(reply) /\ copies[m] < 2
                         THEN [copies EXCEPT ![m] = copies[m] + 1] ELSE copies
            /\ unsure' = IF reply = "noAnswer" THEN unsure \cup {m} ELSE unsure
            /\ copies \in [Msgs -> 0..2]
        BY <2>0, <3>2 DEF Send, SendToServer, TypeOK
      <4>2. \A n \in Msgs : n # m => copies'[n] = copies[n]
        BY <4>1
      <4>3. m \notin unsure \cup reloaded => copies[m] = 0
        <5>1. copies[m] \in 0..2
          BY <4>1
        <5> QED
          BY <2>b, <5>1 DEF SentOnce
      <4>4. m \notin unsure' \cup reloaded /\ copies'[m] > 0
            => copies'[m] = 1 /\ next = "done"
        <5> SUFFICES ASSUME m \notin unsure' \cup reloaded, copies'[m] > 0
                     PROVE  copies'[m] = 1 /\ next = "done"
          OBVIOUS
        <5>1. reply # "noAnswer" /\ copies[m] = 0
          BY <4>1, <4>3
        <5>2. Received(reply) /\ copies'[m] = 1
          BY <4>1, <5>1
        <5>3. reply = "answer"
          BY <5>1, <5>2 DEF Received
        <5> QED
          BY <3>2, <5>2, <5>3 DEF Send, Success
      <4> QED
        BY <2>b, <4>1, <4>2, <4>4 DEF SentOnce
    <3> QED
      BY <2>b, <3>1, <3>2 DEF Attempt
  <2>1. ASSUME NEW m \in Msgs, Call(m) PROVE SentOnce'
    <3>1. /\ caller[m] = "new" /\ caller' = [caller EXCEPT ![m] = "send"]
          /\ UNCHANGED <<copies, unsure, reloaded, cache, item>>
      BY <2>1 DEF Call
    <3>2. \A n \in Msgs : caller'[n] = IF n = m THEN "send" ELSE caller[n]
      BY <2>0, <3>1 DEF TypeOK
    <3>3. \A n \in Msgs : n # m /\ n \in InMemory' => n \in InMemory
      BY <3>1, <3>2 DEF InMemory
    <3> QED
      BY <3>1, <3>2, <3>3 DEF SentOnce
  <2>2. ASSUME NEW m \in Msgs, CallerSend(m) PROVE SentOnce'
    <3>1. PICK next \in {"insert", "done"} :
            Attempt(m, next) /\ caller' = [caller EXCEPT ![m] = next]
      BY <2>2 DEF CallerSend
    <3>2. caller[m] = "send" /\ UNCHANGED <<cache, reloaded, item>>
      BY <2>2 DEF CallerSend
    <3>3. \A n \in Msgs : caller'[n] = IF n = m THEN next ELSE caller[n]
      BY <2>0, <3>1 DEF TypeOK
    <3>4. m \in InMemory /\ m \notin cache \cup ({item} \ {None})
      BY <2>0, <3>2 DEF InMemory, OneOwner
    <3>5. /\ \A n \in Msgs : n # m /\ n \in InMemory' => n \in InMemory
          /\ next = "done" => m \notin InMemory'
      BY <3>2, <3>3, <3>4 DEF InMemory
    <3> QED
      BY <2>b, <3>1, <3>2, <3>3, <3>4, <3>5
  <2>3. ASSUME NEW m \in Msgs, CallerInsert(m) PROVE SentOnce'
    <3>1. /\ caller[m] = "insert" /\ caller' = [caller EXCEPT ![m] = "done"]
          /\ cache' = cache \cup {m} /\ UNCHANGED <<copies, unsure, reloaded, item>>
      BY <2>3 DEF CallerInsert, Insert
    <3>2. \A n \in Msgs : caller'[n] = IF n = m THEN "done" ELSE caller[n]
      BY <2>0, <3>1 DEF TypeOK
    <3>3. \A n \in Msgs : n \in InMemory' => n \in InMemory
      BY <3>1, <3>2 DEF InMemory
    <3> QED
      BY <2>a, <3>1, <3>2, <3>3
  <2>4. CASE Load
    <3>1. /\ reloaded' = reloaded \cup Lines /\ cache' = cache \cup Lines
          /\ UNCHANGED <<copies, unsure, caller, item>>
      BY <2>4 DEF Load
    <3> QED
      BY <2>a, <3>1 DEF InMemory
  <2>5. CASE \/ Check \/ FlushNothing \/ FlushBegin \/ FlushEnd \/ PickStoreBegin
             \/ PickEmpty \/ PickTimeout \/ WdNext \/ ClockLost \/ ClockSet
    <3>1. UNCHANGED <<copies, unsure, reloaded, cache, caller, item>>
      BY <2>5 DEF Check, FlushNothing, FlushBegin, FlushEnd, PickStoreBegin, PickEmpty,
         PickTimeout, WdNext, WdStart, WdSeesClock, Validate, Restamp, ValidateEnd, ClockLost, ClockSet
    <3> QED
      BY <2>a, <3>1 DEF InMemory
  <2>6. CASE Pick \/ PickStoreEnd
    <3>1. item = None /\ Take /\ UNCHANGED <<copies, unsure, reloaded, caller>>
      BY <2>0, <2>6 DEF TypeOK, Pick, PickStoreEnd
    <3>2. cache \cup ({item} \ {None}) = cache' \cup ({item'} \ {None})
      BY <2>0, <3>1, CacheFacts DEF TypeOK
    <3> QED
      BY <2>a, <3>1, <3>2 DEF InMemory
  <2>7. CASE RunSend
    <3>1. PICK next \in {"insert", "done"} :
            Attempt(item, next) /\ item' = IF next = "insert" THEN item ELSE None
      BY <2>7 DEF RunSend
    <3>2. item \in Msgs /\ UNCHANGED <<cache, caller, reloaded>>
      BY <2>0, <2>7 DEF RunSend, TypeOK
    <3>3. item \notin cache /\ caller[item] = "done"
      BY <2>0, <3>2 DEF OneOwner
    <3>4. /\ item \in InMemory
          /\ \A n \in Msgs : n # item /\ n \in InMemory' => n \in InMemory
          /\ next = "done" => item \notin InMemory'
      BY <3>1, <3>2, <3>3 DEF InMemory
    <3> QED
      BY <2>b, <3>1, <3>2, <3>3, <3>4
  <2>8. CASE RunInsert
    <3>1. /\ item \in Msgs /\ cache' = cache \cup {item} /\ item' = None
          /\ UNCHANGED <<copies, unsure, reloaded, caller>>
      BY <2>0, <2>8 DEF RunInsert, Insert, TypeOK
    <3> QED
      BY <2>a, <3>1 DEF InMemory
  <2>9. CASE Restart
    <3>1. /\ cache' = {} /\ item' = None /\ UNCHANGED <<copies, unsure, reloaded>>
          /\ caller' = [m \in Msgs |-> IF caller[m] = "new" THEN "new" ELSE "done"]
      BY <2>9 DEF Restart
    <3>2. InMemory' = {}
      BY <3>1 DEF InMemory
    <3> QED
      BY <2>a, <3>1, <3>2
  <2>10. CASE UNCHANGED vars
    BY <2>a, <2>10 DEF vars, InMemory
  <2> QED
    BY <2>1, <2>2, <2>3, <2>4, <2>5, <2>6, <2>7, <2>8, <2>9, <2>10 DEF Next, CallerNext, RunNext
<1>3. OwnershipInv /\ SentOnce => DuplicateHasCause
  <2> SUFFICES ASSUME OwnershipInv, SentOnce, NEW m \in Msgs, copies[m] > 1
               PROVE  m \in unsure \cup reloaded
    BY DEF DuplicateHasCause
  <2>1. copies[m] \in 0..2
    BY DEF OwnershipInv, TypeOK
  <2> QED
    BY <2>1 DEF SentOnce
<1> QED
  BY <1>1, <1>2, <1>3, Ownership, PTL DEF Spec

-----------------------------------------------------------------------------
(* The Aggregator implements MessageRelay. *)

Pending   == Held \cap DataMsgs
Arrived == {m \in DataMsgs : copies[m] > 0}
Taken     == {m \in DataMsgs : caller[m] # "new"}

\* The Aggregator implements MessageRelay: between restarts a data message it
\* has accepted leaves it only into the hands of the server.
THEOREM Implements == ASSUME ~EmptyReplyIsOk PROVE Spec => KeepsPromise
\* A step of the Aggregator that moves a message, seen from outside.
<1>deliver. ASSUME NEW m \in DataMsgs, m \in Pending, Taken' = Taken, restarts' = restarts,
                   Pending' \in {Pending, Pending \ {m}},
                   Arrived' \in {Arrived, Arrived \cup {m}},
                   Pending' = Pending \/ m \in Arrived'
            PROVE  [Relay!RelayNext]_(Relay!relayVars)
  <2> USE <1>deliver
  <2>1. CASE Arrived' = Arrived \cup {m}
    BY <2>1 DEF Relay!RelayNext, Relay!Deliver, Pending, Arrived, Taken
  <2>2. CASE Arrived' = Arrived
    <3>1. CASE Pending' = Pending
      BY <2>2, <3>1 DEF Relay!relayVars, Pending, Arrived, Taken
    <3>2. CASE m \in Arrived'
      BY <2>2, <3>2 DEF Relay!RelayNext, Relay!Deliver, Pending, Arrived, Taken
    <3> QED
      BY <3>1, <3>2
  <2> QED
    BY <2>1, <2>2
<1>1. Init => Relay!RelayInit
  BY DEF Init, Relay!RelayInit, Held, InMemory, Lines
<1>2. OwnershipInv /\ Accounting /\ [Next]_vars => [Relay!RelayNext]_(Relay!relayVars)
  <2> SUFFICES ASSUME OwnershipInv, Accounting, [Next]_vars
               PROVE  [Relay!RelayNext]_(Relay!relayVars)
    OBVIOUS
  <2>0. TypeOK /\ OneOwner /\ Strengthening /\ Accounted /\ FileIsTracked
    BY DEF OwnershipInv, Accounting
  <2> USE DEF clockVars, fileVars, msgVars, netVars
  <2>a. ASSUME Pending' = Pending, Arrived' = Arrived, Taken' = Taken,
               restarts' = restarts
        PROVE  UNCHANGED Relay!relayVars
    BY <2>a DEF Relay!relayVars, Pending, Arrived, Taken
  <2>1. ASSUME NEW m \in Msgs, Call(m) PROVE [Relay!RelayNext]_(Relay!relayVars)
    <3>1. copies' = copies /\ restarts' = restarts /\ Arrived' = Arrived
      BY <2>1 DEF Call, Arrived
    <3>2. CASE m \in DataMsgs
      <4>1. m \notin Taken /\ Taken' = Taken \cup {m} /\ Pending' = Pending \cup {m}
        BY <2>0, <2>1, <3>2 DEF Call, Taken, Pending, Held, InMemory, Lines, TypeOK
      <4> QED
        BY <3>1, <3>2, <4>1 DEF Relay!RelayNext, Relay!Accept, Pending, Arrived, Taken
    <3>3. CASE m \notin DataMsgs
      <4>1. Taken' = Taken /\ Pending' = Pending
        BY <2>0, <2>1, <3>3 DEF Call, Taken, Pending, Held, InMemory, Lines, TypeOK
      <4> QED
        BY <2>a, <3>1, <4>1
    <3> QED
      BY <3>2, <3>3
  <2>2. ASSUME NEW m \in Msgs, CallerSend(m) PROVE [Relay!RelayNext]_(Relay!relayVars)
    <3>1. PICK next \in {"insert", "done"} :
            Attempt(m, next) /\ caller' = [caller EXCEPT ![m] = next]
      BY <2>2 DEF CallerSend
    <3>2. m \notin cache /\ item # m /\ m \notin Lines /\ caller[m] = "send"
      BY <2>0, <2>2 DEF OneOwner, CallerSend, Strengthening
    <3>3. /\ \A n \in Msgs : n # m => copies'[n] = copies[n]
          /\ copies[m] > 0 => copies'[m] > 0
          /\ next = "done" /\ m \in DataMsgs => copies'[m] > 0
      BY <2>0, <3>1, AttemptFacts
    <3>4. Taken' = Taken /\ restarts' = restarts
      BY <2>0, <2>2, <3>1, <3>2 DEF Taken, CallerSend, TypeOK
    <3>5. CASE m \in DataMsgs
      <4>1. m \in Pending /\ Pending' = IF next = "done" THEN Pending \ {m} ELSE Pending
        BY <2>0, <2>2, <3>1, <3>2, <3>5 DEF Pending, Held, InMemory, Lines, CallerSend,
           TypeOK
      <4>2. Arrived' \in {Arrived, Arrived \cup {m}}
        BY <3>3 DEF Arrived
      <4>3. Pending' = Pending \/ m \in Arrived'
        BY <3>1, <3>3, <3>5, <4>1 DEF Arrived
      <4> QED
        BY <3>4, <3>5, <4>1, <4>2, <4>3, <1>deliver
    <3>6. CASE m \notin DataMsgs
      <4>1. Pending' = Pending
        BY <2>0, <2>2, <3>1, <3>6 DEF Pending, Held, InMemory, Lines, CallerSend, TypeOK
      <4>2. Arrived' = Arrived
        BY <3>3, <3>6 DEF Arrived
      <4> QED
        BY <2>a, <3>4, <4>1, <4>2
    <3> QED
      BY <3>5, <3>6
  <2>3. ASSUME NEW m \in Msgs, CallerInsert(m) PROVE [Relay!RelayNext]_(Relay!relayVars)
    <3>1. m \in DataMsgs
      BY <2>0, <2>3 DEF CallerInsert, Strengthening
    <3>2. Pending' = Pending /\ Taken' = Taken /\ Arrived' = Arrived
      BY <2>0, <2>3, <3>1 DEF Pending, Taken, Arrived, Held, InMemory, Lines,
         CallerInsert, Insert, TypeOK
    <3> QED
      BY <2>a, <2>3, <3>2 DEF CallerInsert
  <2>4. CASE Load
    <3>1. Pending' = Pending /\ Taken' = Taken /\ Arrived' = Arrived
      BY <2>0, <2>4 DEF Pending, Taken, Arrived, Held, InMemory, Lines, Load, TypeOK
    <3> QED
      BY <2>a, <2>4, <3>1 DEF Load
  <2>5. CASE Check \/ FlushNothing \/ PickTimeout \/ WdStart \/ WdSeesClock
             \/ ClockLost \/ ClockSet
    <3>1. /\ UNCHANGED <<caller, cache, item, file, copies, restarts>>
          /\ runPc' = "load" <=> runPc = "load"
      BY <2>5 DEF Check, FlushNothing, PickTimeout, WdStart, WdSeesClock, ClockLost,
         ClockSet
    <3> QED
      BY <2>a, <3>1 DEF Pending, Taken, Arrived, Held, InMemory, Lines
  <2>6. CASE \/ FlushBegin \/ PickStoreBegin \/ Validate \/ FlushEnd \/ ValidateEnd
             \/ PickEmpty
    <3>1. /\ UNCHANGED <<caller, cache, item, copies, restarts>>
          /\ runPc # "load" /\ runPc' # "load"
      BY <2>0, <2>6 DEF FlushBegin, PickStoreBegin, Validate, FlushEnd, ValidateEnd,
         PickEmpty, Strengthening
    <3> QED
      BY <2>a, <3>1 DEF Pending, Taken, Arrived, Held, InMemory
  <2>7. CASE Pick \/ PickStoreEnd
    <3>1. /\ item = None /\ runPc # "load" /\ Take
          /\ UNCHANGED <<caller, copies, restarts>>
      BY <2>0, <2>7 DEF TypeOK, Pick, PickStoreEnd
    <3>2. cache \cup ({item} \ {None}) = cache' \cup ({item'} \ {None}) /\ runPc' # "load"
      BY <2>0, <3>1, CacheFacts DEF TypeOK
    <3>3. Pending' = Pending /\ Taken' = Taken /\ Arrived' = Arrived
      BY <3>1, <3>2 DEF Pending, Taken, Arrived, Held, InMemory
    <3> QED
      BY <2>a, <3>1, <3>3
  <2>8. CASE RunSend
    <3>1. PICK next \in {"insert", "done"} :
            /\ Attempt(item, next)
            /\ runPc' = IF next = "insert" THEN "insert" ELSE "check"
            /\ item' = IF next = "insert" THEN item ELSE None
      BY <2>8 DEF RunSend
    <3>2. /\ item \in DataMsgs /\ item \in Msgs /\ item # None /\ item \notin cache
          /\ caller[item] = "done"
      BY <2>0, <2>8 DEF RunSend, TypeOK, OneOwner
    <3>3. /\ \A n \in Msgs : n # item => copies'[n] = copies[n]
          /\ copies[item] > 0 => copies'[item] > 0
          /\ next = "done" => copies'[item] > 0
      BY <2>0, <3>1, <3>2, AttemptFacts
    <3>4. Taken' = Taken /\ restarts' = restarts
      BY <2>8 DEF RunSend, Taken
    <3>5. /\ item \in Pending
          /\ Pending' = IF next = "done" THEN Pending \ {item} ELSE Pending
      BY <2>0, <2>8, <3>1, <3>2 DEF Pending, Held, InMemory, RunSend, TypeOK
    <3>6. Arrived' \in {Arrived, Arrived \cup {item}}
      BY <3>3 DEF Arrived
    <3>7. Pending' = Pending \/ item \in Arrived'
      BY <3>1, <3>2, <3>3, <3>5 DEF Arrived
    <3> QED
      BY <3>2, <3>4, <3>5, <3>6, <3>7, <1>deliver
  <2>9. CASE RunInsert
    <3>1. /\ cache' = cache \cup {item} /\ item' = None /\ item # None
          /\ UNCHANGED <<caller, copies, restarts>>
          /\ runPc # "load" /\ runPc' # "load"
      BY <2>0, <2>9 DEF RunInsert, Insert, TypeOK
    <3>2. Pending' = Pending /\ Taken' = Taken /\ Arrived' = Arrived
      BY <3>1 DEF Pending, Taken, Arrived, Held, InMemory
    <3> QED
      BY <2>a, <3>1, <3>2
  <2>10. CASE Restart
    <3>1. Taken' = Taken /\ Arrived' = Arrived /\ restarts' = restarts + 1
      BY <2>10 DEF Restart, Taken, Arrived, TypeOK
    <3>2. Lines' \subseteq Lines \cup cache
      BY <2>0, <2>10, CacheFacts DEF Restart, Lines, TypeOK
    <3>3. Pending' \subseteq Lines'
      BY <2>10 DEF Restart, Pending, Held, InMemory
    <3>4. Lines \subseteq Held \cup Arrived
      BY <2>0 DEF FileIsTracked, Held, InMemory, Arrived, Strengthening, TypeOK
    <3>5. Pending' \subseteq Pending \cup Arrived
      BY <2>0, <3>2, <3>3, <3>4 DEF Pending, Held, InMemory, TypeOK
    <3> QED
      BY <3>1, <3>5 DEF Relay!RelayNext, Relay!CrashAndReload, Pending, Arrived, Taken
  <2>11. CASE UNCHANGED vars
    BY <2>a, <2>11 DEF vars, Pending, Taken, Arrived, Held, InMemory, Lines
  <2> QED
    BY <2>1, <2>2, <2>3, <2>4, <2>5, <2>6, <2>7, <2>8, <2>9, <2>10, <2>11
       DEF Next, CallerNext, RunNext, WdNext
<1> QED
  BY <1>1, <1>2, NothingLost, Ownership, PTL
     DEF Spec, KeepsPromise, Relay!RelaySpec, Accounting
==============================================================================
