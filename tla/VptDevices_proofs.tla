--------------------------- MODULE VptDevices_proofs ---------------------------
(***************************************************************************)
(* Proofs about VptDevices: types, that run() never waits for a callback   *)
(* that waits for devs_lock, that it does not sleep past a device nobody   *)
(* else has touched, and that a paired device is erased only by a thread   *)
(* that had collected it before.                                           *)
(***************************************************************************)
EXTENDS VptDevices, RecursionFacts, TLAPS

USE EuidAssumption, TimeAssumption, BoundAssumption

\* The start interval of detect_devs_timer is set from its start to the end of its
\* callback, and run() goes to stop() only when it is not.
TimerInUse ==
  /\ pc["detectTimer"] # "idle" => interval
  /\ pc["main"] = "stop" => ~interval

\* run() has devices to visit only while it holds devs_lock.
VisitsLocked ==
  /\ todo # {} => Locked
  /\ pc["main"] \in {"charge", "stop"} => todo # {}

\* next_wakeup is 0 until run() has slept.
NoSleepYet == pc["main"] \in {"ask", "search", "pair", "drop", "first"} => next = 0

\* A known device that is to be erased and is paired was marked since it was collected.
DoomedIsReprieved ==
  \A t \in Threads : \A d \in doomed[t] \cap known : paired[d] => d \in reprieved

Inv == TypeOK /\ TimerInUse /\ VisitsLocked /\ NoSleepYet /\ SleepFits /\ DoomedIsReprieved

-----------------------------------------------------------------------------
\* Inv is inductive. The first steps say what the operators of the model do to the
\* parts of Inv: the device run() visits, its sleep, and what reading, erasing,
\* inserting and reprieving devices changes (VPTSensor.cpp); then every action of
\* Next keeps Inv.
LEMMA Invariance == (Init => Inv) /\ (Inv /\ [Next]_vars => Inv')
\* The device visited is one of those still to be visited.
<1>current. ASSUME todo \subseteq Euids, todo # {}
            PROVE  Current \in todo
  <2> USE <1>current
  <2>1. PICK d \in todo : \A e \in todo : d <= e
    BY LeastNumber
  <2> QED
    BY <2>1 DEF Current
\* run() sleeps no longer than the first device has time left.
<1>sleep. ASSUME NEW keys, keys \subseteq Euids, left \in [Euids -> Nat]
          PROVE  NextWakeup(keys) \in Nat /\ \A d \in keys : NextWakeup(keys) <= left[d]
  <2> USE <1>sleep
  <2>1. CASE keys = {}
    BY <2>1 DEF NextWakeup
  <2>2. CASE keys # {}
    <3> DEFINE Lefts == {left[d] : d \in keys}
    <3>1. Lefts \subseteq Nat /\ Lefts # {}
      BY <2>2
    <3>2. PICK i \in Lefts : \A j \in Lefts : i <= j
      <4> HIDE DEF Lefts
      <4> QED
        BY <3>1, LeastNumber
    <3>3. PICK d \in keys : \A e \in keys : left[d] <= left[e]
      BY <3>2
    <3> QED
      BY <2>2, <3>3 DEF NextWakeup
  <2> QED
    BY <2>1, <2>2
\* Reading a device changes its wake-up time and what is left of active.
<1>fetch. ASSUME NEW d \in Euids, TypeOK, Fetch(d)
          PROVE  wake' \in [Euids -> Nat] /\ active' \in [Euids -> 0..ActiveTime]
  <2> USE <1>fetch
  <2>1. wake \in [Euids -> Nat] /\ active \in [Euids -> 0..ActiveTime]
    BY DEF TypeOK
  <2>2. CASE UNCHANGED <<wake, active>>
    BY <2>1, <2>2
  <2>3. CASE ~(paired[d] /\ active[d] = 0)
    <3>1. PICK w \in {wake[d]} \cup {AtLeastDefault(t) : t \in Times} :
            /\ wake' = [wake EXCEPT ![d] = w]
            /\ \/ active' = [active EXCEPT ![d] = Spent(d, w)]
               \/ paired[d] /\ UNCHANGED active
      BY <2>3 DEF Fetch
    <3>2. w \in Nat
      BY <2>1 DEF AtLeastDefault
    <3>3. Spent(d, w) \in 0..ActiveTime
      BY <2>1, <3>2 DEF Spent
    <3> QED
      BY <2>1, <3>1, <3>2, <3>3
  <2> QED
    BY <2>2, <2>3 DEF Fetch
\* deleteDevices keeps what is known of the devices that stay.
<1>delete. ASSUME NEW t \in Threads, Inv, ~Locked, Delete(t)
           PROVE  /\ known' = known \ doomed[t] /\ todo = {}
                  /\ doomed' \in [Threads -> SUBSET Euids] /\ dangling' \subseteq Threads
                  /\ reprieved' \subseteq Euids
                  /\ UNCHANGED <<paired, wake, left, active>>
                  /\ DoomedIsReprieved'
  <2> USE <1>delete
  <2>1. /\ known' = known \ doomed[t] /\ doomed' = [doomed EXCEPT ![t] = {}]
        /\ reprieved' = reprieved \ doomed[t] /\ UNCHANGED <<paired, wake, left, active>>
    BY DEF Delete
  <2>2. doomed' \in [Threads -> SUBSET Euids] /\ reprieved' \subseteq Euids
    BY <2>1 DEF Inv, TypeOK
  <2>3. dangling' \subseteq Threads
    BY DEF Delete, Inv, TypeOK
  <2>4. todo = {}
    BY DEF Inv, VisitsLocked
  <2>5. DoomedIsReprieved'
    BY <2>1 DEF Inv, DoomedIsReprieved, TypeOK
  <2> QED
    BY <2>1, <2>2, <2>3, <2>4, <2>5
\* What Insert does to types, and to what is left of the time of devices that others
\* have not touched.
<1>insert. ASSUME Inv, NEW S, S \subseteq Euids, NEW a \in 0..ActiveTime, Insert(S, a)
           PROVE  /\ known' = known \cup S /\ touched' = touched \cup S
                  /\ known' \subseteq Euids /\ touched' \subseteq Euids
                  /\ wake' \in [Euids -> Nat] /\ left' \in [Euids -> Nat]
                  /\ active' \in [Euids -> 0..ActiveTime]
                  /\ \A d \in known' \ touched' : d \in known \ touched /\ left'[d] = left[d]
  <2> USE <1>insert
  <2>1. known' = known \cup S /\ touched' = touched \cup S
    BY DEF Insert
  <2>2. known' \subseteq Euids /\ touched' \subseteq Euids
    BY <2>1 DEF Inv, TypeOK
  <2>3. /\ wake' = Set(wake, S, Default) /\ left' = Set(left, S, Default)
        /\ active' = Set(active, S, a)
        /\ wake \in [Euids -> Nat] /\ left \in [Euids -> Nat] /\ active \in [Euids -> 0..ActiveTime]
        /\ Default \in Nat
    BY DEF Insert, Inv, TypeOK
  <2>4. wake' \in [Euids -> Nat] /\ left' \in [Euids -> Nat] /\ active' \in [Euids -> 0..ActiveTime]
    BY <2>3 DEF Set
  <2>5. \A d \in Euids \ S : left'[d] = left[d]
    BY <2>3 DEF Set
  <2> QED
    BY <2>1, <2>2, <2>4, <2>5
\* Marking devices as paired and reprieving them keeps DoomedIsReprieved.
<1>reprieve. ASSUME Inv, NEW S, S \subseteq Euids, known' \subseteq known \cup S,
                    paired' = Set(paired, S, TRUE), Reprieve(S), doomed' = doomed
             PROVE  /\ paired' \in [Euids -> BOOLEAN] /\ reprieved' \subseteq Euids
                    /\ DoomedIsReprieved'
  <2> USE <1>reprieve
  <2>1. /\ paired' \in [Euids -> BOOLEAN]
        /\ \A d \in Euids : paired'[d] = IF d \in S THEN TRUE ELSE paired[d]
    <3>1. paired \in [Euids -> BOOLEAN]
      BY DEF Inv, TypeOK
    <3> QED
      BY <3>1 DEF Set
  <2>2. reprieved' \subseteq Euids
    BY DEF Reprieve, Inv, TypeOK
  <2>3. ASSUME NEW t \in Threads, NEW d \in doomed[t] \cap known', paired'[d]
        PROVE  d \in reprieved'
    <3>1. d \in Euids
      BY <2>3 DEF Inv, TypeOK
    <3>2. CASE d \in S
      BY <2>3, <3>2 DEF Reprieve
    <3>3. CASE d \notin S
      BY <2>1, <2>3, <3>1, <3>3 DEF Reprieve, Inv, DoomedIsReprieved
    <3> QED
      BY <3>2, <3>3
  <2> QED
    BY <2>1, <2>2, <2>3 DEF DoomedIsReprieved
\* How a thread other than run() moves, or run() before its first round.
<1>move. ASSUME Inv, NEW t \in Threads, pc[t] \in {"search", "pair", "drop", "unpair", "mark"},
                NEW l \in {"pair", "drop", "first", "stop", "search", "mark", "end"}, Goto(t, l),
                t = "main" => pc[t] \in {"search", "pair", "drop"} /\ l \in {"pair", "drop", "first"},
                interval' = interval, next' = next, todo' = todo
         PROVE  /\ pc' \in [Threads -> Pcs] /\ TimerInUse' /\ VisitsLocked' /\ NoSleepYet'
                /\ \/ pc'["main"] = pc["main"]
                   \/ pc'["main"] \in {"pair", "drop", "first"}
  <2> USE <1>move
  <2>1. pc \in [Threads -> Pcs] /\ "main" \in Threads /\ "detectTimer" \in Threads
    BY DEF Inv, TypeOK, Threads, Timers
  <2>2. pc' = [pc EXCEPT ![t] = l]
    BY DEF Goto
  <2>3. pc' \in [Threads -> Pcs]
    BY <2>1, <2>2 DEF Pcs
  <2>4. CASE t = "main"
    <3>1. pc'["main"] = l /\ pc'["detectTimer"] = pc["detectTimer"]
      BY <2>1, <2>2, <2>4
    <3>2. ~Locked
      BY <2>4 DEF Locked
    <3> QED
      BY <2>3, <2>4, <3>1, <3>2 DEF Inv, TimerInUse, VisitsLocked, NoSleepYet, Locked
  <2>5. CASE t # "main"
    <3>1. pc'["main"] = pc["main"]
      BY <2>1, <2>2, <2>5
    <3>2. pc'["detectTimer"] # "idle" => pc["detectTimer"] # "idle"
      BY <2>1, <2>2
    <3> QED
      BY <2>3, <3>1, <3>2 DEF Inv, TimerInUse, VisitsLocked, NoSleepYet, Locked
  <2> QED
    BY <2>4, <2>5
<1>1. Init => Inv
  <2> SUFFICES ASSUME Init PROVE Inv
    OBVIOUS
  <2>1. pc \in [Threads -> Pcs] /\ pc["main"] = "ask" /\ pc["detectTimer"] = "idle"
    BY DEF Init, AtStart, Threads, Timers, Pcs
  <2>a. wake \in [Euids -> Nat] /\ left \in [Euids -> Nat] /\ next \in Nat
    BY DEF Init, Usual
  <2>b. active \in [Euids -> 0..ActiveTime] /\ paired \in [Euids -> BOOLEAN]
    BY DEF Init
  <2>c. doomed \in [Threads -> SUBSET Euids] /\ list \in [Timers -> SUBSET Euids]
    BY DEF Init
  <2>d. commands \in 0..MaxCommands
    BY DEF Init
  <2>2. TypeOK
    BY <2>1, <2>a, <2>b, <2>c, <2>d DEF Init, TypeOK
  <2>3. TimerInUse /\ VisitsLocked /\ NoSleepYet /\ SleepFits
    BY <2>1 DEF Init, TimerInUse, VisitsLocked, NoSleepYet, SleepFits
  <2>4. DoomedIsReprieved
    BY DEF Init, DoomedIsReprieved
  <2> QED
    BY <2>2, <2>3, <2>4 DEF Inv
<1>2. Inv /\ [Next]_vars => Inv'
  <2> SUFFICES ASSUME Inv, [Next]_vars PROVE Inv'
    OBVIOUS
  <2>die. ASSUME Die PROVE Inv'
    <3> USE <2>die
    <3>1. pc' \in [Threads -> Pcs] /\ pc'["main"] = "ask" /\ pc'["detectTimer"] = "idle"
      BY DEF Die, AtStart, Threads, Timers, Pcs
    <3>a. wake' \in [Euids -> Nat] /\ left' \in [Euids -> Nat] /\ next' \in Nat
      BY DEF Die, Usual
    <3>b. active' \in [Euids -> 0..ActiveTime] /\ paired' \in [Euids -> BOOLEAN]
      BY DEF Die
    <3>c. doomed' \in [Threads -> SUBSET Euids] /\ list' \in [Timers -> SUBSET Euids]
      BY DEF Die
    <3>d. commands' \in 0..MaxCommands
      BY DEF Die
    <3>2. TypeOK'
      BY <3>1, <3>a, <3>b, <3>c, <3>d DEF Die, TypeOK
    <3>3. (TimerInUse /\ VisitsLocked /\ NoSleepYet /\ SleepFits)'
      BY <3>1 DEF Die, TimerInUse, VisitsLocked, NoSleepYet, SleepFits
    <3>4. DoomedIsReprieved'
      BY DEF Die, DoomedIsReprieved
    <3> QED
      BY <3>2, <3>3, <3>4 DEF Inv
  <2>move. ASSUME \/ InitWithoutServer \/ NotDue \/ StartDetectTimer \/ Unlock \/ Wake
                  \/ StartListenTimer \/ Listen
                  \/ \E t \in Timers : Fire(t) \/ NoAnswer(t) \/ Answer(t) \/ End(t)
           PROVE  Inv'
    <3> USE <2>move
    <3> USE DEF Inv
    <3>pc. pc \in [Threads -> Pcs]
      BY DEF TypeOK
    <3>1. CASE InitWithoutServer
      <4>1. TypeOK'
        BY <3>1, <3>pc DEF TypeOK, InitWithoutServer, Goto, devVars, roundVars, delVars, Threads, Timers, Pcs
      <4>2. (TimerInUse /\ VisitsLocked /\ NoSleepYet)'
        BY <3>1, <3>pc DEF TimerInUse, VisitsLocked, NoSleepYet, Locked, InitWithoutServer, Goto, devVars, roundVars, delVars, Threads, Timers
      <4>3. SleepFits'
        BY <3>1, <3>pc DEF SleepFits, InitWithoutServer, Goto, devVars, roundVars, delVars, Threads, Timers
      <4>4. DoomedIsReprieved'
        BY <3>1 DEF DoomedIsReprieved, InitWithoutServer, Goto, devVars, roundVars, delVars
      <4> QED
        BY <4>1, <4>2, <4>3, <4>4
    <3>2. CASE NotDue
      <4>1. TypeOK'
        BY <3>2, <3>pc DEF TypeOK, NotDue, Goto, devVars, roundVars, delVars, Threads, Timers, Pcs
      <4>2. (TimerInUse /\ VisitsLocked /\ NoSleepYet)'
        BY <3>2, <3>pc DEF TimerInUse, VisitsLocked, NoSleepYet, Locked, NotDue, Goto, devVars, roundVars, delVars, Threads, Timers
      <4>3. SleepFits'
        BY <3>2, <3>pc DEF SleepFits, NotDue, Goto, devVars, roundVars, delVars, Threads, Timers
      <4>4. DoomedIsReprieved'
        BY <3>2 DEF DoomedIsReprieved, NotDue, Goto, devVars, roundVars, delVars
      <4> QED
        BY <4>1, <4>2, <4>3, <4>4
    <3>3. CASE StartDetectTimer
      <4>1. TypeOK'
        BY <3>3, <3>pc DEF TypeOK, StartDetectTimer, Goto, devVars, roundVars, delVars, Threads, Timers, Pcs
      <4>2. (TimerInUse /\ VisitsLocked /\ NoSleepYet)'
        BY <3>3, <3>pc DEF TimerInUse, VisitsLocked, NoSleepYet, Locked, StartDetectTimer, Goto, devVars, roundVars, delVars, Threads, Timers
      <4>3. SleepFits'
        BY <3>3, <3>pc DEF SleepFits, StartDetectTimer, Goto, devVars, roundVars, delVars, Threads, Timers
      <4>4. DoomedIsReprieved'
        BY <3>3 DEF DoomedIsReprieved, StartDetectTimer, Goto, devVars, roundVars, delVars
      <4> QED
        BY <4>1, <4>2, <4>3, <4>4
    <3>4. CASE Unlock
      <4>1. TypeOK'
        BY <3>4, <3>pc DEF TypeOK, Unlock, Goto, devVars, roundVars, delVars, Threads, Timers, Pcs
      <4>2. (TimerInUse /\ VisitsLocked /\ NoSleepYet)'
        BY <3>4, <3>pc DEF TimerInUse, VisitsLocked, NoSleepYet, Locked, Unlock, Goto, devVars, roundVars, delVars, Threads, Timers
      <4>3. SleepFits'
        BY <3>4, <3>pc DEF SleepFits, Unlock, Goto, devVars, roundVars, delVars, Threads, Timers
      <4>4. DoomedIsReprieved'
        BY <3>4 DEF DoomedIsReprieved, Unlock, Goto, devVars, roundVars, delVars
      <4> QED
        BY <4>1, <4>2, <4>3, <4>4
    <3>5. CASE Wake
      <4>1. TypeOK'
        BY <3>5, <3>pc DEF TypeOK, Wake, Goto, devVars, roundVars, delVars, Threads, Timers, Pcs
      <4>2. (TimerInUse /\ VisitsLocked /\ NoSleepYet)'
        BY <3>5, <3>pc DEF TimerInUse, VisitsLocked, NoSleepYet, Locked, Wake, Goto, devVars, roundVars, delVars, Threads, Timers
      <4>3. SleepFits'
        BY <3>5, <3>pc DEF SleepFits, Wake, Goto, devVars, roundVars, delVars, Threads, Timers
      <4>4. DoomedIsReprieved'
        BY <3>5 DEF DoomedIsReprieved, Wake, Goto, devVars, roundVars, delVars
      <4> QED
        BY <4>1, <4>2, <4>3, <4>4
    <3>6. CASE StartListenTimer
      <4>1. TypeOK'
        BY <3>6, <3>pc DEF TypeOK, StartListenTimer, Goto, devVars, roundVars, delVars, Threads, Timers, Pcs
      <4>2. (TimerInUse /\ VisitsLocked /\ NoSleepYet)'
        BY <3>6, <3>pc DEF TimerInUse, VisitsLocked, NoSleepYet, Locked, StartListenTimer, Goto, devVars, roundVars, delVars, Threads, Timers
      <4>3. SleepFits'
        BY <3>6, <3>pc DEF SleepFits, StartListenTimer, Goto, devVars, roundVars, delVars, Threads, Timers
      <4>4. DoomedIsReprieved'
        BY <3>6 DEF DoomedIsReprieved, StartListenTimer, Goto, devVars, roundVars, delVars
      <4> QED
        BY <4>1, <4>2, <4>3, <4>4
    <3>7. CASE Listen
      <4>1. TypeOK'
        BY <3>7, <3>pc DEF TypeOK, Listen, Goto, devVars, roundVars, delVars, Threads, Timers, Pcs
      <4>2. (TimerInUse /\ VisitsLocked /\ NoSleepYet)'
        BY <3>7, <3>pc DEF TimerInUse, VisitsLocked, NoSleepYet, Locked, Listen, Goto, devVars, roundVars, delVars, Threads, Timers
      <4>3. SleepFits'
        BY <3>7, <3>pc DEF SleepFits, Listen, Goto, devVars, roundVars, delVars, Threads, Timers
      <4>4. DoomedIsReprieved'
        BY <3>7 DEF DoomedIsReprieved, Listen, Goto, devVars, roundVars, delVars
      <4> QED
        BY <4>1, <4>2, <4>3, <4>4
    <3>8. ASSUME NEW t \in Timers, Fire(t) \/ NoAnswer(t) \/ Answer(t) \/ End(t)
          PROVE  Inv'
      <4>1. CASE Fire(t)
        <5>1. TypeOK'
          BY <4>1, <3>pc DEF TypeOK, Fire, Goto, devVars, roundVars, delVars, Threads, Timers, Pcs
        <5>2. (TimerInUse /\ VisitsLocked /\ NoSleepYet)'
          BY <4>1, <3>pc DEF TimerInUse, VisitsLocked, NoSleepYet, Locked, Fire, Goto, devVars, roundVars, delVars, Threads, Timers
        <5>3. SleepFits'
          BY <4>1, <3>pc DEF SleepFits, Fire, Goto, devVars, roundVars, delVars, Threads, Timers
        <5>4. DoomedIsReprieved'
          BY <4>1 DEF DoomedIsReprieved, Fire, Goto, devVars, roundVars, delVars
        <5> QED
          BY <5>1, <5>2, <5>3, <5>4
      <4>2. CASE NoAnswer(t)
        <5>1. TypeOK'
          BY <4>2, <3>pc DEF TypeOK, NoAnswer, Goto, devVars, roundVars, delVars, Threads, Timers, Pcs
        <5>2. (TimerInUse /\ VisitsLocked /\ NoSleepYet)'
          BY <4>2, <3>pc DEF TimerInUse, VisitsLocked, NoSleepYet, Locked, NoAnswer, Goto, devVars, roundVars, delVars, Threads, Timers
        <5>3. SleepFits'
          BY <4>2, <3>pc DEF SleepFits, NoAnswer, Goto, devVars, roundVars, delVars, Threads, Timers
        <5>4. DoomedIsReprieved'
          BY <4>2 DEF DoomedIsReprieved, NoAnswer, Goto, devVars, roundVars, delVars
        <5> QED
          BY <5>1, <5>2, <5>3, <5>4
      <4>3. CASE Answer(t)
        <5>1. TypeOK'
          BY <4>3, <3>pc DEF TypeOK, Answer, Goto, devVars, roundVars, delVars, Threads, Timers, Pcs
        <5>2. (TimerInUse /\ VisitsLocked /\ NoSleepYet)'
          BY <4>3, <3>pc DEF TimerInUse, VisitsLocked, NoSleepYet, Locked, Answer, Goto, devVars, roundVars, delVars, Threads, Timers
        <5>3. SleepFits'
          BY <4>3, <3>pc DEF SleepFits, Answer, Goto, devVars, roundVars, delVars, Threads, Timers
        <5>4. DoomedIsReprieved'
          BY <4>3 DEF DoomedIsReprieved, Answer, Goto, devVars, roundVars, delVars
        <5> QED
          BY <5>1, <5>2, <5>3, <5>4
      <4>4. CASE End(t)
        <5>1. TypeOK'
          BY <4>4, <3>pc DEF TypeOK, End, Goto, devVars, roundVars, delVars, Threads, Timers, Pcs
        <5>2. (TimerInUse /\ VisitsLocked /\ NoSleepYet)'
          BY <4>4, <3>pc DEF TimerInUse, VisitsLocked, NoSleepYet, Locked, End, Goto, devVars, roundVars, delVars, Threads, Timers
        <5>3. SleepFits'
          BY <4>4, <3>pc DEF SleepFits, End, Goto, devVars, roundVars, delVars, Threads, Timers
        <5>4. DoomedIsReprieved'
          BY <4>4 DEF DoomedIsReprieved, End, Goto, devVars, roundVars, delVars
        <5> QED
          BY <5>1, <5>2, <5>3, <5>4
      <4> QED
        BY <3>8, <4>1, <4>2, <4>3, <4>4
    <3> QED
      BY <3>1, <3>2, <3>3, <3>4, <3>5, <3>6, <3>7, <3>8
  <2>fetchAll. ASSUME FetchAll PROVE Inv'
    <3> USE <2>fetchAll
    <3> USE DEF Inv
    <3>1. /\ pc' \in [Threads -> Pcs] /\ pc["main"] = "first" /\ pc'["main"] = "scan"
          /\ pc'["detectTimer"] = pc["detectTimer"]
      BY DEF TypeOK, FetchAll, Goto, Threads, Timers, Pcs
    <3>2. active' \in [Euids -> 0..ActiveTime]
      <4>1. active \in [Euids -> 0..ActiveTime] /\ wake \in [Euids -> Nat]
        BY DEF TypeOK
      <4>2. \A d \in Euids : Spent(d, wake[d]) \in 0..ActiveTime
        BY <4>1 DEF Spent
      <4> QED
        BY <4>1, <4>2 DEF FetchAll
    <3>3. TypeOK'
      BY <3>1, <3>2 DEF TypeOK, FetchAll, delVars
    <3>4. (TimerInUse /\ VisitsLocked /\ NoSleepYet)'
      BY <3>1 DEF TimerInUse, VisitsLocked, NoSleepYet, Locked, FetchAll
    <3>5. next = 0 /\ known \subseteq Euids /\ left \in [Euids -> Nat]
      BY <3>1 DEF NoSleepYet, TypeOK
    <3>6. SleepFits'
      BY <3>1, <3>5 DEF SleepFits, FetchAll
    <3>7. DoomedIsReprieved'
      BY DEF DoomedIsReprieved, FetchAll, delVars
    <3> QED
      BY <3>3, <3>4, <3>6, <3>7
  <2>doom. ASSUME Doom PROVE Inv'
    <3> USE <2>doom
    <3> USE DEF Inv
    <3> DEFINE d == Current
    <3>1. d \in todo /\ d \in known /\ d \in Euids
      BY <1>current DEF Doom, TypeOK
    <3> HIDE DEF d
    <3>2. /\ pc["main"] = "scan" /\ ~paired[d] /\ Fetch(d) /\ pc' = pc
          /\ \/ left' = [left EXCEPT ![d] = wake'[d]]
             \/ wake' = wake /\ UNCHANGED left
          /\ doomed' = [doomed EXCEPT !["main"] = @ \cup {d}] /\ todo' = todo \ {d}
          /\ UNCHANGED <<known, paired, interval, next, dangling, reprieved, list, touched, commands>>
      BY DEF Doom, d
    <3>3. wake' \in [Euids -> Nat] /\ active' \in [Euids -> 0..ActiveTime]
      BY <3>1, <3>2, <1>fetch
    <3>4. left' \in [Euids -> Nat] /\ \A e \in todo' : left'[e] = left[e]
      BY <3>1, <3>2, <3>3 DEF TypeOK
    <3>5. doomed' \in [Threads -> SUBSET Euids]
      BY <3>1, <3>2 DEF TypeOK
    <3>6. TypeOK'
      BY <3>2, <3>3, <3>4, <3>5 DEF TypeOK
    <3>7. (TimerInUse /\ VisitsLocked /\ NoSleepYet)'
      BY <3>2 DEF TimerInUse, VisitsLocked, NoSleepYet, Locked
    <3>8. SleepFits'
      BY <3>2, <3>4 DEF SleepFits
    <3>9. DoomedIsReprieved'
      BY <3>1, <3>2 DEF DoomedIsReprieved, TypeOK
    <3> QED
      BY <3>6, <3>7, <3>8, <3>9
  <2>visit. ASSUME Visit PROVE Inv'
    <3> USE <2>visit
    <3> USE DEF Inv
    <3> DEFINE d == Current
    <3>1. d \in todo /\ d \in known /\ d \in Euids
      BY <1>current DEF Visit, TypeOK
    <3> HIDE DEF d
    <3>2. /\ pc["main"] = "scan" /\ left[d] = 0 /\ Fetch(d)
          /\ left' = [left EXCEPT ![d] = wake'[d]]
          /\ Goto("main", IF MayStart(d) THEN "stop" ELSE "charge")
          /\ UNCHANGED <<known, paired, interval, roundVars, delVars, list, touched, commands>>
      BY DEF Visit, d
    <3>3. wake' \in [Euids -> Nat] /\ active' \in [Euids -> 0..ActiveTime]
      BY <3>1, <3>2, <1>fetch
    <3>4. left' \in [Euids -> Nat] /\ left'[d] \in Nat /\ \A e \in todo \ {d} : left'[e] = left[e]
      BY <3>1, <3>2, <3>3 DEF TypeOK
    <3>5. /\ pc' \in [Threads -> Pcs] /\ pc'["detectTimer"] = pc["detectTimer"]
          /\ \/ pc'["main"] = "charge"
             \/ pc'["main"] = "stop" /\ ~interval
      <4>0. pc \in [Threads -> Pcs] /\ "main" \in Threads /\ "detectTimer" \in Threads
        BY DEF TypeOK, Threads, Timers
      <4>1. CASE MayStart(d)
        <5>1. pc' = [pc EXCEPT !["main"] = "stop"] /\ ~interval
          BY <3>2, <4>1 DEF Goto, MayStart
        <5> QED
          BY <4>0, <5>1 DEF Pcs
      <4>2. CASE ~MayStart(d)
        <5>1. pc' = [pc EXCEPT !["main"] = "charge"]
          BY <3>2, <4>2 DEF Goto
        <5>2. pc'["main"] = "charge" /\ pc'["detectTimer"] = pc["detectTimer"]
          BY <4>0, <5>1
        <5>3. pc' \in [Threads -> Pcs]
          BY <4>0, <5>1 DEF Pcs
        <5> QED
          BY <5>2, <5>3
      <4> QED
        BY <4>1, <4>2
    <3>6. TypeOK'
      BY <3>2, <3>3, <3>4, <3>5 DEF TypeOK, roundVars, delVars
    <3>7. (TimerInUse /\ VisitsLocked /\ NoSleepYet)'
      BY <3>1, <3>2, <3>5 DEF TimerInUse, VisitsLocked, NoSleepYet, Locked, roundVars
    <3>8. d \notin touched => next = 0
      BY <3>1, <3>2 DEF SleepFits, TypeOK
    <3>9. SleepFits'
      BY <3>2, <3>4, <3>5, <3>8 DEF SleepFits, roundVars
    <3>10. DoomedIsReprieved'
      BY <3>2 DEF DoomedIsReprieved, delVars
    <3> QED
      BY <3>6, <3>7, <3>9, <3>10
  <2>charge. ASSUME Charge PROVE Inv'
    <3> USE <2>charge
    <3> USE DEF Inv
    <3> DEFINE d == Current
    <3>1. d \in todo /\ d \in known /\ d \in Euids
      BY <1>current DEF Charge, TypeOK, VisitsLocked
    <3> HIDE DEF d
    <3>2. /\ pc["main"] = "charge" /\ next <= left[d]
          /\ left' = [left EXCEPT ![d] = @ - next]
          /\ todo' = todo \ {d} /\ Goto("main", "scan")
          /\ UNCHANGED <<known, paired, wake, active, interval, next, delVars, list, touched, commands>>
      BY DEF Charge, d
    <3>3. left' \in [Euids -> Nat] /\ \A e \in todo' : left'[e] = left[e]
      <4>1. left[d] \in Nat /\ next \in Nat /\ left \in [Euids -> Nat] /\ todo \subseteq Euids
        BY <3>1 DEF TypeOK
      <4>2. left[d] - next \in Nat
        BY <4>1, <3>2
      <4> QED
        BY <3>2, <4>1, <4>2
    <3>4. /\ pc' \in [Threads -> Pcs] /\ pc'["main"] = "scan"
          /\ pc'["detectTimer"] = pc["detectTimer"]
      BY <3>2 DEF TypeOK, Goto, Threads, Timers, Pcs
    <3>5. TypeOK'
      BY <3>2, <3>3, <3>4 DEF TypeOK, delVars
    <3>6. (TimerInUse /\ VisitsLocked /\ NoSleepYet)'
      BY <3>2, <3>4 DEF TimerInUse, VisitsLocked, NoSleepYet, Locked
    <3>7. SleepFits'
      BY <3>2, <3>3, <3>4 DEF SleepFits
    <3>8. DoomedIsReprieved'
      BY <3>2 DEF DoomedIsReprieved, delVars
    <3> QED
      BY <3>5, <3>6, <3>7, <3>8
  <2>sweep. ASSUME Sweep PROVE Inv'
    <3> USE <2>sweep
    <3> USE DEF Inv
    <3>1. pc["main"] = "sweep" /\ ~Locked /\ "main" \in Threads
      BY DEF Sweep, Locked, Threads
    <3>2. /\ known' = known \ doomed["main"] /\ todo = {}
          /\ doomed' \in [Threads -> SUBSET Euids] /\ dangling' \subseteq Threads
          /\ reprieved' \subseteq Euids
          /\ UNCHANGED <<paired, wake, left, active>>
          /\ DoomedIsReprieved'
      BY <3>1, <1>delete DEF Sweep
    <3>3. next' = NextWakeup(known') /\ touched' = {} /\ known' \subseteq Euids
      BY <3>2 DEF Sweep, TypeOK
    <3>4. next' \in Nat /\ \A d \in known' : next' <= left'[d]
      BY <3>2, <3>3, <1>sleep DEF TypeOK
    <3>5. /\ pc' \in [Threads -> Pcs] /\ pc'["main"] = "sleep"
          /\ pc'["detectTimer"] = pc["detectTimer"]
      BY DEF Sweep, TypeOK, Goto, Threads, Timers, Pcs
    <3>6. TypeOK'
      BY <3>2, <3>3, <3>4, <3>5 DEF TypeOK, Sweep
    <3>7. (TimerInUse /\ VisitsLocked /\ NoSleepYet)'
      BY <3>2, <3>5 DEF TimerInUse, VisitsLocked, NoSleepYet, Sweep
    <3>8. SleepFits'
      BY <3>4, <3>5 DEF SleepFits
    <3> QED
      BY <3>2, <3>6, <3>7, <3>8
  <2>initPaired. ASSUME InitPairedDevices PROVE Inv'
    <3> USE <2>initPaired
    <3> USE DEF Inv
    <3>1. PICK answer \in SUBSET Pairable :
            /\ Insert(answer, 0) /\ paired' = Set(paired, answer, TRUE) /\ Reprieve(answer)
            /\ Goto("main", IF known' = {} THEN "first" ELSE "search")
      BY DEF InitPairedDevices
    <3>2. /\ pc["main"] = "ask"
          /\ UNCHANGED <<interval, next, todo, doomed, dangling, list, commands>>
      BY DEF InitPairedDevices, roundVars
    <3>3. /\ known' = known \cup answer /\ touched' = touched \cup answer
          /\ known' \subseteq Euids /\ touched' \subseteq Euids
          /\ wake' \in [Euids -> Nat] /\ left' \in [Euids -> Nat]
          /\ active' \in [Euids -> 0..ActiveTime]
      <4>1. answer \subseteq Euids /\ 0 \in 0..ActiveTime
        OBVIOUS
      <4> QED
        BY <3>1, <4>1, <1>insert
    <3>4. /\ paired' \in [Euids -> BOOLEAN] /\ reprieved' \subseteq Euids
          /\ DoomedIsReprieved'
      BY <3>1, <3>2, <3>3, <1>reprieve
    <3>5. /\ pc' \in [Threads -> Pcs] /\ pc'["main"] \in {"first", "search"}
          /\ pc'["detectTimer"] = pc["detectTimer"]
      <4>0. pc \in [Threads -> Pcs] /\ "main" \in Threads /\ "detectTimer" \in Threads
        BY DEF TypeOK, Threads, Timers
      <4>1. PICK l \in {"first", "search"} : pc' = [pc EXCEPT !["main"] = l]
        BY <3>1 DEF Goto
      <4> QED
        BY <4>0, <4>1 DEF Pcs
    <3>6. TypeOK'
      BY <3>2, <3>3, <3>4, <3>5 DEF TypeOK
    <3>7. (TimerInUse /\ VisitsLocked /\ NoSleepYet)'
      BY <3>2, <3>5 DEF TimerInUse, VisitsLocked, NoSleepYet, Locked
    <3>8. SleepFits'
      BY <3>5 DEF SleepFits
    <3> QED
      BY <3>4, <3>6, <3>7, <3>8
  <2>search. ASSUME NEW t \in Threads, Search(t) PROVE Inv'
    <3> USE <2>search
    <3> USE DEF Inv
    <3>1. PICK found \in SUBSET Euids :
            Insert(found, ActiveTime) /\ paired' = Set(paired, found \ known, FALSE)
      <4>1. PICK answering \in SUBSET Euids :
              LET found == {d \in answering : OnlyPaired(t) => d \in known /\ paired[d]}
              IN  Insert(found, ActiveTime) /\ paired' = Set(paired, found \ known, FALSE)
        BY DEF Search
      <4> QED
        BY <4>1
    <3>2. /\ pc[t] = "search" /\ ~Locked /\ Goto(t, "pair")
          /\ UNCHANGED <<interval, next, todo, doomed, dangling, reprieved, list, commands>>
      BY DEF Search, roundVars, delVars
    <3>3. /\ known' = known \cup found /\ touched' = touched \cup found
          /\ known' \subseteq Euids /\ touched' \subseteq Euids
          /\ wake' \in [Euids -> Nat] /\ left' \in [Euids -> Nat]
          /\ active' \in [Euids -> 0..ActiveTime]
          /\ \A d \in known' \ touched' : d \in known \ touched /\ left'[d] = left[d]
      <4>1. found \subseteq Euids /\ ActiveTime \in 0..ActiveTime
        OBVIOUS
      <4> QED
        BY <3>1, <4>1, <1>insert
    <3>4. /\ paired' \in [Euids -> BOOLEAN]
          /\ \A d \in Euids : paired'[d] = IF d \in found \ known THEN FALSE ELSE paired[d]
      <4>1. paired \in [Euids -> BOOLEAN]
        BY DEF TypeOK
      <4> QED
        BY <3>1, <4>1 DEF Set
    <3>5. /\ pc' \in [Threads -> Pcs] /\ TimerInUse' /\ VisitsLocked' /\ NoSleepYet'
          /\ \/ pc'["main"] = pc["main"]
             \/ pc'["main"] \in {"pair", "drop", "first"}
      BY <3>2, <1>move
    <3>6. TypeOK'
      BY <3>2, <3>3, <3>4, <3>5 DEF TypeOK
    <3>7. SleepFits'
      BY <3>2, <3>3, <3>5 DEF SleepFits, Locked
    <3>8. DoomedIsReprieved'
      <4>1. ASSUME NEW u \in Threads, NEW d \in doomed[u] \cap known', paired'[d]
            PROVE  d \in known /\ paired[d]
        BY <3>3, <3>4, <4>1 DEF TypeOK
      <4> QED
        BY <3>2, <4>1 DEF DoomedIsReprieved
    <3> QED
      BY <3>5, <3>6, <3>7, <3>8
  <2>pair. ASSUME NEW t \in Threads, Pair(t) PROVE Inv'
    <3> USE <2>pair
    <3> USE DEF Inv
    <3>1. PICK failing \in SUBSET {d \in known : ~paired[d]} : doomed' = [doomed EXCEPT ![t] = failing]
      BY DEF Pair
    <3>2. /\ pc[t] = "pair" /\ ~Locked /\ Goto(t, "drop")
          /\ UNCHANGED <<known, paired, wake, left, active, interval, next, todo, dangling,
                         reprieved, list, touched, commands>>
      BY DEF Pair, devVars, roundVars
    <3>3. doomed' \in [Threads -> SUBSET Euids]
      BY <3>1 DEF TypeOK
    <3>4. /\ pc' \in [Threads -> Pcs] /\ TimerInUse' /\ VisitsLocked' /\ NoSleepYet'
          /\ \/ pc'["main"] = pc["main"]
             \/ pc'["main"] \in {"pair", "drop", "first"}
      BY <3>2, <1>move
    <3>5. TypeOK'
      BY <3>2, <3>3, <3>4 DEF TypeOK
    <3>6. SleepFits'
      BY <3>2, <3>4 DEF SleepFits
    <3>7. DoomedIsReprieved'
      BY <3>1, <3>2 DEF DoomedIsReprieved, TypeOK
    <3> QED
      BY <3>4, <3>5, <3>6, <3>7
  <2>drop. ASSUME NEW t \in Threads, Drop(t) PROVE Inv'
    <3> USE <2>drop
    <3> USE DEF Inv
    <3>1. /\ pc[t] = "drop" /\ ~Locked /\ Delete(t) /\ Goto(t, AfterDrop(t))
          /\ UNCHANGED <<interval, next, todo, list, touched, commands>>
      BY DEF Drop, roundVars
    <3>2. /\ known' = known \ doomed[t] /\ todo = {}
          /\ doomed' \in [Threads -> SUBSET Euids] /\ dangling' \subseteq Threads
          /\ reprieved' \subseteq Euids
          /\ UNCHANGED <<paired, wake, left, active>>
          /\ DoomedIsReprieved'
      BY <3>1, <1>delete
    <3>3. /\ AfterDrop(t) \in {"first", "stop", "end"}
          /\ t = "main" => AfterDrop(t) = "first"
      BY DEF AfterDrop
    <3>4. /\ pc' \in [Threads -> Pcs] /\ TimerInUse' /\ VisitsLocked' /\ NoSleepYet'
          /\ \/ pc'["main"] = pc["main"]
             \/ pc'["main"] \in {"pair", "drop", "first"}
      BY <3>1, <3>3, <1>move
    <3>5. TypeOK'
      BY <3>1, <3>2, <3>4 DEF TypeOK
    <3>6. SleepFits'
      BY <3>1, <3>2, <3>4 DEF SleepFits
    <3> QED
      BY <3>2, <3>4, <3>5, <3>6
  <2>update. ASSUME Update PROVE Inv'
    <3> USE <2>update
    <3> USE DEF Inv
    <3>1. PICK d \in known, t \in Times :
            /\ wake' = [wake EXCEPT ![d] = AtLeastDefault(t)]
            /\ left' = [left EXCEPT ![d] = AtLeastDefault(t)]
            /\ touched' = touched \cup {d}
      BY DEF Update
    <3>2. /\ commands < MaxCommands /\ commands' = commands + 1
          /\ UNCHANGED <<known, paired, active, interval, pc, next, todo, doomed, dangling,
                         reprieved, list>>
      BY DEF Update, roundVars, delVars
    <3>3. AtLeastDefault(t) \in Nat
      BY DEF AtLeastDefault
    <3>4. /\ wake' \in [Euids -> Nat] /\ left' \in [Euids -> Nat] /\ touched' \subseteq Euids
          /\ \A e \in Euids \ touched' : left'[e] = left[e]
      BY <3>1, <3>3 DEF TypeOK
    <3>5. commands' \in 0..MaxCommands
      BY <3>2 DEF TypeOK
    <3>6. TypeOK'
      BY <3>2, <3>4, <3>5 DEF TypeOK
    <3>7. (TimerInUse /\ VisitsLocked /\ NoSleepYet)'
      BY <3>2 DEF TimerInUse, VisitsLocked, NoSleepYet, Locked
    <3>8. SleepFits'
      BY <3>1, <3>2, <3>4 DEF SleepFits, TypeOK
    <3>9. DoomedIsReprieved'
      BY <3>2 DEF DoomedIsReprieved
    <3> QED
      BY <3>6, <3>7, <3>8, <3>9
  <2>unpair. ASSUME NEW t \in Timers, SetAllDevicesNotPaired(t) PROVE Inv'
    <3> USE <2>unpair
    <3> USE DEF Inv
    <3>1. /\ pc[t] = "unpair" /\ ~Locked /\ Goto(t, "mark")
          /\ paired' = Set(paired, known, FALSE)
          /\ UNCHANGED <<known, wake, left, active, interval, next, todo, doomed, dangling,
                         reprieved, list, touched, commands>>
      BY DEF SetAllDevicesNotPaired, roundVars, delVars
    <3>2. /\ paired' \in [Euids -> BOOLEAN]
          /\ \A d \in known : ~paired'[d]
      <4>1. paired \in [Euids -> BOOLEAN] /\ known \subseteq Euids
        BY DEF TypeOK
      <4> QED
        BY <3>1, <4>1 DEF Set
    <3>3. t \in Threads /\ t # "main"
      BY DEF Threads, Timers
    <3>4. /\ pc' \in [Threads -> Pcs] /\ TimerInUse' /\ VisitsLocked' /\ NoSleepYet'
          /\ \/ pc'["main"] = pc["main"]
             \/ pc'["main"] \in {"pair", "drop", "first"}
      BY <3>1, <3>3, <1>move
    <3>5. TypeOK'
      BY <3>1, <3>2, <3>4 DEF TypeOK
    <3>6. SleepFits'
      BY <3>1, <3>4 DEF SleepFits
    <3>7. DoomedIsReprieved'
      BY <3>1, <3>2 DEF DoomedIsReprieved
    <3> QED
      BY <3>4, <3>5, <3>6, <3>7
  <2>mark. ASSUME NEW t \in Timers, MarkPaired(t) PROVE Inv'
    <3> USE <2>mark
    <3> USE DEF Inv
    <3>1. /\ pc[t] = "mark" /\ ~Locked
          /\ Insert(list[t] \ known, 0)
          /\ paired' = Set(paired, list[t], TRUE)
          /\ Reprieve(list[t])
          /\ list' = [list EXCEPT ![t] = {}]
          /\ UNCHANGED <<interval, next, todo, doomed, dangling, commands>>
      BY DEF MarkPaired, roundVars
    <3>2. PICK l \in {"search", "end"} : Goto(t, l)
      BY DEF MarkPaired
    <3>3. t \in Threads /\ t # "main" /\ list[t] \subseteq Euids
      BY DEF Threads, Timers, TypeOK
    <3>4. /\ known' = known \cup (list[t] \ known) /\ touched' = touched \cup (list[t] \ known)
          /\ known' \subseteq Euids /\ touched' \subseteq Euids
          /\ wake' \in [Euids -> Nat] /\ left' \in [Euids -> Nat]
          /\ active' \in [Euids -> 0..ActiveTime]
          /\ \A d \in known' \ touched' : d \in known \ touched /\ left'[d] = left[d]
      <4>1. list[t] \ known \subseteq Euids /\ 0 \in 0..ActiveTime
        BY <3>3
      <4> QED
        BY <3>1, <4>1, <1>insert
    <3>5. /\ paired' \in [Euids -> BOOLEAN] /\ reprieved' \subseteq Euids
          /\ DoomedIsReprieved'
      BY <3>1, <3>3, <3>4, <1>reprieve
    <3>6. list' \in [Timers -> SUBSET Euids]
      BY <3>1 DEF TypeOK
    <3>7. /\ pc' \in [Threads -> Pcs] /\ TimerInUse' /\ VisitsLocked' /\ NoSleepYet'
          /\ \/ pc'["main"] = pc["main"]
             \/ pc'["main"] \in {"pair", "drop", "first"}
      BY <3>1, <3>2, <3>3, <1>move
    <3>8. TypeOK'
      BY <3>1, <3>4, <3>5, <3>6, <3>7 DEF TypeOK
    <3>9. SleepFits'
      BY <3>1, <3>4, <3>7 DEF SleepFits, Locked
    <3> QED
      BY <3>5, <3>7, <3>8, <3>9
  <2>1. CASE Run
    BY <2>1, <2>initPaired, <2>move, <2>fetchAll, <2>doom, <2>visit, <2>charge,
       <2>sweep, <2>die
    DEF Run, AssertFails
  <2>2. ASSUME NEW t \in Threads, LookForDevices(t) PROVE Inv'
    BY <2>2, <2>search, <2>pair, <2>drop, <2>die DEF LookForDevices, DropDangling
  <2>3. CASE StartListenTimer \/ Update \/ Listen
    BY <2>3, <2>move, <2>update
  <2>4. ASSUME NEW t \in Timers, CheckPairedDevices(t) PROVE Inv'
    BY <2>4, <2>move, <2>unpair, <2>mark DEF CheckPairedDevices
  <2>5. CASE UNCHANGED vars
    BY <2>5 DEF vars, Inv, TypeOK, TimerInUse, VisitsLocked, NoSleepYet, SleepFits,
       DoomedIsReprieved, Locked
  <2>6. "main" \in Threads /\ "cmd" \in Threads /\ Timers \subseteq Threads
    BY DEF Threads
  <2> QED
    BY <2>1, <2>2, <2>3, <2>4, <2>5, <2>6 DEF Next, Main, Cmd, Timer
<1> QED
  BY <1>1, <1>2

\* run() never waits in stop() with devs_lock held for a callback that still needs the
\* lock (VPT.cpp:258-266, 533-584), whatever devices, answers and commands there are.
THEOREM NoWaitWithLock == Spec => [](TypeOK /\ StopNeedsNoLock)
<1>1. Inv => TypeOK /\ StopNeedsNoLock
  BY DEF Inv, TimerInUse, StopNeedsNoLock
<1> QED
  BY <1>1, Invariance, PTL DEF Spec

\* A device nobody has touched since nextWakeup is not due before run() wakes up
\* (VPT.cpp:207-223, 246-283).
THEOREM SleepIsShortEnough == Spec => []SleepFits
<1>1. Inv => SleepFits
  BY DEF Inv
<1> QED
  BY <1>1, Invariance, PTL DEF Spec
\* The steps that erase no device.
KeepsDevices == known \subseteq known'

\* A paired device is erased only by a thread that had collected it before it was marked
\* as paired, or by the end of the process (VPT.cpp:253-256, 276, 543-605, 625-632).
THEOREM ErasureWasDecided == Spec => PairedIsKept
<1> DEFINE Kept == ~Died => \A d \in known \ known' : paired[d] => d \in reprieved
<1>a. ASSUME Die, NEW t \in Threads, pc[t] \in {"drop", "sweep", "charge"} PROVE Died
  <2> USE <1>a
  <2>1. AtStart[t] \in {"ask", "idle"}
    BY DEF AtStart
  <2>2. pc # AtStart
    BY <2>1
  <2> QED
    BY <2>2 DEF Died, Die
<1>b. ASSUME Inv, NEW t \in Threads, LookForDevices(t), ~Died, NEW d \in known \ known', paired[d]
      PROVE  d \in reprieved
  <2> USE <1>b
  <2>1. CASE Search(t) \/ Pair(t)
    BY <2>1 DEF Search, Pair, Insert, devVars
  <2>2. CASE Drop(t)
    BY <2>2 DEF Drop, Delete, Inv, DoomedIsReprieved
  <2>3. CASE DropDangling(t)
    BY <2>3, <1>a DEF DropDangling
  <2> QED
    BY <2>1, <2>2, <2>3 DEF LookForDevices
<1>c. ASSUME Inv, Run, ~Died, NEW d \in known \ known', paired[d]
      PROVE  d \in reprieved
  <2> USE <1>c
  <2>1. CASE KeepsDevices
    BY <2>1 DEF KeepsDevices
  <2>2. CASE Sweep
    BY <2>2 DEF Sweep, Delete, Threads, Inv, DoomedIsReprieved
  <2>3. CASE AssertFails
    BY <2>3, <1>a DEF AssertFails, Threads
  <2>4. CASE InitPairedDevices \/ InitWithoutServer \/ FetchAll \/ NotDue \/ Doom
    BY <2>4, <2>1 DEF InitPairedDevices, Insert, InitWithoutServer, FetchAll, NotDue, Doom, devVars,
       KeepsDevices
  <2>5. CASE Visit \/ StartDetectTimer \/ Charge \/ Unlock \/ Wake
    BY <2>5, <2>1 DEF Visit, StartDetectTimer, Charge, Unlock, Wake, devVars, KeepsDevices
  <2> QED
    BY <2>2, <2>3, <2>4, <2>5 DEF Run
<1>1. ASSUME Inv, [Next]_vars PROVE [Kept]_vars
  <2> USE <1>1
  <2>1. CASE Run
    BY <2>1, <1>c
  <2>2. ASSUME NEW t \in Threads, LookForDevices(t) PROVE Kept
    BY <2>2, <1>b
  <2>3. CASE StartListenTimer \/ Update \/ Listen
    BY <2>3 DEF StartListenTimer, Update, Listen, devVars
  <2>4. ASSUME NEW t \in Timers, CheckPairedDevices(t) PROVE Kept
    BY <2>4 DEF CheckPairedDevices, Fire, NoAnswer, Answer, SetAllDevicesNotPaired, MarkPaired,
       Insert, End, devVars
  <2>5. CASE UNCHANGED vars
    BY <2>5
  <2>6. CASE Next
    <3>1. \/ Run \/ StartListenTimer \/ Update \/ Listen
          \/ \E t \in Threads : LookForDevices(t)
          \/ \E t \in Timers : CheckPairedDevices(t)
      BY <2>6 DEF Next, Main, Cmd, Timer, Threads
    <3> QED
      BY <3>1, <2>1, <2>2, <2>3, <2>4
  <2> QED
    BY <2>5, <2>6
<1> QED
  BY <1>1, Invariance, PTL DEF Spec, PairedIsKept
================================================================================
