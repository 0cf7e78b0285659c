------------------------------ MODULE VptDevices ------------------------------
(***************************************************************************)
(* The devices of the VPT module (src/VPT.cpp).  Four threads share        *)
(* map_devices: run(), which polls the devices; the thread that brings the *)
(* server's commands; and two one-shot timers whose callback,              *)
(* checkPairedDevices, asks the server which devices are paired and looks  *)
(* for those that cannot be reached.                                       *)
(*                                                                         *)
(* devs_lock guards map_devices, but not against updateDeviceWakeUp.       *)
(* run() keeps it while it goes through the devices; the other critical    *)
(* sections are single steps.  What the network and the server answer is   *)
(* arbitrary.  Times are in units of some seconds.                         *)
(***************************************************************************)
EXTENDS Integers, FiniteSets

CONSTANTS
  Euids,      \* devices, in the order of map_devices
  Pairable,   \* those of them the user may pair
  Default,    \* DEFAULT_WAKEUP_TIME
  Times,      \* wake-up times the server may set
  ActiveTime, \* FIVE_MINUTES
  MaxCommands \* bound: commands of the server between two restarts

ASSUME EuidAssumption  == Euids \subseteq Nat /\ Pairable \subseteq Euids
ASSUME TimeAssumption  == Default \in Nat \ {0} /\ Times \subseteq Nat /\ ActiveTime \in Nat \ {0}
ASSUME BoundAssumption == MaxCommands \in Nat

Timers  == {"listenTimer", "detectTimer"}
Threads == Timers \cup {"main", "cmd"}

VARIABLES
  known,    \* the keys of map_devices
  paired, wake, left, \* fields of a device: paired, wake_up_time, time_left
  active,   \* its field active; 0 stands for everything not above INACTIVE
  interval, \* is the start interval of detect_devs_timer set?
  pc,       \* where each thread is
  next,     \* next_wakeup
  todo,     \* devices run() has still to visit in this round
  doomed,   \* iterators a thread has collected to delete
  dangling, \* threads that hold an iterator of a device deleted since
  list,     \* the server's answer a callback works on
  touched,  \* devices whose time_left others have set since nextWakeup
  reprieved,\* doomed devices a callback has since marked as paired
  commands  \* commands so far (for the bound)

devVars  == <<known, paired, wake, left, active>>
roundVars == <<next, todo>>
delVars  == <<doomed, dangling, reprieved>>
vars == <<known, paired, wake, left, active, interval, pc, next, todo, doomed,
          dangling, list, touched, reprieved, commands>>

Pcs == {"idle", "ask", "search", "pair", "drop", "first", "scan", "charge", "stop",
        "sweep", "sleep", "waiting", "unpair", "mark", "end", "refused"}

TypeOK ==
  /\ known \subseteq Euids /\ paired \in [Euids -> BOOLEAN]
  /\ wake \in [Euids -> Nat] /\ left \in [Euids -> Nat] /\ active \in [Euids -> 0..ActiveTime]
  /\ interval \in BOOLEAN /\ pc \in [Threads -> Pcs]
  /\ next \in Nat /\ todo \subseteq known
  /\ doomed \in [Threads -> SUBSET Euids] /\ dangling \subseteq Threads
  /\ list \in [Timers -> SUBSET Euids]
  /\ touched \subseteq Euids /\ reprieved \subseteq Euids
  /\ commands \in 0..MaxCommands

Usual   == [d \in Euids |-> Default]
AtStart == [t \in Threads |-> IF t = "main" THEN "ask" ELSE "idle"]

\* The module after its constructor.
Init ==
  /\ known = {} /\ paired = [d \in Euids |-> FALSE]
  /\ wake = Usual /\ left = Usual /\ active = [d \in Euids |-> 0]
  /\ interval = FALSE /\ pc = AtStart /\ next = 0 /\ todo = {}
  /\ doomed = [t \in Threads |-> {}] /\ dangling = {} /\ reprieved = {}
  /\ list = [t \in Timers |-> {}] /\ touched = {} /\ commands = 0

\* The process dies and systemd starts it again.
Die ==
  /\ known' = {} /\ paired' = [d \in Euids |-> FALSE]
  /\ wake' = Usual /\ left' = Usual /\ active' = [d \in Euids |-> 0]
  /\ interval' = FALSE /\ pc' = AtStart /\ next' = 0 /\ todo' = {}
  /\ doomed' = [t \in Threads |-> {}] /\ dangling' = {} /\ reprieved' = {}
  /\ list' = [t \in Timers |-> {}] /\ touched' = {} /\ commands' = 0

Died == pc # AtStart /\ pc' = AtStart

Goto(t, l) == pc' = [pc EXCEPT ![t] = l]

\* f with the value v for the devices of S.
Set(f, S, v) == [d \in Euids |-> IF d \in S THEN v ELSE f[d]]

\* run() holds devs_lock.
Locked == pc["main"] \in {"scan", "charge", "stop"}

\* The devices of S are put into map_devices anew.
Insert(S, isActive) ==
  /\ known' = known \cup S
  /\ wake' = Set(wake, S, Default) /\ left' = Set(left, S, Default)
  /\ active' = Set(active, S, isActive)
  /\ touched' = touched \cup S

\* The devices of S are marked as paired; some may be in the hands of a thread that
\* is about to delete them.
Reprieve(S) == reprieved' = reprieved \cup (S \cap UNION {doomed[t] : t \in Threads})

-----------------------------------------------------------------------------
(* Looking for devices, on any thread: detectDevices, pairDevices.          *)

\* Only a listen command looks for devices that are not paired.
OnlyPaired(t) == t # "cmd"

\* detectDevices: a device that answers gets a new entry; being paired is kept.
Search(t) ==
  /\ pc[t] = "search" /\ ~Locked
  /\ \E answering \in SUBSET Euids :
       LET found == {d \in answering : OnlyPaired(t) => d \in known /\ paired[d]}
       IN  /\ Insert(found, ActiveTime)
           /\ paired' = Set(paired, found \ known, FALSE)
  /\ Goto(t, "pair")
  /\ UNCHANGED <<interval, roundVars, delVars, list, commands>>

\* Faulty variant: paired devices are collected, too.
PairDoomsAll(t) ==
  /\ pc[t] = "pair" /\ ~Locked
  /\ \E failing \in SUBSET known : doomed' = [doomed EXCEPT ![t] = failing]
  /\ Goto(t, "drop")
  /\ UNCHANGED <<devVars, interval, roundVars, dangling, reprieved, list, touched, commands>>

\* pairDevices, to the unlock: devices that fail and are not paired are collected.
Pair(t) ==
  /\ pc[t] = "pair" /\ ~Locked
  /\ \E failing \in SUBSET {d \in known : ~paired[d]} : doomed' = [doomed EXCEPT ![t] = failing]
  /\ Goto(t, "drop")
  /\ UNCHANGED <<devVars, interval, roundVars, dangling, reprieved, list, touched, commands>>

\* deleteDevices erases the devices whose iterators t has collected.
Delete(t) ==
  /\ known' = known \ doomed[t]
  /\ doomed' = [doomed EXCEPT ![t] = {}]
  /\ dangling' = (dangling \ {t})
       \cup {u \in Threads \ {t} : doomed[u] \cap doomed[t] \cap known # {}}
  /\ reprieved' = reprieved \ doomed[t]
  /\ UNCHANGED <<paired, wake, left, active>>

\* Where t goes on after pairDevices.
AfterDrop(t) == IF t = "main" THEN "first" ELSE IF t = "cmd" THEN "stop" ELSE "end"

Drop(t) ==
  /\ pc[t] = "drop" /\ ~Locked /\ t \notin dangling
  /\ Delete(t) /\ Goto(t, AfterDrop(t))
  /\ UNCHANGED <<interval, roundVars, list, touched, commands>>

\* To erase a dangling iterator is undefined: taken to kill the process.
DropDangling(t) ==
  /\ pc[t] \in {"drop", "sweep"} /\ ~Locked /\ t \in dangling
  /\ Die

LookForDevices(t) == Search(t) \/ Pair(t) \/ Drop(t) \/ DropDangling(t)

-----------------------------------------------------------------------------
(* VPTSensor::run *)

InitPairedDevices ==
  /\ pc["main"] = "ask"
  /\ \E answer \in SUBSET Pairable :
       /\ Insert(answer, 0) /\ paired' = Set(paired, answer, TRUE) /\ Reprieve(answer)
       /\ Goto("main", IF known' = {} THEN "first" ELSE "search")
  /\ UNCHANGED <<interval, roundVars, doomed, dangling, list, commands>>

\* The server is out of reach.
InitWithoutServer ==
  /\ pc["main"] = "ask" /\ Goto("main", "first")
  /\ UNCHANGED <<devVars, interval, roundVars, delVars, list, touched, commands>>

\* What is left of active after active -= wake_up_time.
Spent(d, w) == IF active[d] > w THEN active[d] - w ELSE 0

\* Before the first round the active devices are read once.
FetchAll ==
  /\ pc["main"] = "first"
  /\ \E failing \in SUBSET {d \in known : active[d] > 0} :
       active' = [d \in Euids |->
         IF d \in failing \/ (d \in known /\ ~paired[d]) THEN Spent(d, wake[d]) ELSE active[d]]
  /\ Goto("main", "scan") /\ todo' = known
  /\ UNCHANGED <<known, paired, wake, left, interval, next, delVars, list, touched, commands>>

Current == CHOOSE d \in todo : \A e \in todo : d <= e

NotDue ==
  /\ pc["main"] = "scan" /\ todo # {} /\ left[Current] > 0
  /\ Goto("main", "charge")
  /\ UNCHANGED <<devVars, interval, roundVars, delVars, list, touched, commands>>

AtLeastDefault(t) == IF t < Default THEN Default ELSE t

\* fetchAndSendMessage: a paired device that is not active is not asked.  The server
\* may answer with an update; active goes down on a failure, and always if the
\* device is not paired.
Fetch(d) ==
  IF paired[d] /\ active[d] = 0 THEN UNCHANGED <<wake, active>>
  ELSE \E w \in {wake[d]} \cup {AtLeastDefault(t) : t \in Times} :
         /\ wake' = [wake EXCEPT ![d] = w]
         /\ \/ active' = [active EXCEPT ![d] = Spent(d, w)]
            \/ paired[d] /\ UNCHANGED active

\* A device that is due, not paired and not active any more is collected.
Doom ==
  LET d == Current
  IN  /\ pc["main"] = "scan" /\ todo # {} /\ left[d] = 0
      /\ ~paired[d] /\ Fetch(d) /\ active'[d] = 0
      /\ \/ left' = [left EXCEPT ![d] = wake'[d]]
         \/ wake' = wake /\ UNCHANGED left
      /\ doomed' = [doomed EXCEPT !["main"] = @ \cup {d}] /\ todo' = todo \ {d}
      /\ UNCHANGED <<known, paired, interval, pc, next, dangling, reprieved, list, touched,
                     commands>>

\* Faulty variant: nobody looks whether the timer is in use.
MayStartAlways(d) == paired[d] /\ active'[d] = 0

\* A paired device that is not active any more is to be looked for.
MayStart(d) == paired[d] /\ active'[d] = 0 /\ ~interval

\* Otherwise its time starts again; first, perhaps, the timer is stopped.
Visit ==
  LET d == Current
  IN  /\ pc["main"] = "scan" /\ todo # {} /\ left[d] = 0
      /\ Fetch(d) /\ (paired[d] \/ active'[d] > 0)
      /\ left' = [left EXCEPT ![d] = wake'[d]]
      /\ Goto("main", IF MayStart(d) THEN "stop" ELSE "charge")
      /\ UNCHANGED <<known, paired, interval, roundVars, delVars, list, touched, commands>>

\* detect_devs_timer.stop() waits for a callback that is running.
StartDetectTimer ==
  /\ pc["main"] = "stop" /\ pc["detectTimer"] \in {"idle", "refused", "waiting"}
  /\ interval' = TRUE
  /\ pc' = [pc EXCEPT !["main"] = "charge", !["detectTimer"] = "waiting"]
  /\ UNCHANGED <<devVars, roundVars, delVars, list, touched, commands>>

\* The time slept is taken off, if the assertion holds.
Charge ==
  /\ pc["main"] = "charge" /\ next <= left[Current]
  /\ left' = [left EXCEPT ![Current] = @ - next]
  /\ todo' = todo \ {Current} /\ Goto("main", "scan")
  /\ UNCHANGED <<known, paired, wake, active, interval, next, delVars, list, touched, commands>>

\* assert(next_wakeup <= device.time_left)
AssertFails ==
  /\ pc["main"] = "charge" /\ next > left[Current]
  /\ Die

Unlock ==
  /\ pc["main"] = "scan" /\ todo = {}
  /\ Goto("main", "sweep")
  /\ UNCHANGED <<devVars, interval, roundVars, delVars, list, touched, commands>>

\* Faulty variant: run() sleeps until the last device is due.
LongestWakeup(keys) ==
  IF keys = {} THEN Default
  ELSE left[CHOOSE d \in keys : \A e \in keys : left[e] <= left[d]]

NextWakeup(keys) ==
  IF keys = {} THEN Default
  ELSE left[CHOOSE d \in keys : \A e \in keys : left[d] <= left[e]]

\* deleteDevices, then nextWakeup.
Sweep ==
  /\ pc["main"] = "sweep" /\ "main" \notin dangling
  /\ Delete("main") /\ next' = NextWakeup(known') /\ touched' = {}
  /\ Goto("main", "sleep")
  /\ UNCHANGED <<interval, todo, list, commands>>

Wake ==
  /\ pc["main"] = "sleep"
  /\ Goto("main", "scan") /\ todo' = known
  /\ UNCHANGED <<devVars, interval, next, delVars, list, touched, commands>>

Run ==
  \/ InitPairedDevices \/ InitWithoutServer \/ FetchAll
  \/ NotDue \/ Doom \/ Visit \/ StartDetectTimer \/ Charge \/ AssertFails
  \/ Unlock \/ Sweep \/ Wake

-----------------------------------------------------------------------------
(* The server's commands: parseCmdFromServer. *)

\* updateDeviceWakeUp, without devs_lock.  (A set command changes no entry.)
Update ==
  /\ pc["cmd"] = "idle" /\ commands < MaxCommands /\ commands' = commands + 1
  /\ \E d \in known, t \in Times :
       /\ wake' = [wake EXCEPT ![d] = AtLeastDefault(t)]
       /\ left' = [left EXCEPT ![d] = AtLeastDefault(t)]
       /\ touched' = touched \cup {d}
  /\ UNCHANGED <<known, paired, active, interval, pc, roundVars, delVars, list>>

\* processCmdListen: detectDevices, pairDevices ...
Listen ==
  /\ pc["cmd"] = "idle" /\ commands < MaxCommands /\ commands' = commands + 1
  /\ Goto("cmd", "search")
  /\ UNCHANGED <<devVars, interval, roundVars, delVars, list, touched>>

\* ... and the timer: stop() cancels it or waits for its callback.
StartListenTimer ==
  /\ pc["cmd"] = "stop" /\ pc["listenTimer"] \in {"idle", "refused", "waiting"}
  /\ pc' = [pc EXCEPT !["cmd"] = "idle", !["listenTimer"] = "waiting"]
  /\ UNCHANGED <<devVars, interval, roundVars, delVars, list, touched, commands>>

-----------------------------------------------------------------------------
(* The timers' callback: checkPairedDevices. *)

Fire(t) ==
  /\ pc[t] = "waiting" /\ Goto(t, "ask")
  /\ UNCHANGED <<devVars, interval, roundVars, delVars, list, touched, commands>>

\* No answer: the callback returns, the start interval stays as it is.
NoAnswer(t) ==
  /\ pc[t] = "ask" /\ Goto(t, "refused")
  /\ UNCHANGED <<devVars, interval, roundVars, delVars, list, touched, commands>>

Answer(t) ==
  /\ pc[t] = "ask" /\ Goto(t, "unpair")
  /\ \E answer \in SUBSET Pairable : list' = [list EXCEPT ![t] = answer]
  /\ UNCHANGED <<devVars, interval, roundVars, delVars, touched, commands>>

SetAllDevicesNotPaired(t) ==
  /\ pc[t] = "unpair" /\ ~Locked /\ Goto(t, "mark")
  /\ paired' = Set(paired, known, FALSE)
  /\ UNCHANGED <<known, wake, left, active, interval, roundVars, delVars, list, touched, commands>>

\* The devices the server named are paired; those not known are put into the map.
MarkPaired(t) ==
  /\ pc[t] = "mark" /\ ~Locked
  /\ Insert(list[t] \ known, 0)
  /\ paired' = Set(paired, list[t], TRUE)
  /\ Reprieve(list[t])
  /\ Goto(t, IF \E d \in list[t] : d \notin known \/ active[d] = 0 THEN "search" ELSE "end")
  /\ list' = [list EXCEPT ![t] = {}]
  /\ UNCHANGED <<interval, roundVars, doomed, dangling, commands>>

\* Faulty variant: the start interval is not reset.
EndKeepsInterval(t) ==
  /\ pc[t] = "end" /\ Goto(t, "idle")
  /\ UNCHANGED <<devVars, interval, roundVars, delVars, list, touched, commands>>

\* timer.setStartInterval(0)
End(t) ==
  /\ pc[t] = "end" /\ Goto(t, "idle")
  /\ interval' = (IF t = "detectTimer" THEN FALSE ELSE interval)
  /\ UNCHANGED <<devVars, roundVars, delVars, list, touched, commands>>

CheckPairedDevices(t) ==
  Fire(t) \/ NoAnswer(t) \/ Answer(t) \/ SetAllDevicesNotPaired(t) \/ MarkPaired(t) \/ End(t)

-----------------------------------------------------------------------------
Main == Run \/ LookForDevices("main")
Cmd  == LookForDevices("cmd") \/ StartListenTimer
Timer(t) == CheckPairedDevices(t) \/ LookForDevices(t)

Next == Main \/ Cmd \/ Update \/ Listen \/ \E t \in Timers : Timer(t)

Spec == Init /\ [][Next]_vars

\* run() loops, commands and callbacks go on, timers fire.  Who waits for devs_lock
\* gets it: run() sleeps for seconds without it whenever no device is due.
FairSpec == Spec /\ WF_vars(Main) /\ SF_vars(Cmd) /\ \A t \in Timers : SF_vars(Timer(t))

-----------------------------------------------------------------------------
\* What is left of the assertion: only a device that was detected again or whose
\* wake-up time was set since nextWakeup can be due before run() wakes up
\* (VPT.cpp:207-223, 246-283).
SleepFits ==
  pc["main"] \in {"sleep", "scan", "charge", "stop"} =>
    \A d \in (IF pc["main"] = "sleep" THEN known ELSE todo) \ touched : next <= left[d]

\* assert(next_wakeup <= device.time_left) (VPT.cpp:271)
AssertHolds == pc["main"] = "charge" => next <= left[Current]

\* A paired device is erased only by a thread that had collected it before it was
\* marked as paired (VPT.cpp:253-256, 276, 543-605, 625-632).
PairedIsKept ==
  [][ ~Died => \A d \in known \ known' : paired[d] => d \in reprieved ]_vars

\* run() waits for detect_devs_timer with devs_lock held: the callback must not
\* need the lock any more (VPT.cpp:258-266, 533-584).
StopNeedsNoLock ==
  pc["main"] = "stop" =>
    pc["detectTimer"] \notin {"ask", "unpair", "mark", "search", "pair", "drop"}

\* A paired device that does not answer any more is looked for, unless the server
\* did not answer the last time (VPT.cpp:258-266, 533-584).
InactiveIsSought ==
  \A d \in Pairable :
    (d \in known /\ paired[d] /\ active[d] = 0) ~>
      \/ ~(d \in known /\ paired[d] /\ active[d] = 0)
      \/ pc["detectTimer"] \in {"search", "refused"}
==============================================================================
