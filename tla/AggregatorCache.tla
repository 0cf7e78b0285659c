--------------------------- MODULE AggregatorCache ---------------------------
(***************************************************************************)
(* The store-and-forward core of the gateway: Aggregator::sendData (called *)
(* by every sensor module's thread and by the Aggregator's own thread),    *)
(* Aggregator::run, the in-memory cache, its backup file, TimeWatchdog and *)
(* restarts of the application (src/Aggregator.cpp, src/Aggregator.h).     *)
(*                                                                         *)
(* A message is a member of Msgs.  Of its time stamp the model keeps only  *)
(* whether isTimeValid accepts it; the arithmetic on offsets is the        *)
(* subject of BlackoutClock.  Among cached messages of the same priority   *)
(* the order of sending is left open (the code takes the oldest).          *)
(*                                                                         *)
(* Blocks of code that run under cache_lock are single steps, except the   *)
(* rewriting of the backup file, which a restart can cut in two.           *)
(***************************************************************************)
EXTENDS Integers, FiniteSets

CONSTANTS
  Msgs,           \* messages the sensor modules will hand over, once each
  DataMsgs,       \* those with state = "data"; only these are ever cached
  ActuatorMsgs,   \* those created with MSG_PRIO_ACTUATOR
  None,           \* not a message
  Dist,           \* distributor.enabled
  MinItems,       \* cache.minimal_items_cached
  EmptyReplyIsOk, \* does sendToServer report success on an empty answer?
  RestartMidStore,\* may a restart hit while the backup file is being written?
  MaxBlackouts,   \* bound: how often the clock loses its validity while running
  MaxRestarts     \* bound: restarts of the application

ASSUME MsgsAssumption     == DataMsgs \subseteq Msgs /\ ActuatorMsgs \subseteq Msgs
ASSUME NoneAssumption     == None \notin Msgs
ASSUME ConfigAssumption   == Dist \in BOOLEAN /\ MinItems \in Nat
ASSUME ReplyAssumption    == EmptyReplyIsOk \in BOOLEAN
ASSUME RestartAssumption  == RestartMidStore \in BOOLEAN
ASSUME BoundAssumption    == MaxBlackouts \in Nat /\ MaxRestarts \in Nat

VARIABLES
  clock,     \* isTimeValid(): is the system clock past LIMIT_TIMESTAMP?
  blackouts, \* how often the clock became invalid (for the bound)
  restarts,  \* how often the application was restarted (for the bound)
  caller,    \* what the module thread that owns the message is doing with it
  cache,     \* the messages in the multimap
  stamped,   \* isTimeValid(msg.time), of the copy in memory
  valid,     \* msg.valid, of the copy in memory
  reloaded,  \* messages that came from the backup file
  runPc,     \* where Aggregator::run is
  item,      \* the message run() has taken out of the cache
  wd,        \* the watchdog's thread
  locked,    \* who holds cache_lock across several steps
  file,      \* the lines of the backup file, with the stamp written there
  exists,    \* does the backup file exist?
  copies,    \* how often the server has got the message (2: more than once)
  unsure,    \* messages the server got but whose answer was lost
  lost       \* messages a restart wiped from memory that were not on file

clockVars == <<clock, blackouts>>
fileVars  == <<file, exists>>
msgVars   == <<stamped, valid, reloaded>>
netVars   == <<copies, unsure>>
vars == <<clock, blackouts, restarts, caller, cache, stamped, valid, reloaded,
          runPc, item, wd, locked, file, exists, copies, unsure, lost>>

CallerPcs == {"new", "send", "insert", "done"}
RunPcs    == {"load", "check", "flush", "flushing", "pick", "storing", "send",
              "insert"}
WdPcs     == {"idle", "started", "active", "ready", "storing"}
OnFile    == {"absent", "stamped", "unstamped"}

TypeOK ==
  /\ clock \in BOOLEAN /\ blackouts \in 0..MaxBlackouts /\ restarts \in 0..MaxRestarts
  /\ caller \in [Msgs -> CallerPcs]
  /\ cache \subseteq DataMsgs
  /\ stamped \in [Msgs -> BOOLEAN] /\ valid \in [Msgs -> BOOLEAN]
  /\ reloaded \subseteq DataMsgs
  /\ runPc \in RunPcs /\ item \in DataMsgs \cup {None}
  /\ item # None <=> runPc \in {"send", "insert"}
  /\ wd \in WdPcs
  /\ locked \in {"free", "run", "watchdog"}
  /\ locked = "run" <=> runPc \in {"flushing", "storing"}
  /\ locked = "watchdog" <=> wd = "storing"
  /\ file \in [Msgs -> OnFile] /\ exists \in BOOLEAN
  /\ copies \in [Msgs -> 0..2]
  /\ unsure \subseteq Msgs /\ lost \subseteq Msgs

Init ==
  /\ clock \in BOOLEAN /\ blackouts = 0 /\ restarts = 0
  /\ caller = [m \in Msgs |-> "new"]
  /\ cache = {}
  /\ stamped = [m \in Msgs |-> FALSE] /\ valid = [m \in Msgs |-> TRUE]
  /\ reloaded = {}
  /\ runPc = "load" /\ item = None
  /\ wd = "idle" /\ locked = "free"
  /\ file = [m \in Msgs |-> "absent"] /\ exists = FALSE
  /\ copies = [m \in Msgs |-> 0]
  /\ unsure = {} /\ lost = {}

-----------------------------------------------------------------------------
(* The backup file. *)

NoLines == [m \in Msgs |-> "absent"]

\* One line per cached message: convertToCSV with the stamp and validity.
CacheLines ==
  [m \in Msgs |-> IF m \notin cache THEN "absent"
                  ELSE IF stamped[m] THEN "stamped" ELSE "unstamped"]

Lines == {m \in Msgs : file[m] # "absent"}

\* storeCache up to ofstream::open, which truncates the file.
OpenFile(who) ==
  /\ locked = "free" /\ locked' = who
  /\ file' = NoLines /\ exists' = TRUE

\* The rest of storeCache: the lines and close().
WriteFile ==
  /\ locked' = "free"
  /\ file' = CacheLines /\ exists' = TRUE

-----------------------------------------------------------------------------
(* Aggregator::sendData.  Its last call, dist->addNewMessage, changes only the *)
(* Distributor's state and is modelled there.                                  *)

\* What can come of sendToServer: the server answers; it gets the message but
\* the answer does not come back; it is not reached; or it closes the
\* connection with an empty answer before it has taken the message.
Replies == {"answer", "noAnswer", "noServer"}
             \cup (IF EmptyReplyIsOk THEN {"closed"} ELSE {})

Received(reply) == reply \in {"answer", "noAnswer"}
Success(reply)  == reply \in {"answer", "closed"}

SendToServer(m, reply) ==
  /\ copies' = IF Received(reply) /\ copies[m] < 2
               THEN [copies EXCEPT ![m] = @ + 1] ELSE copies
  /\ unsure' = IF reply = "noAnswer" THEN unsure \cup {m} ELSE unsure

\* A message with a valid time goes to the server.  What is to be done next
\* with a message that failed: "insert" if it is to be cached, else "done".
\* Faulty variants: the result is not looked at, or all messages are cached.
SendIgnoresFailure(m, reply, next) ==
  stamped[m] /\ SendToServer(m, reply) /\ next = "done" /\ UNCHANGED valid

SendCachesAll(m, reply, next) ==
  /\ stamped[m] /\ SendToServer(m, reply) /\ UNCHANGED valid
  /\ next = IF m \in DataMsgs THEN "insert" ELSE "done"

Send(m, reply, next) ==
  /\ stamped[m]
  /\ SendToServer(m, reply)
  /\ next = IF ~Success(reply) /\ m \in DataMsgs THEN "insert" ELSE "done"
  /\ UNCHANGED valid

\* A message with an invalid time does not; its offset is computed.
Invalidate(m, next) ==
  /\ ~stamped[m]
  /\ valid' = [valid EXCEPT ![m] = FALSE]
  /\ next = IF m \in DataMsgs THEN "insert" ELSE "done"
  /\ UNCHANGED netVars

Attempt(m, next) ==
  \/ \E reply \in Replies : Send(m, reply, next)
  \/ Invalidate(m, next)

Insert(m) ==
  /\ locked = "free"
  /\ cache' = cache \cup {m}

\* A module creates a message, stamps it with time(NULL) and calls sendData.
Call(m) ==
  /\ caller[m] = "new"
  /\ caller' = [caller EXCEPT ![m] = "send"]
  /\ stamped' = [stamped EXCEPT ![m] = clock]
  /\ valid' = [valid EXCEPT ![m] = TRUE]
  /\ UNCHANGED <<clockVars, restarts, cache, reloaded, runPc, item, wd, locked,
                 fileVars, netVars, lost>>

CallerSend(m) ==
  /\ caller[m] = "send"
  /\ \E next \in {"insert", "done"} :
       /\ Attempt(m, next)
       /\ caller' = [caller EXCEPT ![m] = next]
  /\ UNCHANGED <<clockVars, restarts, cache, stamped, reloaded, runPc, item, wd,
                 locked, fileVars, lost>>

CallerInsert(m) ==
  /\ caller[m] = "insert"
  /\ Insert(m)
  /\ caller' = [caller EXCEPT ![m] = "done"]
  /\ UNCHANGED <<clockVars, restarts, msgVars, runPc, item, wd, locked, fileVars,
                 netVars, lost>>

-----------------------------------------------------------------------------
(* Aggregator::run. *)

\* loadCache.  A line with an invalid time keeps valid = "no" whether or not
\* the clock is valid now; the priority is not on file.
\* Faulty variant: lines without a valid time are dropped.
LoadSkipsUnstamped ==
  /\ runPc = "load" /\ locked = "free"
  /\ cache' = cache \cup {m \in Lines : file[m] = "stamped"}
  /\ stamped' = [m \in Msgs |-> stamped[m] \/ file[m] = "stamped"]
  /\ valid' = [m \in Msgs |-> valid[m] \/ file[m] = "stamped"]
  /\ reloaded' = reloaded \cup Lines
  /\ runPc' = "check"
  /\ UNCHANGED <<clockVars, restarts, caller, item, wd, locked, fileVars, netVars,
                 lost>>

Load ==
  /\ runPc = "load" /\ locked = "free"
  /\ cache' = cache \cup Lines
  /\ stamped' = [m \in Msgs |-> IF m \in Lines THEN file[m] = "stamped"
                                ELSE stamped[m]]
  /\ valid' = [m \in Msgs |-> IF m \in Lines THEN file[m] = "stamped"
                              ELSE valid[m]]
  /\ reloaded' = reloaded \cup Lines
  /\ runPc' = "check"
  /\ UNCHANGED <<clockVars, restarts, caller, item, wd, locked, fileVars, netVars,
                 lost>>

\* The top of the loop.  The loop sleeps two seconds per round, so a watchdog
\* it started has set its active flag by the time the loop looks again.
Check ==
  /\ runPc = "check" /\ wd # "started"
  /\ IF ~clock /\ wd = "idle"
     THEN wd' = "started" /\ runPc' = "flush"
     ELSE wd' = wd /\ runPc' = "pick"
  /\ UNCHANGED <<clockVars, restarts, caller, cache, msgVars, item, locked,
                 fileVars, netVars, lost>>

\* A blackout has begun: the cache is flushed.
FlushNothing ==
  /\ runPc = "flush" /\ locked = "free"
  /\ cache = {} \/ ~Dist
  /\ runPc' = "pick"
  /\ UNCHANGED <<clockVars, restarts, caller, cache, msgVars, item, wd, locked,
                 fileVars, netVars, lost>>

FlushBegin ==
  /\ runPc = "flush"
  /\ cache # {} /\ Dist
  /\ OpenFile("run")
  /\ runPc' = "flushing"
  /\ UNCHANGED <<clockVars, restarts, caller, cache, msgVars, item, wd, netVars,
                 lost>>

FlushEnd ==
  /\ runPc = "flushing"
  /\ WriteFile
  /\ runPc' = "pick"
  /\ UNCHANGED <<clockVars, restarts, caller, cache, msgVars, item, wd, netVars,
                 lost>>

\* MSG_PRIO_ACTUATOR goes before MSG_PRIO_SENSOR; what was read from the
\* backup file has the default priority, MSG_PRIO_SENSOR.
Priority(m) == IF m \in ActuatorMsgs \ reloaded THEN 3 ELSE 1

Sendable == {m \in cache : valid[m]}

\* Faulty variant: a message that cannot be sent blocks those behind it.
FirstOfAll == {m \in Sendable : \A n \in cache : Priority(m) >= Priority(n)}

First == {m \in Sendable : \A n \in Sendable : Priority(m) >= Priority(n)}

\* Take the first sendable message out of the cache, if there is one.
\* Faulty variant: the message stays in the cache while it is sent.
TakeCopy ==
  IF First = {}
  THEN item' = None /\ cache' = cache /\ runPc' = "check"
  ELSE \E m \in First : item' = m /\ cache' = cache /\ runPc' = "send"

Take ==
  IF First = {}
  THEN item' = None /\ cache' = cache /\ runPc' = "check"
  ELSE \E m \in First : item' = m /\ cache' = cache \ {m} /\ runPc' = "send"

Pick ==
  /\ runPc = "pick" /\ locked = "free" /\ cache # {}
  /\ Take
  /\ UNCHANGED <<clockVars, restarts, caller, msgVars, wd, locked, fileVars,
                 netVars, lost>>

\* The same when the periodic backup is due (the time condition is left open).
PickStoreBegin ==
  /\ runPc = "pick" /\ cache # {}
  /\ Cardinality(cache) >= MinItems /\ Dist
  /\ OpenFile("run")
  /\ runPc' = "storing"
  /\ UNCHANGED <<clockVars, restarts, caller, cache, msgVars, item, wd, netVars,
                 lost>>

PickStoreEnd ==
  /\ runPc = "storing"
  /\ WriteFile
  /\ Take
  /\ UNCHANGED <<clockVars, restarts, caller, msgVars, wd, netVars, lost>>

\* The cache is empty: the backup file goes (File::remove may fail).
\* Faulty variant: nothing sendable is taken for nothing cached.
PickNothingSendable ==
  /\ runPc = "pick" /\ locked = "free" /\ Sendable = {}
  /\ exists' = FALSE /\ file' = NoLines
  /\ runPc' = "check"
  /\ UNCHANGED <<clockVars, restarts, caller, cache, msgVars, item, wd, locked,
                 netVars, lost>>

PickEmpty ==
  /\ runPc = "pick" /\ locked = "free" /\ cache = {}
  /\ \/ exists' = FALSE /\ file' = NoLines
     \/ UNCHANGED fileVars
  /\ runPc' = "check"
  /\ UNCHANGED <<clockVars, restarts, caller, cache, msgVars, item, wd, locked,
                 netVars, lost>>

\* tryLock(1000) gives up.
PickTimeout ==
  /\ runPc = "pick" /\ locked # "free"
  /\ runPc' = "check"
  /\ UNCHANGED <<clockVars, restarts, caller, cache, msgVars, item, wd, locked,
                 fileVars, netVars, lost>>

\* run() calls sendData with the message it has taken.
RunSend ==
  /\ runPc = "send"
  /\ \E next \in {"insert", "done"} :
       /\ Attempt(item, next)
       /\ runPc' = IF next = "insert" THEN "insert" ELSE "check"
       /\ item' = IF next = "insert" THEN item ELSE None
  /\ UNCHANGED <<clockVars, restarts, caller, cache, stamped, reloaded, wd, locked,
                 fileVars, lost>>

RunInsert ==
  /\ runPc = "insert"
  /\ Insert(item)
  /\ runPc' = "check" /\ item' = None
  /\ UNCHANGED <<clockVars, restarts, caller, msgVars, wd, locked, fileVars,
                 netVars, lost>>

-----------------------------------------------------------------------------
(* TimeWatchdog::run and Aggregator::validateAllMessages. *)

WdStart ==
  /\ wd = "started" /\ wd' = "active"
  /\ UNCHANGED <<clockVars, restarts, caller, cache, msgVars, runPc, item, locked,
                 fileVars, netVars, lost>>

WdSeesClock ==
  /\ wd = "active" /\ clock
  /\ wd' = "ready"
  /\ UNCHANGED <<clockVars, restarts, caller, cache, msgVars, runPc, item, locked,
                 fileVars, netVars, lost>>

\* Faulty variant: the messages stay invalid.
RestampTimeOnly ==
  /\ stamped' = [m \in Msgs |-> stamped[m] \/ (m \in cache /\ ~valid[m])]
  /\ UNCHANGED valid

\* The cached messages get a time computed from their offset.
Restamp ==
  /\ stamped' = [m \in Msgs |-> stamped[m] \/ (m \in cache /\ ~valid[m])]
  /\ valid' = [m \in Msgs |-> valid[m] \/ m \in cache]

\* validateAllMessages, ending in storeCache; then active = false.
Validate ==
  /\ wd = "ready" /\ locked = "free"
  /\ Restamp
  /\ IF Dist THEN wd' = "storing" /\ OpenFile("watchdog")
             ELSE wd' = "idle" /\ UNCHANGED <<locked, fileVars>>
  /\ UNCHANGED <<clockVars, restarts, caller, cache, reloaded, runPc, item,
                 netVars, lost>>

ValidateEnd ==
  /\ wd = "storing"
  /\ WriteFile
  /\ wd' = "idle"
  /\ UNCHANGED <<clockVars, restarts, caller, cache, msgVars, runPc, item, netVars,
                 lost>>

-----------------------------------------------------------------------------
(* The environment: the system clock, and the application's restarts. *)

ClockLost ==
  /\ clock /\ blackouts < MaxBlackouts
  /\ clock' = FALSE /\ blackouts' = blackouts + 1
  /\ UNCHANGED <<restarts, caller, cache, msgVars, runPc, item, wd, locked,
                 fileVars, netVars, lost>>

ClockSet ==
  /\ ~clock /\ clock' = TRUE
  /\ UNCHANGED <<blackouts, restarts, caller, cache, msgVars, runPc, item, wd, locked,
                 fileVars, netVars, lost>>

\* The messages in memory.
InMemory ==
  {m \in Msgs : caller[m] \in {"send", "insert"}} \cup cache \cup ({item} \ {None})

\* The application ends and is started again.  Aggregator and the server
\* connection own each other, so ~Aggregator does not run at a regular exit
\* either.  A file being written is cut after some of its lines.
Restart ==
  /\ restarts < MaxRestarts
  /\ locked = "free" \/ RestartMidStore
  /\ restarts' = restarts + 1
  /\ \E cut \in SUBSET Msgs :
       /\ locked = "free" => cut = {}
       /\ file' = IF locked = "free" THEN file
                  ELSE [m \in Msgs |-> IF m \in cut THEN CacheLines[m]
                                                    ELSE "absent"]
  /\ lost' = lost \cup {m \in InMemory : file'[m] = "absent"}
  /\ caller' = [m \in Msgs |-> IF caller[m] = "new" THEN "new" ELSE "done"]
  /\ cache' = {}
  /\ runPc' = "load" /\ item' = None
  /\ wd' = "idle" /\ locked' = "free"
  /\ UNCHANGED <<clockVars, msgVars, exists, copies, unsure>>

-----------------------------------------------------------------------------
CallerNext(m) == Call(m) \/ CallerSend(m) \/ CallerInsert(m)

RunNext ==
  \/ Load \/ Check
  \/ FlushNothing \/ FlushBegin \/ FlushEnd
  \/ Pick \/ PickStoreBegin \/ PickStoreEnd \/ PickEmpty \/ PickTimeout
  \/ RunSend \/ RunInsert

WdNext == WdStart \/ WdSeesClock \/ Validate \/ ValidateEnd

Next ==
  \/ \E m \in Msgs : CallerNext(m)
  \/ RunNext
  \/ WdNext
  \/ ClockLost \/ ClockSet
  \/ Restart

Spec == Init /\ [][Next]_vars

-----------------------------------------------------------------------------
(* Safety. *)

\* What the application still has to deliver: memory and, until loadCache has
\* run, the backup file.
Held == InMemory \cup (IF runPc = "load" THEN Lines ELSE {})

\* sendData (Aggregator.cpp:230-259) and run() pass a message around between
\* threads, the cache and the file; a data message once handed over is still
\* held, or was received by the server, or was wiped out by a restart.
Accounted ==
  \A m \in DataMsgs :
    caller[m] # "new" => m \in Held \/ copies[m] > 0 \/ m \in lost

\* A message has one owner: a thread in sendData, the cache or run()
\* (Aggregator.cpp:192-201); two owners would send it twice.
OneOwner ==
  /\ item \notin cache
  /\ \A m \in cache \cup ({item} \ {None}) : caller[m] = "done"

\* run() finds sendable messages by msg.valid (Aggregator.cpp:176), sendData
\* decides by the time stamp (Aggregator.cpp:236), and three functions write
\* the two; they agree for whatever is cached or was taken from the cache.
SendableHasTime ==
  \A m \in cache \cup ({item} \ {None}) : valid[m] = stamped[m]

\* The server gets a message twice only if its answer was lost or the message
\* was read back from the backup file (loadCache, Aggregator.cpp:400-500).
DuplicateHasCause ==
  \A m \in Msgs : copies[m] > 1 => m \in unsure \cup reloaded

\* Once the cache is loaded, a line of the backup file is a message still in
\* run()'s hands or one the server has (Aggregator.cpp:157-225).
FileIsTracked ==
  runPc # "load" => \A m \in Lines : m \in cache \/ item = m \/ copies[m] > 0

\* "remove file if the cache is empty = this means that all messages were
\* successfully sent to server" (Aggregator.cpp:207): when the file is removed
\* the server has received every message on it.
RemovedMeansSent ==
  [][exists /\ ~exists' => \A m \in Lines : copies[m] > 0]_vars

\* The strengthening that makes the above inductive.
Strengthening ==
  /\ runPc = "load" => wd = "idle"
  /\ \A m \in Lines : m \in DataMsgs /\ caller[m] = "done"
  /\ \A m \in Msgs : caller[m] = "send" => valid[m] = TRUE
  /\ \A m \in Msgs : caller[m] = "insert" => m \in DataMsgs /\ valid[m] = stamped[m]

\* Who owns which message, and what is known of its time.
OwnershipInv == TypeOK /\ OneOwner /\ SendableHasTime /\ Strengthening

-----------------------------------------------------------------------------
(* The Aggregator keeps the promise of MessageRelay. *)

Relay == INSTANCE MessageRelay WITH
  Messages  <- DataMsgs,
  accepted  <- {m \in DataMsgs : caller[m] # "new"},
  held      <- Held \cap DataMsgs,
  delivered <- {m \in DataMsgs : copies[m] > 0},
  epoch     <- restarts

\* Between restarts a message leaves the application only into the hands of the
\* server (sendData and run(), Aggregator.cpp:134-259).
KeepsPromise == Relay!RelaySpec

-----------------------------------------------------------------------------
(* Liveness. *)

ServerAnswers == RunSend /\ copies'[item] > 0 /\ item' = None

\* Every thread keeps running and gets a free mutex in the end; the server is
\* reached in the end by a sender that keeps trying; an invalid clock is set
\* in the end (the watchdog exists for that case).
Fairness ==
  /\ \A m \in Msgs : WF_vars(CallerSend(m)) /\ SF_vars(CallerInsert(m))
  /\ SF_vars(RunNext)
  /\ SF_vars(ServerAnswers)
  /\ WF_vars(WdStart) /\ WF_vars(WdSeesClock) /\ SF_vars(Validate)
  /\ WF_vars(ValidateEnd)
  /\ WF_vars(ClockSet)

FairSpec == Spec /\ Fairness

\* A data message with a valid time reaches the server whatever fails in
\* between (the retry loop, Aggregator.cpp:169-202).
Delivered ==
  \A m \in DataMsgs : (caller[m] = "send" /\ stamped[m]) ~> copies[m] > 0

\* A message cached while the watchdog waits for the clock gets its time when
\* the clock is set, and reaches the server (Aggregator.cpp:54-65, 540-556).
WatchedIsDelivered ==
  \A m \in DataMsgs : (m \in cache /\ wd = "active") ~> copies[m] > 0

==============================================================================
