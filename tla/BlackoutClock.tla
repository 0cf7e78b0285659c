---------------------------- MODULE BlackoutClock ----------------------------
(***************************************************************************)
(* The arithmetic of time in a blackout, when the system clock of the      *)
(* gateway is not set (src/Aggregator.cpp, src/Aggregator.h).  sendData    *)
(* notes how far into the blackout a message came; when the clock is set,  *)
(* TimeWatchdog has validateAllMessages compute its time.  A message read  *)
(* back from the backup file has its offset computed from the two clocks.  *)
(*                                                                         *)
(* now is the true time, in units of a tick.  A clock that is set shows    *)
(* Epoch + now; one that is not counts from the boot of the system.        *)
(* The server is out of reach here: sendData caches every message.         *)
(***************************************************************************)
EXTENDS Integers

CONSTANTS
  Msgs,        \* data messages
  Limit,       \* LIMIT_TIMESTAMP
  Epoch,       \* the true time at tick 0
  Round,       \* the longest round of Aggregator::run
  Delay,       \* the longest time from stamping a message to sendData
  MaxTime,     \* bound: ticks
  MaxBlackouts,\* bound: losses of the clock
  MaxRestarts  \* bound: restarts

ASSUME ClockAssumption == Limit \in Nat /\ Epoch \in Nat /\ MaxTime <= Limit /\ Limit < Epoch
ASSUME DelayAssumption == Round \in Nat /\ Delay \in Nat
ASSUME BoundAssumption == MaxTime \in Nat /\ MaxBlackouts \in Nat /\ MaxRestarts \in Nat

VARIABLES
  now,      \* the true time
  clock,    \* is the system clock set?
  boot,     \* when an unset clock showed 0
  blackout, \* number of blackouts so far
  restarts, \* number of restarts (for the bound)
  state,    \* each message: new, stamped, cached, or gone with a restart
  taken,    \* when it was stamped
  within,   \* the number of blackouts at that time
  time, offset, valid, \* its fields
  restored, \* the number of blackouts when its time was computed, or -1
  file,     \* the backup file: the messages on it, with the fields above
  loaded,   \* has loadCache run?
  round,    \* ticks since run() began or looked at the clock
  wd,       \* TimeWatchdog::run: idle, active, saw (the clock), done
  start,    \* blackout_start_point
  saw       \* arguments of validateAllMessages: now - duration

clockVars == <<now, clock, boot, blackout, restarts>>
trueVars  == <<taken, within, restored>>
msgVars   == <<time, offset, valid>>
wdVars    == <<wd, start, saw>>
vars == <<now, clock, boot, blackout, restarts, state, taken, within, time, offset,
          valid, restored, file, loaded, round, wd, start, saw>>

TypeOK ==
  /\ now \in 0..MaxTime /\ clock \in BOOLEAN /\ boot \in 0..MaxTime
  /\ blackout \in 0..(MaxBlackouts + MaxRestarts + 1) /\ restarts \in 0..MaxRestarts
  /\ state \in [Msgs -> {"new", "stamped", "cached", "gone"}]
  /\ taken \in [Msgs -> 0..MaxTime] /\ within \in [Msgs -> Nat]
  /\ time \in [Msgs -> Int] /\ offset \in [Msgs -> Int] /\ valid \in [Msgs -> BOOLEAN]
  /\ restored \in [Msgs -> Int]
  /\ file \in SUBSET (Msgs \X Int)
  /\ loaded \in BOOLEAN /\ round \in 0..Round
  /\ wd \in {"idle", "active", "saw", "done"}
  /\ start \in 0..MaxTime /\ saw \in Int

Init ==
  /\ now = 0 /\ clock \in BOOLEAN /\ boot = 0 /\ restarts = 0
  /\ blackout = IF clock THEN 0 ELSE 1
  /\ state = [m \in Msgs |-> "new"]
  /\ taken = [m \in Msgs |-> 0] /\ within = [m \in Msgs |-> 0]
  /\ time = [m \in Msgs |-> 0] /\ offset = [m \in Msgs |-> 0]
  /\ valid = [m \in Msgs |-> TRUE] /\ restored = [m \in Msgs |-> -1]
  /\ file = {} /\ loaded = FALSE /\ round = 0
  /\ wd = "idle" /\ start = 0 /\ saw = 0

\* time(NULL)
SystemTime == IF clock THEN Epoch + now ELSE now - boot

IsTimeValid(t) == t > Limit

Active == wd \in {"active", "saw"}

\* TimeWatchdog::getOffset
GetOffset == IF Active THEN now - start ELSE 0

\* storeCache: the time is written, the offset is not.
CacheLines == {<<m, time[m]>> : m \in {n \in Msgs : state[n] = "cached"}}

-----------------------------------------------------------------------------
(* The modules' threads. *)

Stamp(m) ==
  /\ state[m] = "new" /\ state' = [state EXCEPT ![m] = "stamped"]
  /\ time' = [time EXCEPT ![m] = SystemTime]
  /\ taken' = [taken EXCEPT ![m] = now] /\ within' = [within EXCEPT ![m] = blackout]
  /\ UNCHANGED <<clockVars, offset, valid, restored, file, loaded, round, wdVars>>

SendData(m) ==
  /\ state[m] = "stamped" /\ state' = [state EXCEPT ![m] = "cached"]
  /\ valid' = [valid EXCEPT ![m] = IsTimeValid(time[m])]
  /\ offset' = [offset EXCEPT ![m] = IF IsTimeValid(time[m]) THEN 0 ELSE GetOffset]
  /\ UNCHANGED <<clockVars, trueVars, time, file, loaded, round, wdVars>>

-----------------------------------------------------------------------------
(* Aggregator::run *)

OnFile(m) == \E t \in {line[2] : line \in {l \in file : l[1] = m}} : TRUE
FileTime(m) == (CHOOSE line \in file : line[1] = m)[2]

\* loadCache: with a valid time all is well; with a valid clock only, the offset
\* stays 0; with neither it is computed.
Load ==
  /\ ~loaded /\ loaded' = TRUE
  /\ state' = [m \in Msgs |-> IF OnFile(m) THEN "cached" ELSE state[m]]
  /\ time' = [m \in Msgs |-> IF OnFile(m) THEN FileTime(m) ELSE time[m]]
  /\ valid' = [m \in Msgs |-> IF OnFile(m) THEN IsTimeValid(FileTime(m)) ELSE valid[m]]
  /\ offset' = [m \in Msgs |->
       IF ~OnFile(m) THEN offset[m]
       ELSE IF IsTimeValid(FileTime(m)) \/ clock THEN 0
       ELSE FileTime(m) - SystemTime]
  /\ UNCHANGED <<clockVars, trueVars, file, round, wdVars>>

\* Faulty variant: blackout_start_point is time(NULL), not a monotonic time.
StartFromClock ==
  /\ loaded /\ ~clock /\ wd = "idle"
  /\ wd' = "active" /\ start' = SystemTime - Epoch /\ round' = 0
  /\ file' = (IF CacheLines = {} THEN file ELSE CacheLines)
  /\ UNCHANGED <<clockVars, state, trueVars, msgVars, loaded, saw>>

\* The blackout is noticed; the cache, unless empty, is flushed.
StartWatchdog ==
  /\ loaded /\ ~clock /\ wd = "idle"
  /\ wd' = "active" /\ start' = now /\ round' = 0
  /\ file' = (IF CacheLines = {} THEN file ELSE CacheLines)
  /\ UNCHANGED <<clockVars, state, trueVars, msgVars, loaded, saw>>

\* Nothing to notice; the cache may be backed up.
Look ==
  /\ loaded /\ (clock \/ wd # "idle") /\ round > 0
  /\ round' = 0 /\ file' \in {file, CacheLines}
  /\ UNCHANGED <<clockVars, state, trueVars, msgVars, loaded, wdVars>>

-----------------------------------------------------------------------------
(* TimeWatchdog::run *)

SeeClock ==
  /\ wd = "active" /\ clock
  /\ wd' = "saw" /\ saw' = SystemTime - GetOffset
  /\ UNCHANGED <<clockVars, state, trueVars, msgVars, file, loaded, round, start>>

Waiting(m) == state[m] = "cached" /\ ~valid[m]

\* Faulty variant: the offset is left out.
StartForAll(m) == saw

RestoredTime(m) == saw + offset[m]

\* validateAllMessages, and storeCache at its end.
Validate ==
  /\ wd = "saw" /\ wd' = "done"
  /\ time' = [m \in Msgs |-> IF Waiting(m) THEN RestoredTime(m) ELSE time[m]]
  /\ offset' = [m \in Msgs |-> IF Waiting(m) THEN 0 ELSE offset[m]]
  /\ valid' = [m \in Msgs |-> valid[m] \/ Waiting(m)]
  /\ restored' = [m \in Msgs |-> IF Waiting(m) THEN blackout ELSE restored[m]]
  /\ file' = {<<m, time'[m]>> : m \in {n \in Msgs : state[n] = "cached"}}
  /\ UNCHANGED <<clockVars, state, taken, within, loaded, round, start, saw>>

Finish ==
  /\ wd = "done" /\ wd' = "idle"
  /\ UNCHANGED <<clockVars, state, trueVars, msgVars, file, loaded, round, start, saw>>

-----------------------------------------------------------------------------
(* The environment. *)

\* Time passes, unless the run() loop or a module would be late, or the watchdog
\* is between validateAllMessages and active = false.
Tick ==
  /\ wd # "done"
  /\ now < MaxTime /\ now' = now + 1
  /\ round < Round /\ round' = round + 1
  /\ \A m \in Msgs : state[m] = "stamped" => now - taken[m] < Delay
  /\ UNCHANGED <<clock, boot, blackout, restarts, state, trueVars, msgVars, file,
                 loaded, wdVars>>

LoseClock ==
  /\ clock /\ blackout < MaxBlackouts
  /\ clock' = FALSE /\ boot' = now /\ blackout' = blackout + 1
  /\ UNCHANGED <<now, restarts, state, trueVars, msgVars, file, loaded, round, wdVars>>

SetClock ==
  /\ ~clock /\ clock' = TRUE
  /\ UNCHANGED <<now, boot, blackout, restarts, state, trueVars, msgVars, file, loaded,
                 round, wdVars>>

Restarted ==
  /\ restarts < MaxRestarts /\ restarts' = restarts + 1
  /\ state' = [m \in Msgs |-> IF state[m] = "new" THEN "new" ELSE "gone"]
  /\ loaded' = FALSE /\ round' = 0
  /\ wd' = "idle"
  /\ UNCHANGED <<now, trueVars, msgVars, file, start, saw>>

\* Only the application is restarted.
RestartApplication ==
  /\ Restarted
  /\ UNCHANGED <<clock, boot, blackout>>

\* The system has no clock of its own and counts from 0 again: another blackout.
RestartSystem ==
  /\ Restarted
  /\ clock' = FALSE /\ boot' = now /\ blackout' = blackout + 1

Next ==
  \/ \E m \in Msgs : Stamp(m) \/ SendData(m)
  \/ Load \/ StartWatchdog \/ Look
  \/ SeeClock \/ Validate \/ Finish
  \/ Tick \/ LoseClock \/ SetClock
  \/ RestartApplication \/ RestartSystem

Spec == Init /\ [][Next]_vars

-----------------------------------------------------------------------------
Error(m) == time[m] - (Epoch + taken[m])

\* A message that came in a blackout and got its time at the end of that blackout
\* has the time at which it was stamped, up to the time it took to reach sendData
\* and the time run() took to notice the blackout (Aggregator.h:91-114,
\* Aggregator.cpp:157-168, 236-242, 481-493, 540-552).
RestoredIsClose ==
  \A m \in Msgs :
    restored[m] = within[m] => 0 <= Error(m) /\ Error(m) <= Round + Delay
==============================================================================
