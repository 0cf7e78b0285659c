----------------------------- MODULE VirtualValue -----------------------------
(***************************************************************************)
(* The values of one virtual sensor (src/VirtualSensorValue.cpp) and the   *)
(* requests that set them (src/VirtualSensor.cpp).  Each value has a timer *)
(* that calls nextVal and a mutex; a thread of the sensor applies the      *)
(* requests one after another with setNewVal, which takes the same mutex.  *)
(***************************************************************************)
EXTENDS Integers, Sequences

CONSTANTS
  Values,   \* the values of the sensor
  Texts,    \* what the configuration may say of one
  Requests, \* what the server may set one to
  MaxSets   \* bound: requests

VARIABLES
  conf,   \* for each value: generator_type, from, to, is_actuator
  step,   \* its step, which a triangle turns round
  actual, \* actual_value
  upcoming, \* next_val, while its timer's thread sleeps
  holder, \* who has value_change_mutex
  timer,  \* its timer: off, waiting, sleeping in nextVal, or stuck in stop()
  started, \* has run() made the queue?
  queue,  \* actuator_request_queue
  current,\* the request taken from it
  worker, \* where processActuatorCommands is
  alive,  \* the process has not been killed
  last,   \* for each value, what it was last set to, or started from
  bySet,  \* was that the last change of it?
  sets, applied \* requests so far, and those dealt with

valueVars == <<conf, step, actual, upcoming, holder, timer, started, queue, current,
               worker, alive, last, bySet, sets, applied>>

\* parseRegexp: a text has the generator it names, if any, one number or two,
\* and a step.  Two numbers are no constant; one number is nothing else.
Accepted(text) ==
  /\ Len(text.range) = 2 => text.generator \notin {"constant", "initial"}
  /\ text.generator = "initial" => text.actuator
Kind(text) == IF Len(text.range) = 1
              THEN IF text.generator = "initial" THEN "initial" ELSE "constant"
              ELSE IF text.generator = "none" THEN "linear" ELSE text.generator
Configured(text) == [kind |-> Kind(text), from |-> Head(text.range),
                     to |-> text.range[Len(text.range)], actuator |-> text.actuator]

ValueInit ==
  \E text \in [Values -> {t \in Texts : Accepted(t)}] :
    /\ conf   = [v \in Values |-> Configured(text[v])]
    /\ step   = [v \in Values |-> text[v].step]
    /\ actual = [v \in Values |-> conf[v].from] /\ last = actual
    /\ upcoming = [v \in Values |-> 0]
    /\ holder = [v \in Values |-> "none"] /\ timer = [v \in Values |-> "off"]
    /\ started = FALSE /\ queue = <<>> /\ current = <<>> /\ worker = "idle"
    /\ alive = TRUE /\ bySet = [v \in Values |-> FALSE]
    /\ sets = 0 /\ applied = 0

ValueTypeOK ==
  /\ actual \in [Values -> Int] /\ step \in [Values -> Int] /\ upcoming \in [Values -> Int]
  /\ holder \in [Values -> {"none", "timer", "worker"}]
  /\ timer \in [Values -> {"off", "waiting", "sleeping", "stuck"}]
  /\ started \in BOOLEAN /\ alive \in BOOLEAN
  /\ queue \in Seq(Values \X Requests) /\ current \in {<<>>} \cup (Values \X Requests)
  /\ worker \in {"idle", "took", "sleeping"}
  /\ sets \in 0..MaxSets /\ applied + Len(queue) + (IF current = <<>> THEN 0 ELSE 1) = sets

----------------------------------------------------------------------------
\* VirtualSensor::run: the queue, its thread, and the timers.
RunSensor ==
  /\ alive /\ ~started
  /\ started' = TRUE
  /\ timer' = [v \in Values |-> IF conf[v].kind = "initial" THEN "off" ELSE "waiting"]
  /\ UNCHANGED <<conf, step, actual, upcoming, holder, queue, current, worker, alive,
                 last, bySet, sets, applied>>

\* parseCmdFromServer; before run() the mutex and the queue are null pointers.
SetRequest(v, x) ==
  /\ alive /\ sets < MaxSets
  /\ IF started THEN queue' = Append(queue, <<v, x>>) /\ sets' = sets + 1 /\ UNCHANGED alive
                ELSE alive' = FALSE /\ UNCHANGED <<queue, sets>>
  /\ UNCHANGED <<conf, step, actual, upcoming, holder, timer, started, current, worker,
                 last, bySet, applied>>

\* processActuatorCommands; a value that is no actuator stays as it is.
TakeRequest ==
  /\ alive /\ started /\ worker = "idle" /\ queue # <<>>
  /\ queue' = Tail(queue)
  /\ IF conf[Head(queue)[1]].actuator
     THEN worker' = "took" /\ current' = Head(queue) /\ UNCHANGED applied
     ELSE applied' = applied + 1 /\ UNCHANGED <<worker, current>>
  /\ UNCHANGED <<conf, step, actual, upcoming, holder, timer, started, alive, last, bySet, sets>>

\* setNewVal: the lock, then the switch time, then the value.
BeginSet ==
  /\ alive /\ worker = "took" /\ holder[current[1]] = "none"
  /\ holder' = [holder EXCEPT ![current[1]] = "worker"]
  /\ worker' = "sleeping"
  /\ UNCHANGED <<conf, step, actual, upcoming, timer, started, queue, current, alive,
                 last, bySet, sets, applied>>

\* Faulty variant: setNewVal returns with the mutex locked.
EndSetLocked ==
  /\ alive /\ worker = "sleeping"
  /\ actual' = [actual EXCEPT ![current[1]] = current[2]]
  /\ last' = [last EXCEPT ![current[1]] = current[2]]
  /\ bySet' = [bySet EXCEPT ![current[1]] = TRUE]
  /\ current' = <<>> /\ worker' = "idle" /\ applied' = applied + 1
  /\ UNCHANGED <<conf, step, upcoming, holder, timer, started, queue, alive, sets>>

EndSet ==
  /\ alive /\ worker = "sleeping"
  /\ LET v == current[1]
     IN  /\ actual' = [actual EXCEPT ![v] = current[2]]
         /\ last' = [last EXCEPT ![v] = current[2]]
         /\ bySet' = [bySet EXCEPT ![v] = TRUE]
         /\ holder' = [holder EXCEPT ![v] = "none"]
  /\ current' = <<>> /\ worker' = "idle" /\ applied' = applied + 1
  /\ UNCHANGED <<conf, step, upcoming, timer, started, queue, alive, sets>>

----------------------------------------------------------------------------
\* if (f > t) swap(f,t)
Low(v)  == IF conf[v].from < conf[v].to THEN conf[v].from ELSE conf[v].to
High(v) == IF conf[v].from < conf[v].to THEN conf[v].to ELSE conf[v].from
Range(v) == Low(v)..High(v)

\* The next values a generator may come to; none for a random one of an empty range.
Generated(v) ==
  LET sum == actual[v] + step[v]
  IN  CASE conf[v].kind = "linear"   -> {sum}
        [] conf[v].kind = "triangle" -> {IF sum > High(v) THEN High(v)
                                         ELSE IF sum < Low(v) THEN Low(v) ELSE sum}
        [] conf[v].kind = "random"   -> Low(v)..(High(v) - 1)
        [] conf[v].kind = "constant" -> {actual[v]}

Overruns(v) == conf[v].kind \in {"linear", "triangle"} /\ actual[v] + step[v] \notin Range(v)

\* Faulty variant: nextVal reads the value without the mutex.
FireUnlocked(v) ==
  /\ alive /\ timer[v] = "waiting"
  /\ UNCHANGED <<conf, actual, holder, started, queue, current, worker, last, bySet, sets, applied>>

\* nextVal takes the mutex when the timer fires.
Fire(v) ==
  /\ alive /\ timer[v] = "waiting" /\ holder[v] = "none"
  /\ holder' = [holder EXCEPT ![v] = "timer"]
  /\ UNCHANGED <<conf, actual, started, queue, current, worker, last, bySet, sets, applied>>

Generate(v) ==
  /\ Fire(v) /\ ~(Overruns(v) /\ conf[v].kind = "linear")
  /\ \E x \in Generated(v) : upcoming' = [upcoming EXCEPT ![v] = x]
  /\ step' = [step EXCEPT ![v] = IF Overruns(v) THEN -@ ELSE @]
  /\ timer' = [timer EXCEPT ![v] = "sleeping"]
  /\ UNCHANGED alive

\* At its end a linear generator stops its timer, which waits for this call to
\* return; the mutex stays locked, and the final value is not stored.
GenerateNoMore(v) ==
  /\ Fire(v) /\ Overruns(v) /\ conf[v].kind = "linear"
  /\ timer' = [timer EXCEPT ![v] = "stuck"]
  /\ UNCHANGED <<step, upcoming, alive>>

\* rand() % 0
DivideByZero(v) ==
  /\ Fire(v) /\ Generated(v) = {}
  /\ alive' = FALSE
  /\ UNCHANGED <<step, upcoming, timer>>

\* The switch time is over: the value, then the unlock.
StoreNext(v) ==
  /\ alive /\ timer[v] = "sleeping"
  /\ actual' = [actual EXCEPT ![v] = upcoming[v]]
  /\ bySet' = [bySet EXCEPT ![v] = @ /\ conf[v].kind = "constant"]
  /\ holder' = [holder EXCEPT ![v] = "none"]
  /\ timer' = [timer EXCEPT ![v] = "waiting"]
  /\ UNCHANGED <<conf, step, upcoming, started, queue, current, worker, alive, last, sets, applied>>

ValueNext ==
  \/ RunSensor \/ TakeRequest \/ BeginSet \/ EndSet
  \/ \E v \in Values : \/ Generate(v) \/ GenerateNoMore(v) \/ DivideByZero(v) \/ StoreNext(v)
                       \/ \E x \in Requests : SetRequest(v, x)

\* The worker takes what is in the queue; switch times end; a mutex that is free
\* again and again is not kept from a thread for ever.
ValueFairness ==
  /\ WF_valueVars(TakeRequest) /\ WF_valueVars(EndSet) /\ SF_valueVars(BeginSet)
  /\ \A v \in Values : WF_valueVars(StoreNext(v))

ValueSpec == ValueInit /\ [][ValueNext]_valueVars /\ ValueFairness

----------------------------------------------------------------------------
\* nextVal leaves a value within its range, whichever way round the two ends are
\* given and wherever a request has put it (lines 71-108).
InRange == \A v \in Values : bySet[v] \/ actual[v] \in Range(v)

\* A value without a generator is what the last request made it: nextVal of a
\* constant cannot write back what it read before a request (lines 45-63, 66-111).
SetSticks ==
  \A v \in Values : conf[v].kind \in {"initial", "constant"} => actual[v] = last[v]

ActualIsRight == InRange /\ SetSticks

\* Every request of the server is dealt with (lines 29-66 of VirtualSensor.cpp),
\* unless a linear generator of the sensor has come to its end.
SetIsApplied ==
  \A n \in 1..MaxSets :
    sets = n ~> applied >= n \/ ~alive \/ \E v \in Values : timer[v] = "stuck"
==============================================================================
