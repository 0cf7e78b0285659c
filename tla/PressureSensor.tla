---------------------------- MODULE PressureSensor ----------------------------
(***************************************************************************)
(* How often the pressure sensor reports (src/PressureSensor.cpp).  The    *)
(* module's thread obtains the refresh time from the server, reports, and  *)
(* counts seconds in wake_up_counter; the thread that brings the server's  *)
(* commands changes wake_up_time and wake_up_counter, without a lock.      *)
(***************************************************************************)
EXTENDS Integers

CONSTANTS
  Refreshes,  \* what the server may set, also what is out of range
  Longest,    \* SECONDS_IN_DAY
  Default,    \* the first wake_up_time, at most Longest
  MaxChanges  \* bound: set commands

VARIABLES
  wakeTime,    \* wake_up_time
  counter,     \* wake_up_counter
  obtained,    \* send_wake_up_flag
  pspc,        \* where threadFunction is
  counted,     \* wake_up_counter as read by the increment
  writing,     \* what the command's thread has still to write to the counter
  chosen,      \* the last refresh time that a command set
  late,        \* the server had not yet answered the question for it at the time
  since,       \* seconds slept since then, in the same wait or before
  missed,      \* the module's thread was not waiting at the time, or was incrementing,
               \* or has changed the refresh time as well
  changes      \* counter for the bound

pressureVars == <<wakeTime, counter, obtained, pspc, counted, writing, chosen, late,
                  since, missed, changes>>

InTime  == 1..Longest
Never   == -1

PressureTypeOK ==
  /\ wakeTime \in InTime /\ counter \in 0..(Longest + 1) /\ obtained \in BOOLEAN
  /\ pspc \in {"first", "firstAsked", "begin", "asked", "report", "zero", "test", "sleep", "count"}
  /\ counted \in 0..Longest /\ writing \subseteq InTime
  /\ chosen \subseteq InTime /\ late \in BOOLEAN /\ missed \in BOOLEAN
  /\ since \in {Never} \cup Nat /\ changes \in 0..MaxChanges

PressureInit ==
  /\ wakeTime = Default /\ counter \in 0..Longest \* uninitialized
  /\ obtained = FALSE /\ pspc = "first" /\ counted = 0 /\ writing = {}
  /\ chosen = {} /\ late = FALSE /\ since = Never /\ missed = FALSE /\ changes = 0

-----------------------------------------------------------------------------
(* The module's thread. *)

Goes(from, to) == pspc = from /\ pspc' = to

\* obtainRefreshTime asks: once before the loop, then in each round until there
\* was an answer.
Ask ==
  /\ Goes("first", "firstAsked") \/ (~obtained /\ Goes("begin", "asked"))
  /\ UNCHANGED <<wakeTime, counter, obtained, counted, writing, chosen, late, since, missed, changes>>

\* No answer, or none that stoi can read.
AnswerFails ==
  /\ Goes("firstAsked", "begin") \/ Goes("asked", "report")
  /\ UNCHANGED <<wakeTime, counter, obtained, counted, writing, chosen, late, since, missed, changes>>

\* What the server remembers, of whatever age; or it has none, or one out of range.
Obtain ==
  /\ Goes("firstAsked", "begin") \/ Goes("asked", "report")
  /\ obtained' = TRUE
  /\ \/ UNCHANGED <<wakeTime, counter>>
     \/ \E n \in InTime : wakeTime' = n /\ counter' = n
  /\ UNCHANGED <<counted, writing, chosen, late, since, missed, changes>>

GoOn ==
  /\ obtained /\ Goes("begin", "report")
  /\ UNCHANGED <<wakeTime, counter, obtained, counted, writing, chosen, late, since, missed, changes>>

\* The value goes out, if it could be read; the server's answer may set the refresh time.
Report ==
  /\ Goes("report", "zero")
  /\ since' = Never
  /\ \/ UNCHANGED <<wakeTime, counter, chosen, late, changes>>
     \/ /\ changes < MaxChanges /\ changes' = changes + 1
        /\ \E n \in Refreshes \cap InTime :
             wakeTime' = n /\ counter' = n /\ chosen' = {n} /\ late' = ~obtained
  /\ UNCHANGED <<obtained, counted, writing, missed>>

\* The wait: a second at a time, and the increment in two steps.
StartWait ==
  /\ Goes("zero", "test")
  /\ counter' = 0
  /\ UNCHANGED <<wakeTime, obtained, counted, writing, chosen, late, since, missed, changes>>

Test ==
  /\ Goes("test", IF counter < wakeTime THEN "sleep" ELSE "begin")
  /\ since' = IF counter < wakeTime THEN since ELSE Never
  /\ UNCHANGED <<wakeTime, counter, obtained, counted, writing, chosen, late, missed, changes>>

Sleep ==
  /\ Goes("sleep", "count")
  /\ counted' = counter /\ since' = IF since = Never THEN Never ELSE since + 1
  /\ UNCHANGED <<wakeTime, counter, obtained, writing, chosen, late, missed, changes>>

Count ==
  /\ Goes("count", "test")
  /\ counter' = counted + 1
  /\ UNCHANGED <<wakeTime, obtained, counted, writing, chosen, late, since, missed, changes>>

-----------------------------------------------------------------------------
(* A set command: setNewRefresh on the thread of the commands. *)

SetWakeTime ==
  /\ writing = {} /\ changes < MaxChanges /\ changes' = changes + 1
  /\ \E n \in Refreshes :
       IF n \in InTime
       THEN /\ wakeTime' = n /\ writing' = {n} /\ since' = Never
            /\ chosen' = {n} /\ late' = ~obtained
       ELSE UNCHANGED <<wakeTime, writing, since, chosen, late>>
  /\ UNCHANGED <<counter, obtained, pspc, counted, missed>>

\* Faulty variant: only the limit of the wait changes.
SetNoCounter ==
  /\ writing # {} /\ writing' = {}
  /\ since' = 0 /\ missed' = (pspc \notin {"test", "sleep"} \/ writing # {wakeTime})
  /\ UNCHANGED <<wakeTime, counter, obtained, pspc, counted, chosen, late, changes>>

SetCounter ==
  /\ \E n \in writing : counter' = n
  /\ writing' = {}
  /\ since' = 0 /\ missed' = (pspc \notin {"test", "sleep"} \/ writing # {wakeTime})
  /\ UNCHANGED <<wakeTime, obtained, pspc, counted, chosen, late, changes>>

PressureNext ==
  \/ Ask \/ AnswerFails \/ Obtain \/ GoOn \/ Report \/ StartWait \/ Test \/ Sleep \/ Count
  \/ SetWakeTime \/ SetCounter

PressureSpec == PressureInit /\ [][PressureNext]_pressureVars

-----------------------------------------------------------------------------
\* A refresh time that a command sets stays, unless the module had still to obtain
\* the one the server remembers, and the answer puts that in its place
\* (lines 42-47, 155-166, 187-188).
ChosenIsKept == ~late => chosen \subseteq {wakeTime}

\* Once a command has changed the refresh time in a wait, the wait ends
\* after at most the second that is being slept (lines 59-63, 163-164); after the new
\* time, if the command came outside the wait, if its write to the counter was lost, or
\* if both threads changed the time.
NewTimeCounts == since <= (IF missed THEN wakeTime ELSE 1)

RefreshIsObeyed == ChosenIsKept /\ NewTimeCounts
==============================================================================
