----------------------------- MODULE Distributor -----------------------------
(***************************************************************************)
(* The Distributor hands sensor messages to local listeners (MQTT and the  *)
(* "geek" pipe): addNewMessage, findIfExists and run of                    *)
(* src/Distributor.cpp.                                                    *)
(*                                                                         *)
(* Its callers are the threads in Aggregator::sendData.  sendData gives a  *)
(* message to the Distributor after every attempt to send it: first on the *)
(* thread of its module, then, if it went to the cache, on the Aggregator's*)
(* thread, perhaps with a corrected time.  An entry is the pair of a       *)
(* message and its time; two messages differ in the fields that            *)
(* findIfExists compares.                                                  *)
(***************************************************************************)
EXTENDS Integers, Sequences, SequencesExt

CONSTANTS
  Msgs,          \* data messages (others are discarded at the first line)
  Times,         \* time stamps
  FirstTime,     \* [Msgs -> Times]: the time stamp of the first attempt
  LaterTime,     \* [Msgs -> Times]: that of the later ones
  None,          \* not a message
  MaxRetries     \* bound: attempts by the Aggregator's thread

ASSUME TimesAssumption   == FirstTime \in [Msgs -> Times] /\ LaterTime \in [Msgs -> Times]
ASSUME BoundAssumption   == MaxRetries \in Nat
ASSUME ThreadsAssumption == None \notin Msgs

Agg     == None            \* the Aggregator's thread, named by no message
Threads == Msgs \cup {Agg} \* each message has a module's thread of its own

VARIABLES
  pc,       \* where each thread is in addNewMessage
  arg,      \* the entry it was called with
  retries,  \* calls made by the Aggregator's thread (for the bound)
  pending,  \* pending_msgs
  history,  \* for each time the messages of the multimap, oldest first
  sending,  \* does run() hold pending_lock to send the front of pending?
  sent,     \* the entries handed to MQTT and the pipe, in order
  refused,  \* entries whose tryLock on pending_lock ran out of time
  missed,   \* entries whose tryLock on history_lock did
  raced     \* entries not found while another call was about to record them

vars == <<pc, arg, retries, pending, history, sending, sent, refused, missed, raced>>

Entries == Msgs \X Times
Pcs == {"new", "find", "reading", "push", "record", "inserting", "done"}

TypeOK ==
  /\ pc \in [Threads -> Pcs]
  /\ arg \in [Threads -> Entries \cup {<<>>}]
  /\ retries \in 0..MaxRetries
  /\ pending \in Seq(Entries) /\ sent \in Seq(Entries)
  /\ history \in [Times -> Seq(Msgs)]
  /\ sending \in BOOLEAN /\ (sending => pending # <<>>)
  /\ refused \subseteq Entries /\ missed \subseteq Entries /\ raced \subseteq Entries

Init ==
  /\ pc = [t \in Threads |-> "new"] /\ arg = [t \in Threads |-> <<>>]
  /\ retries = 0
  /\ pending = <<>> /\ sent = <<>> /\ refused = {} /\ missed = {} /\ raced = {}
  /\ history = [x \in Times |-> <<>>]
  /\ sending = FALSE

Goto(t, l) == pc' = [pc EXCEPT ![t] = l]

Busy(t) == pc[t] \notin {"new", "done"}

Queued == ToSet(sent \o pending)

-----------------------------------------------------------------------------
(* Calls. *)

\* The end of the first sendData; the message may be in the cache already.
Call(m) ==
  /\ pc[m] = "new"
  /\ Goto(m, "find")
  /\ arg' = [arg EXCEPT ![m] = <<m, FirstTime[m]>>]
  /\ UNCHANGED <<retries, pending, history, sending, sent, refused, missed, raced>>

\* The Aggregator's thread has tried again to send a message from the cache.
\* sendData caches it before it calls addNewMessage (Aggregator.cpp:250, 256).
CallAgain(m) ==
  /\ ~Busy(Agg) /\ pc[m] # "new"
  /\ retries < MaxRetries /\ retries' = retries + 1
  /\ Goto(Agg, "find")
  /\ arg' = [arg EXCEPT ![Agg] = <<m, LaterTime[m]>>]
  /\ UNCHANGED <<pending, history, sending, sent, refused, missed, raced>>

-----------------------------------------------------------------------------
(* Distributor::addNewMessage. *)

\* findIfExists takes no lock.
FindBegin(t) ==
  /\ pc[t] = "find" /\ Goto(t, "reading")
  /\ UNCHANGED <<arg, retries, pending, history, sending, sent, refused, missed, raced>>

\* Faulty variant: nothing is ever found.
NotFound(entry) == FALSE

\* The loop returns in its first round: only the oldest entry with this time
\* is compared.
Exists(entry) ==
  LET same == history[entry[2]]
  IN  same # <<>> /\ Head(same) = entry[1]

Inserting(t) == \E u \in Threads \ {t} : pc[u] = "inserting"

\* Does another call, past its own search, still have this entry to record?
Racing(t) ==
  \E u \in Threads \ {t} : arg[u] = arg[t] /\ pc[u] \in {"push", "record", "inserting"}

\* A walk over the tree that overlaps an insertion may miss the entry.
FindEnd(t) ==
  /\ pc[t] = "reading"
  /\ \/ Exists(arg[t]) /\ Goto(t, "done") /\ UNCHANGED raced
     \/ /\ Exists(arg[t]) => Inserting(t)
        /\ Goto(t, "push")
        /\ raced' = IF Racing(t) \/ Inserting(t) THEN raced \cup {arg[t]} ELSE raced
  /\ UNCHANGED <<arg, retries, pending, history, sending, sent, refused, missed>>

Push(t) ==
  /\ pc[t] = "push" /\ ~sending
  /\ pending' = Append(pending, arg[t])
  /\ Goto(t, "record")
  /\ UNCHANGED <<arg, retries, history, sending, sent, refused, missed, raced>>

\* tryLock(2000) fails: run() holds pending_lock while it sends.
PushRefused(t) ==
  /\ pc[t] = "push" /\ sending
  /\ refused' = refused \cup {arg[t]}
  /\ Goto(t, "record")
  /\ UNCHANGED <<arg, retries, pending, history, sending, sent, missed, raced>>

\* Faulty variant: a message that was queued is not recorded.
RecordNothing(t) ==
  /\ pc[t] = "inserting" /\ Goto(t, "done")
  /\ UNCHANGED <<arg, retries, pending, history, sending, sent, refused, missed, raced>>

RecordBegin(t) ==
  /\ pc[t] = "record" /\ ~Inserting(t)
  /\ Goto(t, "inserting")
  /\ UNCHANGED <<arg, retries, pending, history, sending, sent, refused, missed, raced>>

\* tryLock(2000) fails: another call holds history_lock while it inserts.
RecordRefused(t) ==
  /\ pc[t] = "record" /\ Inserting(t)
  /\ missed' = missed \cup {arg[t]}
  /\ Goto(t, "done")
  /\ UNCHANGED <<arg, retries, pending, history, sending, sent, refused, raced>>

RecordEnd(t) ==
  /\ pc[t] = "inserting"
  /\ LET e == arg[t] IN history' = [history EXCEPT ![e[2]] = Append(@, e[1])]
  /\ Goto(t, "done")
  /\ UNCHANGED <<arg, retries, pending, sending, sent, refused, missed, raced>>

-----------------------------------------------------------------------------
(* Distributor::run. *)

SendBegin ==
  /\ pending # <<>> /\ ~sending
  /\ sending' = TRUE
  /\ UNCHANGED <<pc, arg, retries, pending, history, sent, refused, missed, raced>>

\* Faulty variant: the queue is cleared after one message.
SendAndClear ==
  /\ sending
  /\ sent' = Append(sent, Head(pending)) /\ pending' = <<>>
  /\ sending' = FALSE
  /\ UNCHANGED <<pc, arg, retries, history, refused, missed, raced>>

\* The message is popped whether or not MQTT and the pipe took it.
SendEnd ==
  /\ sending
  /\ sent' = Append(sent, Head(pending)) /\ pending' = Tail(pending)
  /\ sending' = FALSE
  /\ UNCHANGED <<pc, arg, retries, history, refused, missed, raced>>

AddNewMessage(t) ==
  \/ FindBegin(t) \/ FindEnd(t)
  \/ Push(t) \/ PushRefused(t)
  \/ RecordBegin(t) \/ RecordRefused(t) \/ RecordEnd(t)

Next ==
  \/ \E m \in Msgs : Call(m) \/ CallAgain(m)
  \/ \E t \in Threads : AddNewMessage(t)
  \/ SendBegin \/ SendEnd

Spec == Init /\ [][Next]_vars

\* A thread inside addNewMessage goes on (it never waits without a time-out);
\* run() keeps looping.
FairSpec ==
  Spec /\ WF_vars(SendBegin \/ SendEnd) /\ \A t \in Threads : WF_vars(AddNewMessage(t))

-----------------------------------------------------------------------------
\* A queued entry is recorded, so that a later attempt finds it, or its caller is on the
\* way to do so.  Otherwise a call with it could not have history_lock
\* (Distributor.cpp:99-116).
QueuedIsRecorded ==
  \A e \in Queued :
    \/ e[1] \in ToSet(history[e[2]])
    \/ \E t \in Threads : arg[t] = e /\ pc[t] \in {"record", "inserting"}
    \/ e \in missed

\* A message that was given to the Distributor reaches the listeners, unless
\* pending_lock could not be had (Distributor.cpp:87-117).
ReachesListeners ==
  \A m \in Msgs : (pc[m] = "find") ~>
    (<<m, FirstTime[m]>> \in ToSet(sent) \cup refused)

\* "This message is already in history queue - won't add that."
\* (Distributor.cpp:95) does not hold as it stands.  An entry is queued again only if
\* another message of the same second hides it from findIfExists, a second call looked
\* for it before the first had recorded it, or a call could not record it
\* (Distributor.cpp:94-117, 119-137).
RepeatHasCause ==
  LET all == sent \o pending
  IN  \A i, j \in DOMAIN all :
        (i < j /\ all[i] = all[j]) =>
          \/ all[i] \in raced \cup missed
          \/ \E m \in ToSet(history[all[i][2]]) : m # all[i][1]
==============================================================================
