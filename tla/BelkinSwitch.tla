----------------------------- MODULE BelkinSwitch -----------------------------
(***************************************************************************)
(* The Belkin WeMo switch (src/Belkin_WeMo.cpp): the module's thread asks  *)
(* the switch for its state every minute and tells the server; the thread  *)
(* of the server's commands sets the switch, asks for its state and tells  *)
(* the server too.  Both append to sensor.values, which is never cleared,  *)
(* and both use msg, without a lock.  A switch that does not answer makes  *)
(* getState throw.                                                         *)
(***************************************************************************)
EXTENDS Integers, Sequences, SequencesExt

CONSTANTS
  MaxTells,  \* bound: messages to the server
  MaxSets,   \* bound: set commands
  MaxHands   \* bound: changes of the switch by hand

Askers == {"module", "command"}
Unknown == 2 \* no value of a switch

VARIABLES
  wemo,       \* the state of the switch
  values,     \* sensor.values
  bkpc,       \* where each thread is: rest, ask, push, write (in push_back), send, gone
  answer,     \* the state that getState returned
  length,     \* the length of the vector as push_back read it
  terminated, \* the process has ended: an uncaught exception, or a race in the vector
  view,       \* what the server has last been told
  clean,      \* threads whose round nobody has disturbed so far
  settled,    \* the last that was told was of such a round, and nothing was switched since
  tells, sets, hands

belkinVars ==
  <<wemo, values, bkpc, answer, length, terminated, view, clean, settled, tells, sets, hands>>

OtherAsker(t) == IF t = "module" THEN "command" ELSE "module"

BelkinTypeOK ==
  /\ wemo \in {0, 1} /\ values \in Seq({0, 1}) /\ Len(values) <= tells + 2
  /\ bkpc \in [Askers -> {"rest", "ask", "push", "write", "send", "gone"}]
  /\ answer \in [Askers -> {0, 1}] /\ length \in [Askers -> Nat]
  /\ terminated \in BOOLEAN /\ view \in {0, 1, Unknown} /\ clean \subseteq Askers
  /\ settled \in BOOLEAN

\* The module's thread has been started, and begins with a round.
BelkinInit ==
  /\ wemo \in {0, 1} /\ values = <<>>
  /\ bkpc = [t \in Askers |-> IF t = "module" THEN "ask" ELSE "rest"]
  /\ answer = [t \in Askers |-> 0] /\ length = [t \in Askers |-> 0]
  /\ terminated = FALSE /\ view = Unknown /\ clean = {"module"} /\ settled = FALSE
  /\ tells = 0 /\ sets = 0 /\ hands = 0

Goes(t, from, to) == ~terminated /\ bkpc[t] = from /\ bkpc' = [bkpc EXCEPT ![t] = to]

\* A round is disturbed by one of the other thread that overlaps it.
BeginRound(t) == clean' = IF bkpc[OtherAsker(t)] \in {"rest", "gone"} THEN {t} ELSE {}

-----------------------------------------------------------------------------
\* Somebody switches it.
ByHand ==
  /\ ~terminated /\ hands < MaxHands /\ hands' = hands + 1
  /\ wemo' = 1 - wemo /\ clean' = {} /\ settled' = FALSE
  /\ UNCHANGED <<values, bkpc, answer, length, terminated, view, tells, sets>>

\* The minute is over.
Wake ==
  /\ tells < MaxTells /\ Goes("module", "rest", "ask") /\ BeginRound("module")
  /\ UNCHANGED <<wemo, values, answer, length, terminated, view, settled, tells, sets, hands>>

\* A set command: turnOn, turnOff, or neither for any other value.
Command ==
  /\ sets < MaxSets /\ sets' = sets + 1
  /\ Goes("command", "rest", "ask") /\ BeginRound("command")
  /\ wemo' \in {0, 1} /\ settled' = FALSE
  /\ UNCHANGED <<values, answer, length, terminated, view, tells, hands>>

\* getState: what is told is what the switch says, not what it was set to.
GetState(t) ==
  /\ Goes(t, "ask", "push")
  /\ answer' = [answer EXCEPT ![t] = wemo]
  /\ UNCHANGED <<wemo, values, length, terminated, view, clean, settled, tells, sets, hands>>

\* HTTP fails, or the answer cannot be read.  The module's thread catches nothing.  In a
\* command the exception leaves parseCmd: it ends the process (TCP's dispatcher), ends the
\* receiving thread, or lets it go on (WebSocket, when it is a time-out or a network error).
GetStateThrows(t) ==
  /\ ~terminated /\ bkpc[t] = "ask"
  /\ \/ terminated' = TRUE /\ UNCHANGED bkpc
     \/ /\ t = "command" /\ UNCHANGED terminated
        /\ \E then \in {"rest", "gone"} : bkpc' = [bkpc EXCEPT ![t] = then]
  /\ UNCHANGED <<wemo, values, answer, length, view, clean, settled, tells, sets, hands>>

\* push_back, in two steps: of two at the same time, one may overwrite the other, and the
\* vector has the length that the last one makes it (what an old slot holds is never read).
PushBegin(t) ==
  /\ Goes(t, "push", "write")
  /\ length' = [length EXCEPT ![t] = Len(values)]
  /\ UNCHANGED <<wemo, values, answer, terminated, view, clean, settled, tells, sets, hands>>

PushEnd(t) ==
  /\ Goes(t, "write", "send")
  /\ values' = Append([i \in 1 .. length[t] |-> IF i <= Len(values) THEN values[i] ELSE 0],
                      answer[t])
  /\ UNCHANGED <<wemo, answer, length, terminated, view, clean, settled, tells, sets, hands>>

\* Both in the vector, or both filling msg: memory that moves under one of them.
Collide ==
  /\ ~terminated /\ \A t \in Askers : bkpc[t] \in {"write", "send"}
  /\ terminated' = TRUE
  /\ UNCHANGED <<wemo, values, bkpc, answer, length, view, clean, settled, tells, sets, hands>>

\* The whole vector goes to the server; its last value is the news.
SendData(t) ==
  /\ Goes(t, "send", "rest")
  /\ tells' = tells + 1 /\ view' = Last(values) /\ settled' = (t \in clean)
  /\ UNCHANGED <<wemo, values, answer, length, terminated, clean, sets, hands>>

AskAndTell(t) == GetState(t) \/ PushBegin(t) \/ PushEnd(t) \/ SendData(t)

BelkinNext ==
  \/ ByHand \/ Wake \/ Command \/ Collide
  \/ \E t \in Askers : AskAndTell(t) \/ GetStateThrows(t)

BelkinSpec == BelkinInit /\ [][BelkinNext]_belkinVars

-----------------------------------------------------------------------------
\* When a round has ended that no other round and no hand has disturbed, the server knows
\* the state of the switch, also after a set command (Belkin_WeMo.cpp:37-53, 154-177).
ServerKnowsSwitch == settled => view = wemo
==============================================================================
