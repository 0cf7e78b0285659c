--------------------------- MODULE ParameterExchange ---------------------------
(***************************************************************************)
(* Parameters (src/Parameters.cpp): questions to the server and answers to *)
(* its questions.  The Aggregator has one object, which the thread of the  *)
(* server's commands and the MQTT client's thread use without a lock; a    *)
(* module has one of its own.  Over TCP each answer of the server passes   *)
(* through parseCmd, and so through the Aggregator's object, before its    *)
(* caller gets it.                                                         *)
(***************************************************************************)
EXTENDS Integers, Sequences, SequencesExt

CONSTANTS
  AskIds,    \* identifiers that modules and MQTT messages ask for
  ServerIds, \* identifiers that the server asks for
  OverTCP,   \* the connection is IOTReceiver, not the WebSocket one
  MaxAsks,   \* bound: questions and commands
  MaxDepth   \* bound: commands within commands

GW_PING == 1000
GW_GET_ALL_DEVS == 1003
GW_END == 1006 \* "stopper don't use in protocol"
SRV == 2000 .. 2002

Users == {"command", "mqtt", "module"}
Objects == {"aggregator", "module"}
NoFrame == [does |-> "none", id |-> 0, object |-> "aggregator", at |-> "none",
            alone |-> TRUE, told |-> "none", about |-> 0]

VARIABLES
  shared,  \* msg of each object: its id (params) and its state
  calls,   \* for each thread, the calls it is in, the innermost last
  sent,    \* the last message: the call it was for and what it carried
  result,  \* the last result of askServer: the question, and the answer or FALSE
  ended,   \* the process is down: two threads were in euides at once
  asks

exchangeVars == <<shared, calls, sent, result, ended, asks>>

ExchangeTypeOK ==
  /\ \A o \in Objects : shared[o].id \in Nat /\ shared[o].state \in {"getparameters", "parameters"}
  /\ \A t \in Users : Len(calls[t]) <= MaxDepth + 1
  /\ ended \in BOOLEAN /\ asks \in 0 .. MaxAsks

ExchangeInit ==
  /\ shared = [o \in Objects |-> [id |-> 0, state |-> "getparameters"]]
  /\ calls = [t \in Users |-> <<>>]
  /\ sent = [call |-> NoFrame, id |-> 0, state |-> "getparameters"]
  /\ result = [call |-> NoFrame, ok |-> FALSE, id |-> 0]
  /\ ended = FALSE /\ asks = 0

InCall(t, place) == calls[t] # <<>> /\ Last(calls[t]).at = place
Uses(t, o) == \E i \in DOMAIN calls[t] : calls[t][i].object = o /\ calls[t][i].at \in {"state", "send"}

\* A call begins: it is disturbed by, and disturbs, one that is filling in the same object.
Enter(t, does, id, object, place) ==
  [calls EXCEPT ![t] = Append(@, [NoFrame EXCEPT !.does = does, !.id = id, !.object = object, !.at = place])]

At(t, place) == [calls EXCEPT ![t] = Append(Front(@), [Last(@) EXCEPT !.at = place])]

\* Every other thread that has begun to fill in the object is disturbed.
Disturb(cs, t, o) ==
  [u \in Users |-> IF u = t THEN cs[u]
                   ELSE [i \in DOMAIN cs[u] |->
                          IF cs[u][i].object = o /\ cs[u][i].at \in {"state", "send"}
                          THEN [cs[u][i] EXCEPT !.alone = FALSE] ELSE cs[u][i]]]

-----------------------------------------------------------------------------
\* askServer: a module asks with an object of its own, MQTT with the Aggregator's.  An id
\* that is out of range comes back at once.
Ask(t) ==
  /\ t \in {"mqtt", "module"} /\ calls[t] = <<>> /\ asks < MaxAsks /\ asks' = asks + 1
  /\ \E id \in AskIds :
       LET o == IF t = "mqtt" THEN "aggregator" ELSE "module"
       IN  IF id < GW_PING \/ id > GW_END
           THEN /\ result' = [call |-> [NoFrame EXCEPT !.does = "ask", !.id = id], ok |-> FALSE, id |-> id]
                /\ UNCHANGED calls
           ELSE calls' = Enter(t, "ask", id, o, "params") /\ UNCHANGED result
  /\ UNCHANGED <<shared, sent, ended>>

\* What parseCmd makes of a command: parameters are answered or noted, anything else is not
\* of interest here.  It is the last command of the chain if that is as long as may be.
Parsed(cs, t, state, id) ==
  CASE state = "getparameters" /\ id \in SRV ->
         [cs EXCEPT ![t] = Append(@, [NoFrame EXCEPT !.does = "reply", !.id = id, !.at = "params"])]
    [] state = "parameters" /\ id = GW_GET_ALL_DEVS ->
         [cs EXCEPT ![t] = Append(@, [NoFrame EXCEPT !.does = "list", !.id = id, !.at = "list"])]
    [] OTHER -> cs

\* A command of the server; one of an old version of the protocol has no effect, either.
FromServer ==
  /\ calls["command"] = <<>> /\ asks < MaxAsks /\ asks' = asks + 1
  /\ \E id \in ServerIds \union {GW_GET_ALL_DEVS}, state \in {"getparameters", "parameters"} :
       calls' = Parsed(calls, "command", state, id)
  /\ UNCHANGED <<shared, sent, result, ended>>

\* msg.params = ...
SetParams(t) ==
  /\ InCall(t, "params")
  /\ LET f == Last(calls[t])
         met == \E u \in Users \ {t} : Uses(u, f.object)
         cs == Disturb(At(t, "state"), t, f.object)
     IN  /\ shared' = [shared EXCEPT ![f.object].id = f.id]
         /\ calls' = IF met THEN [cs EXCEPT ![t] = Append(Front(@), [Last(@) EXCEPT !.alone = FALSE])]
                     ELSE cs
  /\ UNCHANGED <<sent, result, ended, asks>>

\* Faulty variant: a question relies on the state that the constructor has set.
SetStateOfReply(t) ==
  /\ InCall(t, "state")
  /\ LET f == Last(calls[t])
     IN  shared' = IF f.does = "ask" THEN shared
                   ELSE [shared EXCEPT ![f.object].state = "parameters"]
  /\ calls' = At(t, "send")
  /\ UNCHANGED <<sent, result, ended, asks>>

\* msg.state = ...
SetState(t) ==
  /\ InCall(t, "state")
  /\ LET f == Last(calls[t])
     IN  shared' = [shared EXCEPT ![f.object].state =
                      IF f.does = "ask" THEN "getparameters" ELSE "parameters"]
  /\ calls' = At(t, "send")
  /\ UNCHANGED <<sent, result, ended, asks>>

\* agg.sendData(msg): it takes a copy.
SendData(t) ==
  /\ InCall(t, "send")
  /\ LET f == Last(calls[t])
     IN  sent' = [call |-> f, id |-> shared[f.object].id, state |-> shared[f.object].state]
  /\ LET o == Last(calls[t]).object
     IN  calls' = [calls EXCEPT ![t] = Append(Front(@),
                     [Last(@) EXCEPT !.at = "wait", !.told = shared[o].state, !.about = shared[o].id])]
  /\ UNCHANGED <<shared, result, ended, asks>>

\* The server's answers: to a question its parameters, or a question of its own; to anything
\* else, something that is no parameters.  It may not answer.
Answers(f) ==
  {[state |-> "none", id |-> 0], [state |-> "other", id |-> 0]}
    \union {[state |-> "getparameters", id |-> i] : i \in ServerIds}
    \union (IF f.told = "getparameters" THEN {[state |-> "parameters", id |-> f.about]} ELSE {})

\* The answer has come, or none; over TCP it is parsed as a command first, if its version
\* of the protocol is not an old one.  (The gateway's own version never is.)
Answer(t) ==
  /\ InCall(t, "wait")
  /\ \E a \in Answers(Last(calls[t])) :
       LET back == [calls EXCEPT ![t] = Append(Front(@),
                      [Last(@) EXCEPT !.at = "return", !.told = a.state, !.about = a.id])]
       IN  /\ OverTCP /\ a.state = "getparameters" => Len(calls[t]) < MaxDepth
           /\ calls' = back \/ (OverTCP /\ calls' = Parsed(back, t, a.state, a.id))
  /\ UNCHANGED <<shared, sent, result, ended, asks>>

Accepts(f) == f.told = "parameters"

Return(t) ==
  /\ InCall(t, "return")
  /\ LET f == Last(calls[t])
     IN  result' = IF f.does = "ask"
                   THEN [call |-> f, ok |-> Accepts(f), id |-> IF Accepts(f) THEN f.about ELSE f.id]
                   ELSE result
  /\ calls' = [calls EXCEPT ![t] = Front(@)]
  /\ UNCHANGED <<shared, sent, ended, asks>>

\* allsensors: euides is cleared and filled again, by any thread.
AllSensors(t) ==
  /\ InCall(t, "list")
  /\ calls' = [calls EXCEPT ![t] = Front(@)]
  /\ UNCHANGED <<shared, sent, result, ended, asks>>

\* Two at once change one vector: the process may not survive it.
EuidesCollide ==
  /\ \E t, u \in Users : t # u /\ InCall(t, "list") /\ InCall(u, "list")
  /\ ended' = TRUE /\ calls' = [t \in Users |-> <<>>] /\ asks' = MaxAsks
  /\ UNCHANGED <<shared, sent, result>>

ExchangeNext ==
  \/ FromServer \/ EuidesCollide
  \/ \E t \in Users :
       \/ Ask(t) \/ SetParams(t) \/ SetState(t) \/ SendData(t) \/ Answer(t) \/ Return(t) \/ AllSensors(t)

ExchangeSpec == ExchangeInit /\ [][ExchangeNext]_exchangeVars

-----------------------------------------------------------------------------
\* A message to the server carries the question or the answer of the call that sends it, and
\* whoever asks gets the answer to its own question, also after an answer of the server that
\* was a question itself.  The exception is two threads in the Aggregator's object at once
\* (Parameters.cpp:66-70, 112-124).
AnswersAreOwn ==
  /\ sent.call.alone =>
       /\ sent.id = sent.call.id
       /\ sent.state = IF sent.call.does = "reply" THEN "parameters" ELSE "getparameters"
  /\ result.ok /\ result.call.alone => result.id = result.call.id
==============================================================================
