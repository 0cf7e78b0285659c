------------------------- MODULE WebSocketConnection -------------------------
(***************************************************************************)
(* The WebSocket variant of the connection to the server:                  *)
(* src/WebSocketServerConnection.cpp.  Module threads call sendToServer    *)
(* and wait, second by second, for the response that carries their request *)
(* id; one receive thread connects, registers the gateway, reads frames,   *)
(* files responses and runs the server's commands itself.                  *)
(*                                                                         *)
(* Every request has a serial number the code knows nothing of: it tells   *)
(* two requests with the same id apart.  A frame is a whole message; how a *)
(* message is put together from frames is the subject of WebSocketFrames.  *)
(***************************************************************************)
EXTENDS Integers, Sequences, FiniteSets

CONSTANTS
  Modules,     \* threads of the sensor modules
  Recv,        \* the receive thread; it sends requests inside commands
  Tries,       \* MAX_WAIT_FOR_RESPONSE_TIME
  IdLimit,     \* number of values of request_id_t (2^32)
  StartIds,    \* m_current_request_id at the start: {0} after construction
  MaxRequests, \* bound: requests sent
  MaxCommands, \* bound: commands of the server
  MaxDrops     \* bound: losses of the connection

ASSUME ThreadAssumption == Recv \notin Modules
ASSUME TriesAssumption  == Tries \in Nat \ {0}
ASSUME IdAssumption     == IdLimit \in Nat \ {0, 1} /\ StartIds \subseteq 0..(IdLimit - 1)
ASSUME BoundAssumption  == {MaxRequests, MaxCommands, MaxDrops} \subseteq Nat

Threads == Modules \cup {Recv}

VARIABLES
  current,   \* m_current_request_id
  pending,   \* m_pending_requests
  responses, \* m_responses: <<id, serial of the request it answers>>
  pc,        \* where each thread is in sendToServer
  id,        \* its request_id
  serial,    \* the serial number of its request, 0 if it never had one
  tries,     \* its try_count
  answer,    \* serial of the response it took, 0 if none
  requests,  \* serial numbers given out
  sock,      \* m_socket, and whether initConnection holds m_init_mutex
  first,     \* the first message the gateway sent on this connection
  inbox,     \* requests at the server, not answered yet
  frames,    \* frames on their way to the gateway
  command,   \* is the receive thread inside parseCmd?
  late,      \* requests whose answer was filed between their caller's last look and requestDone
  commands, drops \* counters for the bounds

callVars == <<current, pending, pc, id, serial, tries, requests>>
netVars  == <<sock, first, inbox, frames>>
vars == <<current, pending, responses, pc, id, serial, tries, answer, requests,
          sock, first, inbox, frames, command, late, commands, drops>>

Pcs    == {"idle", "prepare", "send", "failed", "check", "found", "last", "sleep"}
Socks  == {"none", "opening", "fresh", "open", "broken"}
Ids    == 0..(IdLimit - 1)
Serials == 1..MaxRequests
Frames == [kind : {"response"}, id : Ids, of : Serials] \cup [kind : {"command"}]

TypeOK ==
  /\ current \in Ids /\ pending \subseteq Ids
  /\ responses \subseteq Ids \X Serials
  /\ \A r, q \in responses : r[1] = q[1] => r = q
  /\ pc \in [Threads -> Pcs] /\ id \in [Threads -> Ids]
  /\ serial \in [Threads -> 0..MaxRequests] /\ tries \in [Threads -> 0..Tries]
  /\ answer \in [Threads -> 0..MaxRequests]
  /\ requests \in 0..MaxRequests
  /\ sock \in Socks /\ first \in {"nothing", "register", "request", "ack"}
  /\ inbox \subseteq Ids \X Serials /\ frames \in Seq(Frames)
  /\ command \in BOOLEAN /\ late \subseteq Serials
  /\ commands \in 0..MaxCommands /\ drops \in 0..MaxDrops
  /\ pc[Recv] # "idle" => command

Init ==
  /\ current \in StartIds /\ pending = {} /\ responses = {}
  /\ pc = [t \in Threads |-> "idle"] /\ id = [t \in Threads |-> 0]
  /\ serial = [t \in Threads |-> 0] /\ tries = [t \in Threads |-> 0]
  /\ answer = [t \in Threads |-> 0] /\ requests = 0
  /\ sock = "none" /\ first = "nothing" /\ inbox = {} /\ frames = <<>>
  /\ command = FALSE /\ late = {} /\ commands = 0 /\ drops = 0

Goto(t, l) == pc' = [pc EXCEPT ![t] = l]

-----------------------------------------------------------------------------
(* sendToServer, on the thread of its caller. *)

\* Faulty variant: the counter stays.
NextIdStays == [returned |-> current, kept |-> current]

\* generateRequestId: increment, then return, at zero; else return, then increment.
NextId ==
  IF current = 0
  THEN [returned |-> 1, kept |-> 1]
  ELSE [returned |-> current, kept |-> (current + 1) % IdLimit]

MayRequest(t) == t = Recv => command

Generate(t) ==
  /\ pc[t] = "idle" /\ MayRequest(t) /\ requests < MaxRequests
  /\ id' = [id EXCEPT ![t] = NextId.returned] /\ current' = NextId.kept
  /\ requests' = requests + 1 /\ serial' = [serial EXCEPT ![t] = requests + 1]
  /\ tries' = [tries EXCEPT ![t] = 0] /\ answer' = [answer EXCEPT ![t] = 0]
  /\ Goto(t, "prepare")
  /\ UNCHANGED <<pending, responses, netVars, command, late, commands, drops>>

PrepareForResponse(t) ==
  /\ pc[t] = "prepare" /\ Goto(t, "send")
  /\ pending' = pending \cup {id[t]}
  /\ UNCHANGED <<current, responses, id, serial, tries, answer, requests, netVars,
                 command, late, commands, drops>>

InitLocked == sock \in {"opening", "fresh"}

SentFirst(kind) == first' = IF first = "nothing" THEN kind ELSE first

\* sendStringToServer: fails without a socket; on a broken one the bytes are
\* refused or vanish.
Transmit(t) ==
  \/ /\ sock \in {"open", "fresh"}
     /\ inbox' = inbox \cup {<<id[t], serial[t]>>} /\ SentFirst("request")
     /\ Goto(t, "check")
  \/ /\ sock = "broken"
     /\ UNCHANGED <<inbox, first>>
     /\ Goto(t, "check")
  \/ /\ sock \in {"none", "opening", "broken"}
     /\ UNCHANGED <<inbox, first>>
     /\ Goto(t, "failed")

\* Faulty variant: m_init_mutex is not taken.
SendWithoutLock(t) ==
  /\ pc[t] = "send" /\ Transmit(t)
  /\ UNCHANGED <<current, pending, responses, id, serial, tries, answer, requests,
                 sock, frames, command, late, commands, drops>>

SafeSendToServer(t) ==
  /\ pc[t] = "send" /\ ~InitLocked /\ Transmit(t)
  /\ UNCHANGED <<current, pending, responses, id, serial, tries, answer, requests,
                 sock, frames, command, late, commands, drops>>

\* Faulty variant: a failed send leaves the id in m_pending_requests.
GiveUpQuietly(t) ==
  /\ pc[t] = "failed" /\ Goto(t, "idle")
  /\ UNCHANGED <<current, pending, responses, id, serial, tries, answer, requests,
                 netVars, command, late, commands, drops>>

\* requestDone after a failed send.
GiveUp(t) ==
  /\ pc[t] = "failed" /\ Goto(t, "idle")
  /\ pending' = pending \ {id[t]}
  /\ UNCHANGED <<current, responses, id, serial, tries, answer, requests, netVars,
                 command, late, commands, drops>>

Found(t) == {r \in responses : r[1] = id[t]}

CheckForResponse(t) ==
  /\ pc[t] = "check" /\ Found(t) # {}
  /\ \E r \in Found(t) :
       answer' = [answer EXCEPT ![t] = r[2]] /\ responses' = responses \ {r}
  /\ Goto(t, "found")
  /\ UNCHANGED <<current, pending, id, serial, tries, requests, netVars, command,
                 late, commands, drops>>

NothingYet(t) ==
  /\ pc[t] = "check" /\ Found(t) = {}
  /\ Goto(t, IF tries[t] = Tries - 1 THEN "last" ELSE "sleep")
  /\ UNCHANGED <<current, pending, responses, id, serial, tries, answer, requests,
                 netVars, command, late, commands, drops>>

\* requestDone, with the answer or before the last second of waiting.
RequestDone(t) ==
  /\ pc[t] \in {"found", "last"}
  /\ pending' = pending \ {id[t]}
  /\ Goto(t, IF pc[t] = "found" THEN "idle" ELSE "sleep")
  /\ UNCHANGED <<current, responses, id, serial, tries, answer, requests, netVars,
                 command, late, commands, drops>>

\* Faulty variant: try_count stays.
SleepForever(t) ==
  /\ pc[t] = "sleep" /\ Goto(t, "check")
  /\ UNCHANGED <<current, pending, responses, id, serial, tries, answer, requests,
                 netVars, command, late, commands, drops>>

\* One second; after the last one the loop ends without looking again.
Sleep(t) ==
  /\ pc[t] = "sleep"
  /\ tries' = [tries EXCEPT ![t] = @ + 1]
  /\ Goto(t, IF tries[t] + 1 < Tries THEN "check" ELSE "idle")
  /\ UNCHANGED <<current, pending, responses, id, serial, answer, requests, netVars,
                 command, late, commands, drops>>

SendToServer(t) ==
  \/ Generate(t) \/ PrepareForResponse(t)
  \/ SafeSendToServer(t) \/ GiveUp(t)
  \/ CheckForResponse(t) \/ NothingYet(t)
  \/ RequestDone(t) \/ Sleep(t)

-----------------------------------------------------------------------------
(* The receive thread: run, connectWithRetry, receiveMessages, acceptMessage. *)

Reading == ~command /\ sock \in {"open", "broken"}

\* Faulty variant: a broken connection is read for ever.
InitConnectionOnce ==
  /\ sock = "none" /\ ~command
  /\ sock' = "opening" /\ first' = "nothing" /\ frames' = <<>>
  /\ UNCHANGED <<callVars, responses, answer, inbox, command, late, commands, drops>>

\* initConnection takes m_init_mutex and drops the old socket.  receiveMessages
\* ends on a NetException; a time-out only makes it read again.
InitConnection ==
  /\ sock \in {"none", "broken"} /\ ~command
  /\ sock' = "opening" /\ first' = "nothing" /\ frames' = <<>>
  /\ UNCHANGED <<callVars, responses, answer, inbox, command, late, commands, drops>>

InitSocketFails ==
  /\ sock = "opening" /\ sock' = "none"
  /\ UNCHANGED <<callVars, responses, answer, first, inbox, frames, command, late,
                 commands, drops>>

InitSocket ==
  /\ sock = "opening" /\ sock' = "fresh"
  /\ UNCHANGED <<callVars, responses, answer, first, inbox, frames, command, late,
                 commands, drops>>

SendRegisterMessage ==
  /\ sock = "fresh" /\ sock' = "open" /\ SentFirst("register")
  /\ UNCHANGED <<callVars, responses, answer, inbox, frames, command, late, commands,
                 drops>>

\* Has the caller looked for the last time?  It has still to call requestDone.
TooLate(f) == \E t \in Threads : serial[t] = f.of /\ pc[t] = "last"

\* map::insert keeps an older response with this id.
File(f) ==
  IF f.id \notin pending \/ \E r \in responses : r[1] = f.id
  THEN UNCHANGED <<responses, late>>
  ELSE /\ responses' = responses \cup {<<f.id, f.of>>}
       /\ late' = IF TooLate(f) THEN late \cup {f.of} ELSE late

AcceptResponse ==
  /\ Reading /\ frames # <<>> /\ Head(frames).kind = "response"
  /\ File(Head(frames)) /\ frames' = Tail(frames)
  /\ UNCHANGED <<callVars, answer, sock, first, inbox, command, commands, drops>>

\* The acknowledgement, then parseCmd on this thread.
AcceptCommand ==
  /\ Reading /\ frames # <<>> /\ Head(frames).kind = "command"
  /\ frames' = Tail(frames) /\ command' = TRUE
  /\ IF sock = "open" THEN SentFirst("ack") ELSE UNCHANGED first
  /\ UNCHANGED <<callVars, responses, answer, sock, inbox, late, commands, drops>>

CommandEnds ==
  /\ command /\ pc[Recv] = "idle"
  /\ command' = FALSE
  /\ UNCHANGED <<callVars, responses, answer, netVars, late, commands, drops>>

-----------------------------------------------------------------------------
(* The server and the network. *)

ServerAnswers ==
  \E r \in inbox :
    /\ sock = "open"
    /\ inbox' = inbox \ {r}
    /\ frames' = Append(frames, [kind |-> "response", id |-> r[1], of |-> r[2]])
    /\ UNCHANGED <<callVars, responses, answer, sock, first, command, late, commands,
                   drops>>

ServerCommands ==
  /\ sock = "open" /\ commands < MaxCommands
  /\ frames' = Append(frames, [kind |-> "command"]) /\ commands' = commands + 1
  /\ UNCHANGED <<callVars, responses, answer, sock, first, inbox, command, late, drops>>

\* What has arrived can still be read.
Disconnect ==
  /\ sock = "open" /\ drops < MaxDrops
  /\ sock' = "broken" /\ drops' = drops + 1
  /\ \E n \in 0..Len(frames) : frames' = SubSeq(frames, 1, n)
  /\ UNCHANGED <<callVars, responses, answer, first, inbox, command, late, commands>>

Receiver ==
  \/ InitConnection \/ InitSocket \/ InitSocketFails \/ SendRegisterMessage
  \/ AcceptResponse \/ AcceptCommand \/ CommandEnds

Next ==
  \/ \E t \in Threads : SendToServer(t)
  \/ Receiver
  \/ ServerAnswers \/ ServerCommands \/ Disconnect

Spec == Init /\ [][Next]_vars

\* Threads inside a call go on and the receive thread loops; the server may be
\* silent or away for ever.  A thread that waits for m_init_mutex gets it: between
\* two attempts to connect the receive thread sleeps a second without it.
FairSpec ==
  /\ Spec
  /\ \A t \in Threads :
       WF_vars(SendToServer(t) /\ pc[t] # "idle") /\ SF_vars(SafeSendToServer(t))
  /\ WF_vars(Receiver)

-----------------------------------------------------------------------------
\* The server hears "register" before anything else on every connection: this is
\* what m_init_mutex is for (WebSocketServerConnection.cpp:53-60, 294-299).
RegisterComesFirst == first \in {"nothing", "register"}

\* The answer sendToServer returns is the answer to its own request
\* (WebSocketServerConnection.cpp:212-283, 301-330).
AnswerIsMine == \A t \in Threads : answer[t] \in {0, serial[t]}

\* m_pending_requests holds only ids of calls in progress
\* (WebSocketServerConnection.cpp:227-255).
PendingHasCaller ==
  \A i \in pending : \E t \in Threads : pc[t] # "idle" /\ id[t] = i

WillLook(t) == pc[t] = "check" \/ (pc[t] = "sleep" /\ tries[t] + 1 < Tries)

\* A response that is filed is for a call that will look for it.  Only one that came after
\* its caller had looked for the last time, and before requestDone, is not taken by anybody:
\* of the leak that requestDone is there to prevent (WebSocketServerConnection.cpp:244-254,
\* 301-330) this is left, one response for each such call.
ResponseHasReason ==
  \A r \in responses :
    \/ r[2] \in late
    \/ \E t \in Threads : serial[t] = r[2] /\ WillLook(t)

\* Together: m_pending_requests does not grow, and m_responses only by answers so late.
RequestsAreCleared == PendingHasCaller /\ ResponseHasReason

\* Every call of sendToServer returns, the receive thread's own included, though
\* it cannot read its answer while it waits (WebSocketServerConnection.cpp:235-259).
CallReturns == \A t \in Threads : (pc[t] # "idle") ~> (pc[t] = "idle")

\* After a loss of the connection the receive thread tries to connect again
\* (WebSocketServerConnection.cpp:100-104, 141-144).
Reconnects == (sock = "broken") ~> (sock = "opening")
==============================================================================
