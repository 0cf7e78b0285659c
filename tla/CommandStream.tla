---------------------------- MODULE CommandStream ----------------------------
(***************************************************************************)
(* How the server's commands reach Aggregator::parseCmd in the TCP variant *)
(* of the connection: IOTReceiver::init, run and parseTempMessage cut the  *)
(* byte stream at NUL characters and queue the messages;                   *)
(* referMessageFromServer, on a thread of its own, takes them from the     *)
(* queue, one for each token of send_semaphore (src/TCP.cpp).              *)
(*                                                                         *)
(* On the wire command c is its two halves <<c, 1>> and <<c, 2>> and a NUL, *)
(* so that it can be torn.  Command 0 stands for the server's answer to    *)
(* the gateway's registration.                                             *)
(***************************************************************************)
EXTENDS Integers, Sequences, SequencesExt

CONSTANTS
  MaxTokens,   \* the limit of send_semaphore (10)
  Chunks,      \* bound: how many pieces receiveBytes may return, if not all
  MaxCommands, \* bound: commands of the server
  MaxDrops     \* bound: losses of the connection

ASSUME TokenAssumption == MaxTokens \in Nat \ {0} /\ Chunks \subseteq Nat \ {0}
ASSUME BoundAssumption == MaxCommands \in Nat /\ MaxDrops \in Nat

Nul == <<>>
Pieces == ((0..MaxCommands) \X {1, 2}) \cup {Nul}

Message(c) == <<<<c, 1>>, <<c, 2>>>>
OnWire(c)  == Append(Message(c), Nul)
IsWhole(text) == \E c \in 0..MaxCommands : text = Message(c)

VARIABLES
  sock,     \* input_socket: none, connecting (in init), open, closed by the server
  wire,     \* pieces on their way to the gateway
  ret,      \* ret: the residue of the stream, still to be cut
  rpc,      \* where run() is: reading, cutting, or between push and set()
  opening,  \* no message has been cut from this connection yet
  queue,    \* send_queue: <<text, was it the first of its connection?>>
  tokens,   \* the count of send_semaphore
  dpc,      \* where referMessageFromServer is
  cmd,      \* the message it has taken
  handled,  \* messages given to parseCmd, in order
  overflows,\* calls of set() that threw
  commands, drops \* counters for the bounds

recvVars == <<sock, wire, ret, rpc, opening>>
dispVars == <<dpc, cmd, handled>>
vars == <<sock, wire, ret, rpc, opening, queue, tokens, dpc, cmd, handled,
          overflows, commands, drops>>

Texts == Seq(Pieces \ {Nul})
Items == Texts \X BOOLEAN

TypeOK ==
  /\ sock \in {"none", "connecting", "open", "closed"}
  /\ wire \in Seq(Pieces) /\ ret \in Seq(Pieces)
  /\ rpc \in {"read", "cut", "pushed"} /\ opening \in BOOLEAN
  /\ queue \in Seq(Items) /\ handled \in Seq(Items)
  /\ tokens \in 0..MaxTokens
  /\ dpc \in {"wait", "took", "run"} /\ cmd \in Seq(Items)
  /\ overflows \in Nat /\ commands \in 0..MaxCommands /\ drops \in 0..MaxDrops
  /\ dpc = "run" <=> cmd # <<>>
  /\ rpc # "read" => sock \in {"open", "closed"}

Init ==
  /\ sock = "none" /\ wire = <<>> /\ ret = <<>> /\ rpc = "read" /\ opening = TRUE
  /\ queue = <<>> /\ tokens = 0
  /\ dpc = "wait" /\ cmd = <<>> /\ handled = <<>>
  /\ overflows = 0 /\ commands = 0 /\ drops = 0

-----------------------------------------------------------------------------
(* IOTReceiver::run, the receiving thread. *)

\* Faulty variant: the residue of the old connection is kept.
LoseSocketKeepRet ==
  /\ sock' = "none" /\ wire' = <<>> /\ rpc' = "read" /\ UNCHANGED ret

\* The socket is reset and ret goes out of scope.
LoseSocket ==
  /\ sock' = "none" /\ wire' = <<>> /\ rpc' = "read" /\ ret' = <<>>

\* init: a new socket and the register message; the server answers.  When the socket's
\* constructor throws, run() has none and tries again.
Connect ==
  /\ sock = "none"
  /\ sock' = "connecting" /\ wire' = OnWire(0) /\ opening' = TRUE
  /\ UNCHANGED <<ret, rpc, queue, tokens, dispVars, overflows, commands, drops>>

\* How much of the stream one receiveBytes returns.
Arriving == {n \in Chunks : n <= Len(wire)} \cup {Len(wire)}

\* init throws away what its one receiveBytes returns, commands included.
SwallowAnswer ==
  /\ sock = "connecting" /\ wire # <<>>
  /\ \E n \in Arriving : wire' = SubSeq(wire, n + 1, Len(wire))
  /\ sock' = "open"
  /\ UNCHANGED <<ret, rpc, opening, queue, tokens, dispVars, overflows, commands, drops>>

\* A time-out and an orderly end of the stream (n = 0) both make it read again.
Receive ==
  /\ sock \in {"open", "closed"} /\ rpc = "read" /\ wire # <<>>
  /\ \E n \in Arriving :
       /\ ret' = ret \o SubSeq(wire, 1, n) /\ wire' = SubSeq(wire, n + 1, Len(wire))
  /\ rpc' = "cut"
  /\ UNCHANGED <<sock, opening, queue, tokens, dispVars, overflows, commands, drops>>

FirstNul == CHOOSE i \in DOMAIN ret : ret[i] = Nul /\ \A j \in 1..(i - 1) : ret[j] # Nul

HasNul == Nul \in ToSet(ret)

\* Faulty variant: set() comes before push().
CutSignalFirst ==
  /\ rpc = "cut" /\ HasNul /\ FirstNul > 1 /\ tokens < MaxTokens
  /\ tokens' = tokens + 1
  /\ queue' = queue /\ rpc' = "pushed" /\ opening' = FALSE
  /\ UNCHANGED <<sock, wire, ret, dispVars, overflows, commands, drops>>

\* parseTempMessage: the next message is queued; an empty one is dropped.
Cut ==
  /\ rpc = "cut" /\ HasNul
  /\ IF FirstNul > 1
     THEN /\ queue' = Append(queue, <<SubSeq(ret, 1, FirstNul - 1), opening>>)
          /\ rpc' = "pushed" /\ UNCHANGED ret
     ELSE /\ ret' = Tail(ret) /\ UNCHANGED <<queue, rpc>>
  /\ opening' = FALSE
  /\ UNCHANGED <<sock, wire, tokens, dispVars, overflows, commands, drops>>

CutNoMore ==
  /\ rpc = "cut" /\ ~HasNul
  /\ rpc' = "read"
  /\ UNCHANGED <<sock, wire, ret, opening, queue, tokens, dispVars, overflows, commands, drops>>

Signal ==
  /\ rpc = "pushed" /\ tokens < MaxTokens
  /\ tokens' = tokens + 1
  /\ ret' = SubSeq(ret, FirstNul + 1, Len(ret)) /\ rpc' = "cut"
  /\ UNCHANGED <<sock, wire, opening, queue, dispVars, overflows, commands, drops>>

\* set() throws at the limit: run() catches it and drops the connection.  The
\* message stays in the queue, without a token.
SignalOverflows ==
  /\ rpc = "pushed" /\ tokens = MaxTokens
  /\ overflows' = overflows + 1
  /\ LoseSocket
  /\ UNCHANGED <<opening, queue, tokens, dispVars, commands, drops>>

-----------------------------------------------------------------------------
(* referMessageFromServer, the dispatching thread. *)

Wait ==
  /\ dpc = "wait" /\ tokens > 0
  /\ tokens' = tokens - 1 /\ dpc' = "took"
  /\ UNCHANGED <<recvVars, queue, cmd, handled, overflows, commands, drops>>

\* Were the queue empty, the thread would go round without unlocking queue_mutex.
Pop ==
  /\ dpc = "took" /\ queue # <<>>
  /\ cmd' = <<Head(queue)>> /\ queue' = Tail(queue) /\ dpc' = "run"
  /\ UNCHANGED <<recvVars, tokens, handled, overflows, commands, drops>>

\* Faulty variant: one message for each time the thread wakes up is forgotten.
ForgetCmd ==
  /\ dpc = "run"
  /\ cmd' = <<>> /\ dpc' = "wait"
  /\ UNCHANGED <<recvVars, queue, tokens, handled, overflows, commands, drops>>

\* parseXML catches its own exceptions; then parseCmd.
ParseCmd ==
  /\ dpc = "run"
  /\ handled' = handled \o cmd /\ cmd' = <<>> /\ dpc' = "wait"
  /\ UNCHANGED <<recvVars, queue, tokens, overflows, commands, drops>>

-----------------------------------------------------------------------------
(* The server and the network. *)

ServerCommands ==
  /\ sock \in {"connecting", "open"} /\ commands < MaxCommands
  /\ commands' = commands + 1 /\ wire' = wire \o OnWire(commands + 1)
  /\ UNCHANGED <<sock, ret, rpc, opening, queue, tokens, dispVars, overflows, drops>>

\* init throws after it has made the socket.  run() keeps that socket and reads from it
\* in the next round, registered or not; the answer may still be on its way.
InitThrows ==
  /\ sock = "connecting" /\ drops < MaxDrops
  /\ drops' = drops + 1 /\ sock' = "open" /\ wire' \in {wire, <<>>}
  /\ UNCHANGED <<ret, rpc, opening, queue, tokens, dispVars, overflows, commands>>

\* receiveBytes of run() throws.
Break ==
  /\ sock = "open" /\ rpc = "read" /\ drops < MaxDrops
  /\ drops' = drops + 1 /\ LoseSocket
  /\ UNCHANGED <<opening, queue, tokens, dispVars, overflows, commands>>

\* The server ends the stream in good order.
Close ==
  /\ sock = "open" /\ drops < MaxDrops
  /\ drops' = drops + 1 /\ sock' = "closed"
  /\ UNCHANGED <<wire, ret, rpc, opening, queue, tokens, dispVars, overflows, commands>>

Receiver ==
  \/ Connect \/ SwallowAnswer \/ Receive
  \/ Cut \/ CutNoMore \/ Signal \/ SignalOverflows

Dispatcher == Wait \/ Pop \/ ParseCmd

Next == Receiver \/ Dispatcher \/ ServerCommands \/ InitThrows \/ Break \/ Close

Spec == Init /\ [][Next]_vars

\* Both threads loop; a command ends.
FairSpec == Spec /\ WF_vars(Receiver) /\ WF_vars(Dispatcher)

-----------------------------------------------------------------------------
\* "Should not happen" (TCP.cpp:50): a token is never taken for an empty queue,
\* or queue_mutex would stay locked for ever.
NeverEmpty == dpc = "took" => queue # <<>>

\* Every queued message has its token, but for one message for each time set()
\* threw (TCP.cpp:45-54, 224-227).
TokensAddUp ==
  Len(queue) = tokens + overflows
                 + (IF dpc = "took" THEN 1 ELSE 0) + (IF rpc = "pushed" THEN 1 ELSE 0)

\* All messages, in the order in which they were cut from the stream.
InProcess == handled \o cmd \o queue

\* Commands are handled in the order the server sent them, each at most once
\* (TCP.cpp:34-65, 216-232).
InOrder ==
  \A i, j \in DOMAIN InProcess :
    (i < j /\ IsWhole(InProcess[i][1]) /\ IsWhole(InProcess[j][1]))
      => InProcess[i][1][1][1] < InProcess[j][1][1][1] \/ InProcess[j][1][1][1] = 0

\* Only the first message of a connection can be a torn one, when init swallowed
\* its beginning (TCP.cpp:117, 163-201).
OnlyFirstIsTorn ==
  \A i \in DOMAIN InProcess : IsWhole(InProcess[i][1]) \/ InProcess[i][2]

\* A queued message is handled, unless set() has thrown (TCP.cpp:34-65).
QueuedIsHandled ==
  \A c \in 1..MaxCommands :
    (\E item \in ToSet(queue) : item[1] = Message(c))
      ~> (overflows > 0 \/ \E item \in ToSet(handled) : item[1] = Message(c))

\* "It is possible that receiveBytes returned 0" (TCP.cpp:193) when the loop
\* around it ends: the end of the stream makes run() leave that loop.
EndIsNoticed == (sock = "closed") ~> (sock # "closed")
==============================================================================
