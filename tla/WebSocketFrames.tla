--------------------------- MODULE WebSocketFrames ---------------------------
(***************************************************************************)
(* How WebSocketServerConnection::receiveMessagesFromServer puts messages  *)
(* together from frames: a frame is searched for NUL characters, what      *)
(* stands after the last one waits in m_data_leftover for the next frame   *)
(* (src/WebSocketServerConnection.cpp).                                    *)
(*                                                                         *)
(* A message is a number of pieces; a frame carries pieces and NULs.       *)
(***************************************************************************)
EXTENDS Integers, Sequences

CONSTANTS
  Lengths,    \* the messages the server sends, each by its length (1 or more)
  MaxFrame,   \* bound: pieces in a frame
  MaxDrops,   \* bound: losses of the connection
  TwoFrames   \* TRUE: the server spreads a message over at most two frames

Nul == <<>>
Sent == DOMAIN Lengths
Message(m) == [i \in 1..Lengths[m] |-> <<m, i>>]
OnWire(m)  == Append(Message(m), Nul)
IsWhole(text) == \E m \in Sent : text = Message(m)

VARIABLES
  next,     \* the next message the server sends
  rest,     \* what it has still to send of the message before
  sock,     \* is there a connection?
  frames,   \* frames on their way
  reading,  \* is receiveMessagesFromServer searching a frame?
  buffer,   \* what it has not yet searched of it, from last_string on
  leftover, \* m_data_leftover
  stale,    \* did leftover, when not empty, start on an earlier connection?
  drops,    \* losses so far (for the bound)
  received  \* messages for acceptMessage: <<text, does it hold a stale leftover?>>

vars == <<next, rest, sock, frames, reading, buffer, leftover, stale, drops, received>>

Pieces == UNION {{<<m, i>> : i \in 1..Lengths[m]} : m \in Sent}

TypeOK ==
  /\ next \in Nat \ {0} /\ drops \in 0..MaxDrops /\ rest \in Seq(Pieces \cup {Nul}) /\ sock \in BOOLEAN
  /\ frames \in Seq(Seq(Pieces \cup {Nul}))
  /\ reading \in BOOLEAN /\ buffer \in Seq(Pieces \cup {Nul})
  /\ leftover \in Seq(Pieces) /\ stale \in BOOLEAN
  /\ received \in Seq(Seq(Pieces) \X BOOLEAN)

Init ==
  /\ next = 1 /\ rest = <<>> /\ sock = TRUE /\ frames = <<>> /\ reading = FALSE /\ buffer = <<>>
  /\ leftover = <<>> /\ stale = FALSE /\ drops = 0 /\ received = <<>>

-----------------------------------------------------------------------------
(* Cutting a frame. *)

HasNul == \E i \in DOMAIN buffer : buffer[i] = Nul
FirstNul == CHOOSE i \in DOMAIN buffer : buffer[i] = Nul /\ \A j \in 1..(i - 1) : buffer[j] # Nul

ReceiveBytes ==
  /\ ~reading /\ frames # <<>>
  /\ reading' = TRUE /\ buffer' = Head(frames) /\ frames' = Tail(frames)
  /\ UNCHANGED <<next, rest, sock, leftover, stale, drops, received>>

\* What the next NUL ends is a message; the leftover belongs to the first.
Cut(kept) ==
  /\ reading /\ HasNul
  /\ received' = Append(received, <<leftover \o SubSeq(buffer, 1, FirstNul - 1), stale /\ leftover # <<>>>>)
  /\ buffer' = SubSeq(buffer, FirstNul + 1, Len(buffer))
  /\ leftover' = kept /\ stale' = FALSE
  /\ UNCHANGED <<next, rest, sock, frames, reading, drops>>

\* Faulty variant: the leftover is put in front of every message of the frame.
CutMessageAfterLeftover == Cut(leftover)
CutMessage == Cut(<<>>)

\* string(buffer + last_string) replaces the leftover.
KeepLeftover ==
  /\ reading /\ ~HasNul
  /\ leftover' = buffer /\ stale' = FALSE /\ buffer' = <<>> /\ reading' = FALSE
  /\ UNCHANGED <<next, rest, sock, frames, drops, received>>

ReceiveMessages == ReceiveBytes \/ CutMessage \/ KeepLeftover

\* receiveBytes throws: the leftover stays.
Reconnect ==
  /\ ~sock /\ ~reading /\ frames = <<>>
  /\ sock' = TRUE /\ stale' = (leftover # <<>>)
  /\ UNCHANGED <<next, rest, frames, reading, buffer, leftover, drops, received>>

\* receiveBytes returns 0: the leftover is overwritten by an empty string.
ReconnectAfterClose ==
  /\ ~sock /\ ~reading /\ frames = <<>>
  /\ sock' = TRUE /\ leftover' = <<>> /\ stale' = FALSE
  /\ UNCHANGED <<next, rest, frames, reading, buffer, drops, received>>

-----------------------------------------------------------------------------
(* The server. *)

\* What can be sent now: the rest of a message and the next one.
Outgoing == rest \o (IF next \in Sent THEN OnWire(next) ELSE <<>>)

\* With TwoFrames a frame that goes on with a message also ends it.
MayCut(n) == TwoFrames /\ rest # <<>> => n >= Len(rest)

SendFrame ==
  /\ sock
  /\ \E n \in 1..MaxFrame :
       /\ n <= Len(Outgoing) /\ MayCut(n)
       /\ frames' = Append(frames, SubSeq(Outgoing, 1, n))
       /\ IF n <= Len(rest)
          THEN rest' = SubSeq(rest, n + 1, Len(rest)) /\ next' = next
          ELSE rest' = SubSeq(Outgoing, n + 1, Len(Outgoing)) /\ next' = next + 1
  /\ UNCHANGED <<sock, reading, buffer, leftover, stale, drops, received>>

Drop ==
  /\ sock /\ drops < MaxDrops
  /\ sock' = FALSE /\ drops' = drops + 1 /\ rest' = <<>>
  /\ \E n \in 0..Len(frames) : frames' = SubSeq(frames, 1, n)
  /\ UNCHANGED <<next, reading, buffer, leftover, stale, received>>

Next == ReceiveMessages \/ Reconnect \/ ReconnectAfterClose \/ SendFrame \/ Drop

Spec == Init /\ [][Next]_vars

-----------------------------------------------------------------------------
\* A message handed to acceptMessage is one the server sent, unless it begins with
\* what was left over when an earlier connection broke.  This holds only as long as
\* no message takes three frames: a frame without NUL overwrites m_data_leftover
\* (WebSocketServerConnection.cpp:191-202).
OnlyStaleIsTorn ==
  \A i \in DOMAIN received : IsWhole(received[i][1]) \/ received[i][2]

\* Messages are handed over in the order in which the server sent them, each at most
\* once (WebSocketServerConnection.cpp:134-136, 194-209).
InOrder ==
  \A i, j \in DOMAIN received :
    (i < j /\ IsWhole(received[i][1]) /\ IsWhole(received[j][1]))
      => received[i][1][1][1] < received[j][1][1][1]

\* Once everything has arrived on an unbroken connection, nothing is left over and
\* every message has been handed over (WebSocketServerConnection.cpp:184-210).
AllArrive ==
  (drops = 0 /\ frames = <<>> /\ ~reading /\ rest = <<>>)
    => leftover = <<>> /\ \A m \in 1..(next - 1) : \E i \in DOMAIN received : received[i][1] = Message(m)
==============================================================================
