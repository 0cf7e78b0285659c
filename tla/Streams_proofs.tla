---------------------------- MODULE Streams_proofs ----------------------------
(***************************************************************************)
(* Proofs about the models that MCStreams puts side by side: the commands  *)
(* that come over TCP, the messages that come over a WebSocket, and the    *)
(* process, for every value of the constants.                              *)
(***************************************************************************)
EXTENDS MCStreams, SequenceTheorems, RecursionFacts, TLAPS

USE TokenAssumption, BoundAssumption

\* Both parts of a sequence that is cut.
LEMMA SliceFacts ==
  ASSUME NEW S, NEW s \in Seq(S), NEW n \in Nat, n <= Len(s)
  PROVE  /\ SubSeq(s, 1, n) \in Seq(S) /\ Len(SubSeq(s, 1, n)) = n
         /\ \A i \in 1..n : SubSeq(s, 1, n)[i] = s[i]
         /\ SubSeq(s, n + 1, Len(s)) \in Seq(S) /\ Len(SubSeq(s, n + 1, Len(s))) = Len(s) - n
         /\ \A i \in 1..(Len(s) - n) : SubSeq(s, n + 1, Len(s))[i] = s[i + n]
<1>1. Len(s) \in Nat /\ \A i \in 1..Len(s) : s[i] \in S
  BY LenProperties, ElementOfSeq
<1>2. /\ SubSeq(s, 1, n) \in Seq(S) /\ Len(SubSeq(s, 1, n)) = (IF 1 <= n THEN n - 1 + 1 ELSE 0)
      /\ \A i \in 1..(n - 1 + 1) : SubSeq(s, 1, n)[i] = s[1 + i - 1]
  <2>1. 1 \in Int /\ n \in Int /\ \A i \in 1..n : s[i] \in S
    BY <1>1
  <2> QED
    BY <2>1, SubSeqProperties
<1>3. /\ SubSeq(s, n + 1, Len(s)) \in Seq(S)
      /\ Len(SubSeq(s, n + 1, Len(s))) = (IF n + 1 <= Len(s) THEN Len(s) - (n + 1) + 1 ELSE 0)
      /\ \A i \in 1..(Len(s) - (n + 1) + 1) : SubSeq(s, n + 1, Len(s))[i] = s[(n + 1) + i - 1]
  <2>1. n + 1 \in Int /\ Len(s) \in Int /\ \A i \in (n + 1)..Len(s) : s[i] \in S
    BY <1>1
  <2> QED
    BY <2>1, SubSeqProperties
<1> DEFINE l == SubSeq(s, 1, n)
           r == SubSeq(s, n + 1, Len(s))
<1> HIDE DEF l, r
<1> QED
  BY <1>1, <1>2, <1>3 DEF l, r

\* What the server sends, how much of it arrives at a time, and that before the first
\* NUL of a residue there is only text.
LEMMA WireFacts ==
  /\ \A c \in 0..MaxCommands : OnWire(c) \in Seq(Pieces)
  /\ wire \in Seq(Pieces) => Arriving \subseteq 0..Len(wire) /\ Len(wire) \in Nat
  /\ ret \in Seq(Pieces) /\ HasNul =>
       /\ FirstNul \in 1..Len(ret) /\ ret[FirstNul] = Nul
       /\ \A j \in 1..(FirstNul - 1) : ret[j] \in Pieces \ {Nul}
<1>1. ASSUME NEW c \in 0..MaxCommands PROVE OnWire(c) \in Seq(Pieces)
  <2>1. <<c, 1>> \in Pieces /\ <<c, 2>> \in Pieces /\ Nul \in Pieces
    BY DEF Pieces
  <2> QED
    BY <2>1 DEF OnWire, Message
<1>2. ASSUME wire \in Seq(Pieces) PROVE Arriving \subseteq 0..Len(wire) /\ Len(wire) \in Nat
  <2>1. Len(wire) \in Nat
    BY <1>2, LenProperties
  <2>2. \A n \in Arriving : n \in Nat /\ n <= Len(wire)
    BY <2>1 DEF Arriving
  <2> QED
    BY <2>1, <2>2
<1>3. ASSUME ret \in Seq(Pieces), HasNul
      PROVE  /\ FirstNul \in 1..Len(ret) /\ ret[FirstNul] = Nul
             /\ \A j \in 1..(FirstNul - 1) : ret[j] \in Pieces \ {Nul}
  <2> USE <1>3
  <2> DEFINE At == {i \in DOMAIN ret : ret[i] = Nul}
  <2>1. DOMAIN ret = 1..Len(ret) /\ Len(ret) \in Nat
    BY LenProperties
  <2>2. \A j \in 1..Len(ret) : ret[j] \in Pieces
    BY ElementOfSeq
  <2>3. At \subseteq Nat /\ At # {}
    BY <2>1 DEF HasNul, ToSet
  <2>4. PICK i \in At : \A j \in At : i <= j
    <3> HIDE DEF At
    <3> QED
      BY <2>3, LeastNumber
  <2>5. \A j \in 1..(i - 1) : ret[j] # Nul
    BY <2>1, <2>4
  <2>6. FirstNul \in DOMAIN ret /\ ret[FirstNul] = Nul /\ \A j \in 1..(FirstNul - 1) : ret[j] # Nul
    BY <2>4, <2>5 DEF FirstNul
  <2> QED
    BY <2>1, <2>2, <2>6
<1> QED
  BY <1>1, <1>2, <1>3

-----------------------------------------------------------------------------
\* While run() stands between push() and set(), the message it has queued is still
\* at the front of the residue.
PushedIsInRet == rpc = "pushed" => HasNul

Inv == TypeOK /\ TokensAddUp /\ PushedIsInRet

\* Types, and every queued message has its token but for one for each time set()
\* threw (TCP.cpp:45-54, 224-227), for any limit of the semaphore and any number of
\* commands and breaks; so the dispatching thread never finds the queue empty
\* (TCP.cpp:45-54): it would go round with queue_mutex locked.
THEOREM Tokens == Spec => [](TypeOK /\ TokensAddUp /\ PushedIsInRet /\ NeverEmpty)
<1>1. Init => Inv
  <2> SUFFICES ASSUME Init PROVE Inv
    OBVIOUS
  <2>1. TypeOK
    BY EmptySeq DEF Init, TypeOK
  <2>2. TokensAddUp /\ PushedIsInRet
    BY DEF Init, TokensAddUp, PushedIsInRet
  <2> QED
    BY <2>1, <2>2 DEF Inv
<1>2. Inv /\ [Next]_vars => Inv'
  <2> SUFFICES ASSUME Inv, [Next]_vars PROVE Inv'
    OBVIOUS
  <2> USE DEF Inv
  <2>u. CASE UNCHANGED vars
    BY <2>u DEF vars, TypeOK, TokensAddUp, PushedIsInRet, HasNul
  <2>1. CASE Connect
    <3>1. wire' \in Seq(Pieces)
      BY <2>1, WireFacts DEF Connect
    <3>2. TypeOK'
      BY <2>1, <3>1 DEF Connect, TypeOK, dispVars
    <3>3. TokensAddUp' /\ PushedIsInRet'
      BY <2>1 DEF Connect, TokensAddUp, PushedIsInRet, HasNul, dispVars
    <3> QED
      BY <3>2, <3>3
  <2>2. CASE SwallowAnswer
    <3>1. wire' \in Seq(Pieces)
      BY <2>2, WireFacts, SliceFacts DEF SwallowAnswer, TypeOK
    <3>2. TypeOK'
      BY <2>2, <3>1 DEF SwallowAnswer, TypeOK, dispVars
    <3>3. TokensAddUp' /\ PushedIsInRet'
      BY <2>2 DEF SwallowAnswer, TokensAddUp, PushedIsInRet, HasNul, dispVars
    <3> QED
      BY <3>2, <3>3
  <2>3. CASE Receive
    <3>1. PICK n \in Arriving :
            /\ ret' = ret \o SubSeq(wire, 1, n)
            /\ wire' = SubSeq(wire, n + 1, Len(wire))
      BY <2>3 DEF Receive
    <3>2. n \in 0..Len(wire) /\ n \in Nat
      BY WireFacts DEF TypeOK
    <3>3. wire' \in Seq(Pieces)
      BY <3>1, <3>2, SliceFacts DEF TypeOK
    <3>4. SubSeq(wire, 1, n) \in Seq(Pieces)
      BY <3>2, SliceFacts DEF TypeOK
    <3>5. ret' \in Seq(Pieces)
      BY <3>1, <3>4, ConcatProperties DEF TypeOK
    <3>6. TypeOK'
      BY <2>3, <3>3, <3>5 DEF Receive, TypeOK, dispVars
    <3>7. TokensAddUp' /\ PushedIsInRet'
      BY <2>3 DEF Receive, TokensAddUp, PushedIsInRet, dispVars
    <3> QED
      BY <3>6, <3>7
  <2>4. CASE Cut
    <3>1. /\ FirstNul \in 1..Len(ret)
          /\ \A j \in 1..(FirstNul - 1) : ret[j] \in Pieces \ {Nul}
      BY <2>4, WireFacts DEF Cut, TypeOK
    <3>2. ret # <<>> /\ Len(ret) \in Nat
      BY <3>1, LenProperties, EmptySeq DEF TypeOK
    <3>3. CASE FirstNul > 1
      <4>1. SubSeq(ret, 1, FirstNul - 1) \in Texts
        BY <3>1, <3>2, SubSeqProperties DEF Texts
      <4>2. <<SubSeq(ret, 1, FirstNul - 1), opening>> \in Items
        BY <4>1 DEF Items, TypeOK
      <4>0. queue \in Seq(Items) /\ queue' = Append(queue, <<SubSeq(ret, 1, FirstNul - 1), opening>>)
        BY <2>4, <3>3 DEF Cut, TypeOK
      <4>3. queue' \in Seq(Items) /\ Len(queue') = Len(queue) + 1
        BY <4>0, <4>2, AppendProperties
      <4>4. TypeOK'
        BY <2>4, <3>3, <4>3 DEF Cut, TypeOK, dispVars
      <4>5. TokensAddUp'
        BY <2>4, <3>3, <4>3 DEF Cut, TokensAddUp, TypeOK, dispVars
      <4>6. PushedIsInRet'
        BY <2>4, <3>3 DEF Cut, PushedIsInRet, HasNul
      <4> QED
        BY <4>4, <4>5, <4>6
    <3>4. CASE ~(FirstNul > 1)
      <4>0. ret' = Tail(ret) /\ ret \in Seq(Pieces)
        BY <2>4, <3>4 DEF Cut, TypeOK
      <4>1. ret' \in Seq(Pieces)
        BY <4>0, <3>2, HeadTailProperties
      <4>2. TypeOK'
        BY <2>4, <3>4, <4>1 DEF Cut, TypeOK, dispVars
      <4>3. TokensAddUp' /\ PushedIsInRet'
        BY <2>4, <3>4 DEF Cut, TokensAddUp, PushedIsInRet, dispVars
      <4> QED
        BY <4>2, <4>3
    <3> QED
      BY <3>3, <3>4
  <2>5. CASE CutNoMore
    BY <2>5 DEF CutNoMore, TypeOK, TokensAddUp, PushedIsInRet, dispVars
  <2>6. CASE Signal
    <3>1. FirstNul \in Nat
      BY <2>6, WireFacts DEF Signal, PushedIsInRet, TypeOK
    <3>2. ret' \in Seq(Pieces)
      BY <2>6, <3>1, SliceFacts DEF Signal, TypeOK
    <3>3. TypeOK'
      BY <2>6, <3>2 DEF Signal, TypeOK, dispVars
    <3>4. TokensAddUp' /\ PushedIsInRet'
      BY <2>6 DEF Signal, TokensAddUp, PushedIsInRet, TypeOK, dispVars
    <3> QED
      BY <3>3, <3>4
  <2>7. CASE SignalOverflows
    <3>1. TypeOK'
      BY <2>7, EmptySeq DEF SignalOverflows, LoseSocket, TypeOK, dispVars
    <3>2. TokensAddUp' /\ PushedIsInRet'
      BY <2>7 DEF SignalOverflows, LoseSocket, TokensAddUp, PushedIsInRet, TypeOK, dispVars
    <3> QED
      BY <3>1, <3>2
  <2>8. CASE Wait
    BY <2>8 DEF Wait, TypeOK, TokensAddUp, PushedIsInRet, HasNul, recvVars
  <2>9. CASE Pop
    <3>1. Head(queue) \in Items /\ Tail(queue) \in Seq(Items) /\ Len(Tail(queue)) = Len(queue) - 1
      BY <2>9, HeadTailProperties DEF Pop, TypeOK
    <3>2. TypeOK'
      BY <2>9, <3>1 DEF Pop, TypeOK, recvVars
    <3>3. TokensAddUp' /\ PushedIsInRet'
      BY <2>9, <3>1 DEF Pop, TokensAddUp, PushedIsInRet, HasNul, TypeOK, recvVars
    <3> QED
      BY <3>2, <3>3
  <2>10. CASE ParseCmd
    <3>1. handled' \in Seq(Items) /\ cmd' \in Seq(Items)
      BY <2>10, ConcatProperties, EmptySeq DEF ParseCmd, TypeOK
    <3>2. TypeOK'
      BY <2>10, <3>1 DEF ParseCmd, TypeOK, recvVars
    <3>3. TokensAddUp' /\ PushedIsInRet'
      BY <2>10 DEF ParseCmd, TokensAddUp, PushedIsInRet, HasNul, recvVars
    <3> QED
      BY <3>2, <3>3
  <2>11. CASE ServerCommands
    <3>1. OnWire(commands + 1) \in Seq(Pieces)
      BY <2>11, WireFacts DEF ServerCommands, TypeOK
    <3>2. wire' \in Seq(Pieces)
      BY <2>11, <3>1, ConcatProperties DEF ServerCommands, TypeOK
    <3>3. TypeOK'
      BY <2>11, <3>2 DEF ServerCommands, TypeOK, dispVars
    <3>4. TokensAddUp' /\ PushedIsInRet'
      BY <2>11 DEF ServerCommands, TokensAddUp, PushedIsInRet, HasNul, dispVars
    <3> QED
      BY <3>3, <3>4
  <2>12. CASE Break
    <3>1. TypeOK'
      BY <2>12, EmptySeq DEF Break, LoseSocket, TypeOK, dispVars
    <3>2. TokensAddUp' /\ PushedIsInRet'
      BY <2>12 DEF Break, LoseSocket, TokensAddUp, PushedIsInRet, dispVars
    <3> QED
      BY <3>1, <3>2
  <2>13. CASE Close
    BY <2>13 DEF Close, TypeOK, TokensAddUp, PushedIsInRet, HasNul, dispVars
  <2>14. CASE InitThrows
    <3>0. wire' \in Seq(Pieces)
      BY <2>14, EmptySeq DEF InitThrows, TypeOK
    <3>1. TypeOK'
      BY <2>14, <3>0, BoundAssumption DEF InitThrows, TypeOK, dispVars
    <3>2. TokensAddUp' /\ PushedIsInRet'
      BY <2>14 DEF InitThrows, TokensAddUp, PushedIsInRet, HasNul, dispVars
    <3> QED
      BY <3>1, <3>2
  <2> QED
    BY <2>u, <2>1, <2>2, <2>3, <2>4, <2>5, <2>6, <2>7, <2>8, <2>9, <2>10, <2>11, <2>12, <2>13, <2>14
    DEF Next, Receiver, Dispatcher
<1>3. Inv => NeverEmpty
  <2> SUFFICES ASSUME TypeOK, TokensAddUp, dpc = "took" PROVE queue # <<>>
    BY DEF Inv, NeverEmpty
  <2>1. Len(queue) > 0
    BY DEF TypeOK, TokensAddUp
  <2> QED
    BY <2>1, EmptySeq
<1>4. Inv => TypeOK /\ TokensAddUp /\ PushedIsInRet
  BY DEF Inv
<1> QED
  BY <1>1, <1>2, <1>3, <1>4, PTL DEF Spec

-----------------------------------------------------------------------------
(* The order of the commands. *)

\* What run() has still to cut from the stream, from position Begin on.
Unread == ret \o wire
Begin  == IF rpc = "pushed" THEN FirstNul + 1 ELSE 1
Starts(piece) == piece # Nul /\ piece[2] = 1

\* What the server sends after a piece.
Follows(x, y) ==
  IF x = Nul THEN Starts(y)
  ELSE IF x[2] = 1 THEN y = <<x[1], 2>> ELSE y = Nul

\* The stream consists of whole commands, but for its beginning.
Framed ==
  /\ Unread # <<>> => Unread[Len(Unread)] = Nul
  /\ \A i \in 1..(Len(Unread) - 1) : Follows(Unread[i], Unread[i + 1])
  /\ ~opening /\ rpc # "pushed" /\ Unread # <<>> => Starts(Unread[1])
  /\ sock \in {"none", "connecting"} => ret = <<>>
  /\ sock = "none" => wire = <<>>
  /\ sock = "connecting" => opening

\* The commands in it ascend, and come after all that were cut before.
Ascending ==
  /\ \A i, j \in DOMAIN Unread :
       i < j /\ Starts(Unread[i]) /\ Starts(Unread[j]) => Unread[i][1] < Unread[j][1]
  /\ \A k \in DOMAIN InProcess, i \in DOMAIN Unread :
       i >= Begin /\ IsWhole(InProcess[k][1]) /\ Starts(Unread[i]) =>
         InProcess[k][1][1][1] < Unread[i][1] \/ Unread[i][1] = 0

\* The server has sent them.
Known ==
  /\ \A i \in DOMAIN Unread : Starts(Unread[i]) => Unread[i][1] <= commands
  /\ \A k \in DOMAIN InProcess : IsWhole(InProcess[k][1]) => InProcess[k][1][1][1] <= commands

OrderInv == Framed /\ Ascending /\ Known /\ InOrder /\ OnlyFirstIsTorn

UnreadIsSeq ==
  /\ Unread \in Seq(Pieces) /\ Len(Unread) \in Nat /\ DOMAIN Unread = 1..Len(Unread)
  /\ Len(Unread) = Len(ret) + Len(wire) /\ Len(ret) \in Nat /\ Len(wire) \in Nat
  /\ \A i \in 1..Len(Unread) :
       /\ Unread[i] = (IF i <= Len(ret) THEN ret[i] ELSE wire[i - Len(ret)])
       /\ Unread[i] \in Pieces
InProcessIsSeq ==
  InProcess \in Seq(Items) /\ Len(InProcess) \in Nat /\ DOMAIN InProcess = 1..Len(InProcess)

\* Commands are handled in the order the server sent them, each at most once, and only
\* the first of a connection can be torn (TCP.cpp:34-65, 117, 163-201, 216-232).
LEMMA CommandsInOrder == Spec => [](InOrder /\ OnlyFirstIsTorn)
<1>0. /\ \A c : Message(c) = <<<<c, 1>>, <<c, 2>>>> /\ Message(c)[1] = <<c, 1>>
      /\ \A c \in 0..MaxCommands :
           /\ OnWire(c) \in Seq(Pieces) /\ Len(OnWire(c)) = 3
           /\ OnWire(c)[1] = <<c, 1>> /\ OnWire(c)[2] = <<c, 2>> /\ OnWire(c)[3] = Nul
           /\ Starts(OnWire(c)[1]) /\ ~Starts(OnWire(c)[2]) /\ ~Starts(OnWire(c)[3])
           /\ Follows(OnWire(c)[1], OnWire(c)[2]) /\ Follows(OnWire(c)[2], OnWire(c)[3])
  <2>1. \A c : Message(c) = <<<<c, 1>>, <<c, 2>>>> /\ Message(c)[1] = <<c, 1>>
    BY DEF Message
  <2>2. ASSUME NEW c \in 0..MaxCommands
        PROVE  /\ OnWire(c) \in Seq(Pieces) /\ Len(OnWire(c)) = 3
               /\ OnWire(c)[1] = <<c, 1>> /\ OnWire(c)[2] = <<c, 2>> /\ OnWire(c)[3] = Nul
    <3>1. <<c, 1>> \in Pieces /\ <<c, 2>> \in Pieces /\ Nul \in Pieces
      BY DEF Pieces
    <3>2. Message(c) \in Seq(Pieces) /\ Len(Message(c)) = 2
          /\ Message(c)[1] = <<c, 1>> /\ Message(c)[2] = <<c, 2>>
      BY <3>1 DEF Message
    <3>3. \A m \in Seq(Pieces), e \in Pieces :
            /\ Append(m, e) \in Seq(Pieces) /\ Len(Append(m, e)) = Len(m) + 1
            /\ \A i \in 1..Len(m) : Append(m, e)[i] = m[i]
            /\ Append(m, e)[Len(m) + 1] = e
      BY AppendProperties
    <3>4. \A m \in Seq(Pieces), e \in Pieces : Len(m) = 2 =>
            /\ Append(m, e) \in Seq(Pieces) /\ Len(Append(m, e)) = 3
            /\ Append(m, e)[1] = m[1] /\ Append(m, e)[2] = m[2] /\ Append(m, e)[3] = e
      <4> SUFFICES ASSUME NEW m \in Seq(Pieces), NEW e \in Pieces, Len(m) = 2
                   PROVE  /\ Append(m, e) \in Seq(Pieces) /\ Len(Append(m, e)) = 3
                          /\ Append(m, e)[1] = m[1] /\ Append(m, e)[2] = m[2] /\ Append(m, e)[3] = e
        OBVIOUS
      <4>1. /\ Append(m, e) \in Seq(Pieces) /\ Len(Append(m, e)) = Len(m) + 1
            /\ \A i \in 1..Len(m) : Append(m, e)[i] = m[i]
            /\ Append(m, e)[Len(m) + 1] = e
        BY <3>3, Zenon
      <4> DEFINE w == Append(m, e)
      <4> HIDE DEF w
      <4>2. w \in Seq(Pieces) /\ Len(w) = 3 /\ w[1] = m[1] /\ w[2] = m[2] /\ w[3] = e
        BY <4>1 DEF w
      <4> QED
        BY <4>2 DEF w
    <3>5. Message(c) \in Seq(Pieces) /\ Nul \in Pieces
      BY <3>1, <3>2
    <3>6. /\ OnWire(c) \in Seq(Pieces) /\ Len(OnWire(c)) = 3 /\ OnWire(c)[1] = Message(c)[1]
          /\ OnWire(c)[2] = Message(c)[2] /\ OnWire(c)[3] = Nul
      BY <3>2, <3>4, <3>5, Zenon DEF OnWire
    <3> QED
      BY <3>2, <3>6
  <2>3. \A c \in 0..MaxCommands : <<c, 1>> # Nul /\ <<c, 2>> # Nul
    BY DEF Nul
  <2> QED
    BY <2>1, <2>2, <2>3 DEF Starts, Follows
<1>c. \A x, y, z \in Seq(Pieces) : (x \o y) \o z = x \o (y \o z)
  BY ConcatAssociative
<1>f. \A x, y, z \in Seq(Items) : (x \o y) \o z = x \o (y \o z)
  BY ConcatAssociative
<1>1. Init => OrderInv
  <2> SUFFICES ASSUME Init PROVE OrderInv
    OBVIOUS
  <2>1. Unread = <<>> /\ InProcess = <<>>
    BY DEF Init, Unread, InProcess
  <2> QED
    BY <2>1 DEF Init, OrderInv, Framed, Ascending, Known, InOrder, OnlyFirstIsTorn
<1>2. TypeOK => UnreadIsSeq /\ InProcessIsSeq
  <2> SUFFICES ASSUME TypeOK PROVE UnreadIsSeq /\ InProcessIsSeq
    OBVIOUS
  <2>1. ret \in Seq(Pieces) /\ wire \in Seq(Pieces)
    BY DEF TypeOK
  <2>2. /\ Unread \in Seq(Pieces) /\ Len(Unread) = Len(ret) + Len(wire)
        /\ \A i \in 1..Len(ret) + Len(wire) :
             Unread[i] = (IF i <= Len(ret) THEN ret[i] ELSE wire[i - Len(ret)])
    BY <2>1, ConcatProperties DEF Unread
  <2>3. Len(ret) \in Nat /\ Len(wire) \in Nat /\ Len(Unread) \in Nat /\ DOMAIN Unread = 1..Len(Unread)
    BY <2>1, <2>2, LenProperties
  <2>4. \A i \in 1..Len(Unread) : Unread[i] \in Pieces
    BY <2>2, ElementOfSeq
  <2>5. InProcess \in Seq(Items)
    BY ConcatProperties DEF InProcess, TypeOK
  <2>6. UnreadIsSeq
    BY <2>2, <2>3, <2>4 DEF UnreadIsSeq
  <2>7. InProcessIsSeq
    BY <2>5, LenProperties DEF InProcessIsSeq
  <2> QED
    BY <2>6, <2>7
<1>3. TypeOK' => UnreadIsSeq' /\ InProcessIsSeq'
  BY <1>2, PTL
<1>d. TypeOK /\ PushedIsInRet =>
        /\ rpc = "pushed" => FirstNul \in 1..Len(ret) /\ FirstNul \in Nat /\ ret[FirstNul] = Nul
        /\ Begin \in Nat \ {0}
  <2>1. ASSUME TypeOK, PushedIsInRet, rpc = "pushed"
        PROVE  FirstNul \in 1..Len(ret) /\ FirstNul \in Nat /\ ret[FirstNul] = Nul
    BY <2>1, WireFacts DEF TypeOK, PushedIsInRet
  <2> QED
    BY <2>1 DEF Begin
<1>e. TypeOK' /\ PushedIsInRet' =>
        /\ (rpc = "pushed")' => (FirstNul \in 1..Len(ret))' /\ (FirstNul \in Nat)' /\ (ret[FirstNul] = Nul)'
        /\ (Begin \in Nat \ {0})'
  BY <1>d, PTL
<1>4. ASSUME TypeOK, PushedIsInRet, OrderInv, TypeOK', PushedIsInRet', [Next]_vars
      PROVE  OrderInv'
  <2>0. UnreadIsSeq /\ InProcessIsSeq /\ UnreadIsSeq' /\ InProcessIsSeq'
    BY <1>2, <1>3, <1>4
  <2> DEFINE L == Len(Unread)
  <2>a. /\ rpc = "pushed" => FirstNul \in 1..Len(ret) /\ FirstNul \in Nat /\ ret[FirstNul] = Nul
        /\ Begin \in Nat \ {0} /\ Begin' \in Nat \ {0}
    BY <1>d, <1>e, <1>4
  \* What is left of the stream is a part of its end.
  <2>b. ASSUME NEW n \in 0..L, Len(Unread') = L - n,
               \A i \in 1..(L - n) : Unread'[i] = Unread[i + n],
               InProcess' = InProcess, commands' = commands, Begin' + n >= Begin,
               ~opening' /\ rpc' # "pushed" /\ Unread' # <<>> => Starts(Unread'[1]),
               sock' \in {"none", "connecting"} => ret' = <<>>,
               sock' = "none" => wire' = <<>>,
               sock' = "connecting" => opening'
        PROVE  OrderInv'
    <3>1. Framed'
      <4>1. Unread' # <<>> => Unread'[Len(Unread')] = Nul
        <5> SUFFICES ASSUME Unread' # <<>> PROVE Unread'[Len(Unread')] = Nul
          OBVIOUS
        <5>1. Len(Unread') > 0
          BY <2>0, EmptySeq DEF UnreadIsSeq
        <5>2. L > 0 /\ Unread # <<>> /\ Unread'[L - n] = Unread[L]
          BY <2>b, <5>1, <2>0, EmptySeq DEF UnreadIsSeq
        <5> QED
          BY <2>b, <5>2, <1>4 DEF OrderInv, Framed
      <4>2. \A i \in 1..(Len(Unread') - 1) : Follows(Unread'[i], Unread'[i + 1])
        <5> SUFFICES ASSUME NEW i \in 1..(Len(Unread') - 1)
                     PROVE  Follows(Unread'[i], Unread'[i + 1])
          OBVIOUS
        <5>1. i + n \in 1..(L - 1) /\ i \in 1..(L - n) /\ i + 1 \in 1..(L - n) /\ (i + 1) + n = (i + n) + 1
          BY <2>b, <2>0 DEF UnreadIsSeq
        <5>2. Unread'[i] = Unread[i + n] /\ Unread'[i + 1] = Unread[(i + n) + 1]
          BY <2>b, <5>1
        <5> QED
          BY <5>1, <5>2, <1>4 DEF OrderInv, Framed
      <4> QED
        BY <2>b, <4>1, <4>2 DEF Framed
    <3>2. \A i \in DOMAIN Unread' : i + n \in DOMAIN Unread /\ Unread'[i] = Unread[i + n] /\ i \in Nat
      <4>1. DOMAIN Unread' = 1..(L - n) /\ DOMAIN Unread = 1..L /\ L \in Nat
        BY <2>b, <2>0 DEF UnreadIsSeq
      <4> QED
        BY <2>b, <4>1
    <3>3. Ascending'
      <4>1. ASSUME NEW i \in DOMAIN Unread', NEW j \in DOMAIN Unread',
                   i < j, Starts(Unread'[i]), Starts(Unread'[j])
            PROVE  Unread'[i][1] < Unread'[j][1]
        <5>1. i + n < j + n
          BY <3>2, <4>1
        <5> QED
          BY <5>1, <3>2, <4>1, <1>4 DEF OrderInv, Ascending
      <4>2. ASSUME NEW k \in DOMAIN InProcess', NEW i \in DOMAIN Unread',
                   i >= Begin', IsWhole(InProcess'[k][1]), Starts(Unread'[i])
            PROVE  InProcess'[k][1][1][1] < Unread'[i][1] \/ Unread'[i][1] = 0
        <5>1. i + n >= Begin
          BY <3>2, <4>2, <2>a, <2>b
        <5> QED
          BY <5>1, <3>2, <4>2, <2>b, <1>4 DEF OrderInv, Ascending
      <4> QED
        BY <4>1, <4>2 DEF Ascending
    <3>4. Known'
      BY <3>2, <2>b, <1>4 DEF OrderInv, Known
    <3>5. InOrder' /\ OnlyFirstIsTorn'
      BY <2>b, <1>4 DEF OrderInv, InOrder, OnlyFirstIsTorn
    <3> QED
      BY <3>1, <3>3, <3>4, <3>5 DEF OrderInv
  <2>c. ASSUME UNCHANGED <<ret, wire>> PROVE Unread' = Unread
    BY <2>c DEF Unread
  <2>d. ASSUME UNCHANGED <<queue, cmd, handled>> PROVE InProcess' = InProcess
    BY <2>d DEF InProcess
  <2>e. ASSUME UNCHANGED recvVars PROVE Begin' = Begin
    BY <2>e DEF Begin, FirstNul, recvVars
  <2>f. ASSUME UNCHANGED recvVars, InProcess' = InProcess, commands' = commands PROVE OrderInv'
    <3>1. Unread' = Unread /\ Begin' = Begin
      BY <2>c, <2>e, <2>f DEF recvVars
    <3>2. /\ 0 \in 0..L /\ Len(Unread') = L - 0 /\ Begin' + 0 >= Begin
          /\ \A i \in 1..(L - 0) : Unread'[i] = Unread[i + 0]
      BY <3>1, <2>0, <2>a DEF UnreadIsSeq
    <3>3. Framed'
      BY <3>1, <2>f, <1>4 DEF OrderInv, Framed, recvVars
    <3> QED
      BY <2>b, <2>f, <3>2, <3>3 DEF Framed
  <2>u. CASE UNCHANGED vars
    BY <2>u, <2>d, <2>f DEF vars, recvVars
  <2>1. CASE Connect
    <3>1. ret = <<>> /\ ret' = <<>> /\ wire' = OnWire(0) /\ sock' = "connecting" /\ opening'
          /\ InProcess' = InProcess /\ commands' = commands /\ rpc' = rpc
      BY <2>1, <2>d, <1>4 DEF Connect, OrderInv, Framed, dispVars
    <3>2. Unread' = OnWire(0)
      BY <3>1, <1>0, ConcatEmptySeq DEF Unread
    <3>3. Framed'
      BY <3>1, <3>2, <1>0 DEF Framed
    <3>4. Ascending'
      BY <3>1, <3>2, <1>0 DEF Ascending
    <3>5. Known'
      <4>1. commands >= 0 /\ 0 \in 0..MaxCommands
        BY <1>4 DEF TypeOK
      <4>2. /\ DOMAIN Unread' = 1..3 /\ Unread'[1] = <<0, 1>>
            /\ ~Starts(Unread'[2]) /\ ~Starts(Unread'[3])
        BY <3>2, <2>0, <4>1, <1>0 DEF UnreadIsSeq
      <4>3. \A i \in DOMAIN Unread' : Starts(Unread'[i]) => Unread'[i][1] <= commands'
        BY <3>1, <4>1, <4>2
      <4>4. \A k \in DOMAIN InProcess' : IsWhole(InProcess'[k][1]) => InProcess'[k][1][1][1] <= commands'
        BY <3>1, <1>4 DEF OrderInv, Known
      <4> QED
        BY <4>3, <4>4 DEF Known
    <3>6. InOrder' /\ OnlyFirstIsTorn'
      BY <3>1, <1>4 DEF OrderInv, InOrder, OnlyFirstIsTorn
    <3> QED
      BY <3>3, <3>4, <3>5, <3>6 DEF OrderInv
  <2>2. CASE SwallowAnswer
    <3>1. PICK n \in Arriving : wire' = SubSeq(wire, n + 1, Len(wire))
      BY <2>2 DEF SwallowAnswer
    <3>2. n \in 0..Len(wire) /\ Len(wire) \in Nat /\ wire \in Seq(Pieces)
      BY WireFacts, <1>4 DEF TypeOK
    <3>3. Len(wire') = Len(wire) - n /\ \A i \in 1..(Len(wire) - n) : wire'[i] = wire[i + n]
      <4>1. \A i \in (n + 1)..Len(wire) : wire[i] \in Pieces
        BY <3>2, ElementOfSeq
      <4> QED
        BY <3>1, <3>2, <4>1, SubSeqProperties
    <3>4. /\ ret = <<>> /\ ret' = <<>> /\ opening /\ opening' /\ sock' = "open"
          /\ InProcess' = InProcess /\ commands' = commands /\ rpc' = rpc
      BY <2>2, <2>d, <1>4 DEF SwallowAnswer, OrderInv, Framed, dispVars
    <3>5. Unread = wire /\ Unread' = wire'
      BY <3>4, <1>4, ConcatEmptySeq DEF Unread, TypeOK
    <3>6. rpc # "pushed"
      BY <2>2, <1>4 DEF SwallowAnswer, TypeOK
    <3> QED
      BY <2>b, <3>2, <3>3, <3>4, <3>5, <3>6 DEF Begin
  <2>3. CASE Receive
    <3>1. PICK n \in Arriving :
            ret' = ret \o SubSeq(wire, 1, n) /\ wire' = SubSeq(wire, n + 1, Len(wire))
      BY <2>3 DEF Receive
    <3>2. n \in 0..Len(wire) /\ Len(wire) \in Nat /\ wire \in Seq(Pieces) /\ ret \in Seq(Pieces)
      BY WireFacts, <1>4 DEF TypeOK
    <3>3. SubSeq(wire, 1, n) \in Seq(Pieces) /\ SubSeq(wire, n + 1, Len(wire)) \in Seq(Pieces)
      BY <3>2, SliceFacts
    <3>4. SubSeq(wire, 1, n) \o SubSeq(wire, n + 1, Len(wire)) = wire
      <4>1. /\ 1 \in 1..(Len(wire) + 1) /\ n \in (1 - 1)..Len(wire) /\ Len(wire) \in n..Len(wire)
        BY <3>2
      <4>2. SubSeq(wire, 1, n) \o SubSeq(wire, n + 1, Len(wire)) = SubSeq(wire, 1, Len(wire))
        BY <3>2, <4>1, ConcatAdjacentSubSeq
      <4> QED
        BY <3>2, <4>2, SubSeqFull
    <3>5. Unread' = Unread
      <4> DEFINE a == SubSeq(wire, 1, n)
                 b == SubSeq(wire, n + 1, Len(wire))
      <4>1. a \in Seq(Pieces) /\ b \in Seq(Pieces) /\ a \o b = wire
            /\ ret' = ret \o a /\ wire' = b
        BY <3>1, <3>3, <3>4
      <4> HIDE DEF a, b
      <4>2. (ret \o a) \o b = ret \o (a \o b)
        BY <1>c, <3>2, <4>1
      <4> QED
        BY <4>1, <4>2 DEF Unread
    <3>6. /\ InProcess' = InProcess /\ commands' = commands /\ opening' = opening
          /\ rpc = "read" /\ rpc' = "cut" /\ sock' = sock /\ sock \in {"open", "closed"}
      BY <2>3, <2>d DEF Receive, dispVars
    <3>7. /\ 0 \in 0..L /\ Len(Unread') = L - 0 /\ Begin' + 0 >= Begin
          /\ \A i \in 1..(L - 0) : Unread'[i] = Unread[i + 0]
      BY <3>5, <3>6, <2>0 DEF UnreadIsSeq, Begin
    <3>8. ~opening' /\ rpc' # "pushed" /\ Unread' # <<>> => Starts(Unread'[1])
      BY <3>5, <3>6, <1>4 DEF OrderInv, Framed
    <3> QED
      BY <2>b, <3>6, <3>7, <3>8
  <2>4. CASE Cut /\ FirstNul > 1
    <3> DEFINE k == FirstNul
               text == SubSeq(ret, 1, k - 1)
               n == Len(InProcess)
    <3>1. /\ k \in 1..Len(ret) /\ k > 1 /\ k \in Nat /\ \A j \in 1..(k - 1) : ret[j] \in Pieces \ {Nul}
          /\ ret[k] = Nul
      BY <2>4, <1>4, WireFacts DEF Cut, TypeOK
    <3>2. /\ ret' = ret /\ wire' = wire /\ rpc = "cut" /\ rpc' = "pushed" /\ commands' = commands
          /\ sock' = sock /\ ~opening' /\ queue' = Append(queue, <<text, opening>>)
          /\ UNCHANGED <<cmd, handled>>
      BY <2>4 DEF Cut, dispVars
    <3>3. Unread' = Unread /\ Begin' = k + 1 /\ Begin = 1
      BY <3>2 DEF Unread, Begin, FirstNul
    <3>4. /\ \A j \in 1..(k - 1) : Unread[j] = ret[j] /\ Unread[j] # Nul
          /\ k \in 1..L /\ Unread[k] = Nul
      <4> HIDE DEF k
      <4>1. Len(ret) \in Nat /\ Len(wire) \in Nat /\ L = Len(ret) + Len(wire)
        BY <2>0 DEF UnreadIsSeq
      <4>2. \A i \in 1..L : i <= Len(ret) => Unread[i] = ret[i]
        BY <2>0 DEF UnreadIsSeq
      <4> HIDE DEF L
      <4>3. \A j \in 1..k : j \in 1..L /\ j <= Len(ret)
        BY <3>1, <4>1
      <4>4. k \in 1..k /\ \A j \in 1..(k - 1) : j \in 1..k
        BY <3>1
      <4> QED
        BY <3>1, <4>2, <4>3, <4>4
    <3>5. text \in Seq(Pieces) /\ Len(text) = k - 1 /\ \A j \in 1..(k - 1) : text[j] = ret[j]
      BY <3>1, SubSeqProperties
    <3>6. /\ DOMAIN InProcess = 1..n /\ DOMAIN InProcess' = 1..(n + 1) /\ n \in Nat
          /\ \A i \in 1..n : InProcess'[i] = InProcess[i]
          /\ InProcess'[n + 1] = <<text, opening>>
      <4> DEFINE hc == handled \o cmd
                 item == <<text, opening>>
      <4>1. item \in Items /\ queue \in Seq(Items) /\ hc \in Seq(Items)
        <5>1. text \in Texts
          BY <3>1, <3>5, SubSeqProperties DEF Texts
        <5> QED
          BY <5>1, <1>4, ConcatProperties DEF Items, TypeOK
      <4>2. InProcess = hc \o queue /\ InProcess' = hc \o queue' /\ queue' = Append(queue, item)
        BY <3>2 DEF InProcess
      <4> HIDE DEF hc, item
      <4>3. /\ queue' \in Seq(Items) /\ Len(queue') = Len(queue) + 1
            /\ \A i \in 1..Len(queue) : queue'[i] = queue[i]
            /\ queue'[Len(queue) + 1] = item
        BY <4>1, <4>2, AppendProperties
      <4>4. Len(hc) \in Nat /\ Len(queue) \in Nat
        BY <4>1, LenProperties
      <4>5. /\ Len(InProcess) = Len(hc) + Len(queue)
            /\ \A i \in 1..(Len(hc) + Len(queue)) :
                 InProcess[i] = IF i <= Len(hc) THEN hc[i] ELSE queue[i - Len(hc)]
        BY <4>1, <4>2, ConcatProperties
      <4>6. /\ Len(InProcess') = Len(hc) + Len(queue')
            /\ \A i \in 1..(Len(hc) + Len(queue')) :
                 InProcess'[i] = IF i <= Len(hc) THEN hc[i] ELSE queue'[i - Len(hc)]
        BY <4>1, <4>2, <4>3, ConcatProperties
      <4>7. \A i \in 1..n : InProcess'[i] = InProcess[i]
        BY <4>3, <4>4, <4>5, <4>6
      <4>8. InProcess'[n + 1] = item /\ n \in Nat /\ Len(InProcess') = n + 1
        BY <4>3, <4>4, <4>5, <4>6
      <4> QED
        BY <4>7, <4>8, <2>0 DEF InProcessIsSeq, item
    <3>7. IsWhole(text) => Starts(Unread[1]) /\ text[1] = Unread[1]
      <4> SUFFICES ASSUME NEW c \in 0..MaxCommands, text = Message(c)
                   PROVE  Starts(Unread[1]) /\ text[1] = Unread[1]
        BY DEF IsWhole
      <4>1. text[1] = <<c, 1>> /\ text[1] = Unread[1] /\ Unread[1] # Nul
        <5>1. 1 \in 1..(k - 1)
          BY <3>1
        <5>2. text[1] = <<c, 1>>
          BY <1>0
        <5> HIDE DEF k, text
        <5> QED
          BY <3>4, <3>5, <5>1, <5>2
      <4>2. Unread[1][2] = 1
        <5> HIDE DEF text
        <5> QED
          BY <4>1
      <4> HIDE DEF text
      <4> QED
        BY <4>1, <4>2 DEF Starts
    <3>8. Starts(Unread[1]) => IsWhole(text)
      <4> SUFFICES ASSUME Starts(Unread[1]) PROVE IsWhole(text)
        OBVIOUS
      <4>1. Unread[1] \in Pieces /\ Unread[1] # Nul /\ Unread[1][2] = 1
        BY <3>1, <3>4, <2>0 DEF UnreadIsSeq, Starts
      <4>2. PICK c \in 0..MaxCommands : Unread[1] = <<c, 1>>
        BY <4>1 DEF Pieces
      <4>3. Follows(Unread[1], Unread[2])
        <5>1. 1 \in 1..(L - 1)
          BY <3>1, <3>4, <2>0 DEF UnreadIsSeq
        <5> QED
          BY <5>1, <1>4 DEF OrderInv, Framed
      <4>4. Unread[2] = <<c, 2>> /\ Unread[2] # Nul
        BY <4>1, <4>2, <4>3 DEF Follows, Nul
      <4>5. k > 2 /\ 2 \in 1..(L - 1)
        <5>1. k # 2
          BY <3>4, <4>4
        <5> QED
          BY <5>1, <3>1, <3>4, <2>0 DEF UnreadIsSeq
      <4>6. Follows(Unread[2], Unread[3])
        BY <4>5, <1>4 DEF OrderInv, Framed
      <4>7. Unread[3] = Nul
        BY <4>4, <4>6 DEF Follows
      <4>8. k = 3
        <5>1. ~(3 \in 1..(k - 1))
          BY <3>4, <4>7
        <5> QED
          BY <5>1, <3>1, <4>5
      <4>9. Len(text) = 2 /\ text[1] = <<c, 1>> /\ text[2] = <<c, 2>>
        BY <3>4, <3>5, <4>2, <4>4, <4>8
      <4>10. Message(c) \in Seq(Pieces) /\ Len(Message(c)) = 2
             /\ Message(c)[1] = <<c, 1>> /\ Message(c)[2] = <<c, 2>>
        <5>1. <<c, 1>> \in Pieces /\ <<c, 2>> \in Pieces
          BY DEF Pieces
        <5> QED
          BY <5>1 DEF Message
      <4> HIDE DEF text
      <4>11. \A i \in 1..Len(text) : text[i] = Message(c)[i]
        <5>1. \A i \in 1..2 : i = 1 \/ i = 2
          OBVIOUS
        <5> QED
          BY <5>1, <4>9, <4>10, Zenon
      <4>12. text = Message(c)
        BY <3>5, <4>9, <4>10, <4>11, SeqEqual
      <4> QED
        BY <4>12 DEF IsWhole
    <3>9. Framed'
      BY <2>4, <3>2, <3>3, <1>4 DEF OrderInv, Framed, TypeOK
    <3>10. 1 \in DOMAIN Unread /\ DOMAIN Unread' = DOMAIN Unread /\ \A i \in DOMAIN Unread : i \in Nat
      BY <3>1, <3>3, <3>4, <2>0 DEF UnreadIsSeq
    <3> HIDE DEF text, n
    <3>11. Ascending'
      <4>1. ASSUME NEW p \in DOMAIN InProcess', NEW i \in DOMAIN Unread',
                   i >= Begin', IsWhole(InProcess'[p][1]), Starts(Unread'[i])
            PROVE  InProcess'[p][1][1][1] < Unread'[i][1] \/ Unread'[i][1] = 0
        <5>1. CASE p \in 1..n
          <6>1. p \in DOMAIN InProcess /\ InProcess'[p] = InProcess[p] /\ i >= Begin
            BY <3>1, <3>3, <3>6, <3>10, <4>1, <5>1
          <6> QED
            BY <6>1, <3>3, <3>10, <4>1, <1>4 DEF OrderInv, Ascending
        <5>2. CASE p = n + 1
          <6>1. InProcess'[p][1] = text /\ 1 < i
            BY <3>1, <3>3, <3>6, <3>10, <4>1, <5>2
          <6>2. Starts(Unread[1]) /\ text[1] = Unread[1]
            BY <6>1, <4>1, <3>7
          <6>3. Unread[1][1] < Unread[i][1]
            BY <6>1, <6>2, <3>3, <3>10, <4>1, <1>4 DEF OrderInv, Ascending
          <6> QED
            BY <6>1, <6>2, <6>3, <3>3
        <5> QED
          BY <5>1, <5>2, <3>6
      <4> QED
        BY <4>1, <3>3, <1>4 DEF OrderInv, Ascending
    <3>12. Known'
      <4>1. ASSUME NEW p \in DOMAIN InProcess', IsWhole(InProcess'[p][1])
            PROVE  InProcess'[p][1][1][1] <= commands'
        <5>1. CASE p \in 1..n
          BY <5>1, <4>1, <3>2, <3>6, <1>4 DEF OrderInv, Known
        <5>2. CASE p = n + 1
          <6>1. InProcess'[p][1] = text
            BY <3>6, <5>2
          <6>2. Starts(Unread[1]) /\ text[1] = Unread[1]
            BY <6>1, <4>1, <3>7
          <6> QED
            BY <6>1, <6>2, <3>2, <3>10, <1>4 DEF OrderInv, Known
        <5> QED
          BY <5>1, <5>2, <3>6
      <4> QED
        BY <4>1, <3>2, <3>3, <1>4 DEF OrderInv, Known
    <3>13. InOrder'
      <4>1. ASSUME NEW i \in DOMAIN InProcess', NEW j \in DOMAIN InProcess', i < j,
                   IsWhole(InProcess'[i][1]), IsWhole(InProcess'[j][1])
            PROVE  InProcess'[i][1][1][1] < InProcess'[j][1][1][1] \/ InProcess'[j][1][1][1] = 0
        <5>1. i \in 1..n /\ InProcess'[i] = InProcess[i]
          BY <3>6, <4>1
        <5>2. CASE j \in 1..n
          BY <5>1, <5>2, <4>1, <3>6, <1>4 DEF OrderInv, InOrder
        <5>3. CASE j = n + 1
          <6>1. InProcess'[j][1] = text
            BY <3>6, <5>3
          <6>2. Starts(Unread[1]) /\ text[1] = Unread[1]
            BY <6>1, <4>1, <3>7
          <6>3. InProcess[i][1][1][1] < Unread[1][1] \/ Unread[1][1] = 0
            BY <5>1, <6>2, <4>1, <3>3, <3>6, <3>10, <1>4 DEF OrderInv, Ascending
          <6> QED
            BY <5>1, <6>1, <6>2, <6>3
        <5> QED
          BY <5>2, <5>3, <3>6
      <4> QED
        BY <4>1 DEF InOrder
    <3>14. OnlyFirstIsTorn'
      <4>1. ASSUME NEW i \in DOMAIN InProcess' PROVE IsWhole(InProcess'[i][1]) \/ InProcess'[i][2]
        <5>1. CASE i \in 1..n
          BY <5>1, <3>6, <1>4 DEF OrderInv, OnlyFirstIsTorn
        <5>2. CASE i = n + 1
          <6>1. InProcess'[i][1] = text /\ InProcess'[i][2] = opening
            BY <3>6, <5>2
          <6>2. ~opening => Starts(Unread[1])
            <7>1. Unread # <<>>
              BY <3>10
            <7> QED
              BY <7>1, <3>2, <1>4 DEF OrderInv, Framed
          <6> QED
            BY <6>1, <6>2, <3>8
        <5> QED
          BY <5>1, <5>2, <3>6
      <4> QED
        BY <4>1 DEF OnlyFirstIsTorn
    <3> QED
      BY <3>9, <3>11, <3>12, <3>13, <3>14 DEF OrderInv
  <2>5. CASE Cut /\ ~(FirstNul > 1)
    <3>1. FirstNul = 1 /\ 1 \in 1..Len(ret) /\ ret[1] = Nul
      BY <2>5, <1>4, WireFacts DEF Cut, TypeOK
    <3>2. /\ ret' = Tail(ret) /\ wire' = wire /\ rpc = "cut" /\ rpc' = "cut" /\ commands' = commands
          /\ sock' = sock /\ sock \in {"open", "closed"} /\ InProcess' = InProcess
      BY <2>5, <2>d, <1>4 DEF Cut, dispVars, TypeOK
    <3>3. ret \in Seq(Pieces) /\ ret # <<>>
      BY <3>1, <1>4, EmptySeq DEF TypeOK
    <3>4. Len(ret') = Len(ret) - 1 /\ \A i \in 1..Len(ret') : ret'[i] = ret[i + 1]
      BY <3>2, <3>3, HeadTailProperties
    <3>5. 1 \in 0..L /\ Len(Unread') = L - 1
      BY <3>1, <3>2, <3>4, <2>0 DEF UnreadIsSeq
    <3>6. \A i \in 1..(L - 1) : Unread'[i] = Unread[i + 1]
      BY <3>1, <3>2, <3>4, <3>5, <2>0, SMTT(30) DEF UnreadIsSeq
    <3>7. Unread' # <<>> => Starts(Unread'[1])
      <4> SUFFICES ASSUME Unread' # <<>> PROVE Starts(Unread'[1])
        OBVIOUS
      <4>1. 1 \in 1..(L - 1)
        BY <3>5, <2>0, EmptySeq DEF UnreadIsSeq
      <4>2. Follows(Unread[1], Unread[1 + 1]) /\ Unread[1] = Nul /\ Unread'[1] = Unread[1 + 1]
        BY <3>1, <3>6, <4>1, <2>0, <1>4 DEF UnreadIsSeq, OrderInv, Framed
      <4> QED
        BY <4>2 DEF Follows
    <3>8. Begin = 1 /\ Begin' = 1
      BY <3>2 DEF Begin
    <3> QED
      BY <2>b, <3>2, <3>5, <3>6, <3>7, <3>8
  <2>6. CASE CutNoMore
    <3>1. /\ UNCHANGED <<ret, wire, sock, opening, commands>> /\ rpc = "cut" /\ rpc' = "read"
          /\ InProcess' = InProcess
      BY <2>6, <2>d DEF CutNoMore, dispVars
    <3>2. Unread' = Unread /\ Begin = 1 /\ Begin' = 1
      BY <3>1, <2>c DEF Begin
    <3>3. /\ 0 \in 0..L /\ Len(Unread') = L - 0 /\ Begin' + 0 >= Begin
          /\ \A i \in 1..(L - 0) : Unread'[i] = Unread[i + 0]
      BY <3>2, <2>0 DEF UnreadIsSeq
    <3>4. Framed'
      BY <3>1, <3>2, <1>4 DEF OrderInv, Framed
    <3> QED
      BY <2>b, <3>1, <3>3, <3>4 DEF Framed
  <2>7. CASE Signal
    <3> DEFINE k == FirstNul
    <3>1. k \in 1..Len(ret) /\ k \in Nat /\ ret[k] = Nul /\ ret \in Seq(Pieces)
      BY <2>7, <2>a, <1>4 DEF Signal, TypeOK
    <3>2. /\ ret' = SubSeq(ret, k + 1, Len(ret)) /\ wire' = wire /\ rpc = "pushed" /\ rpc' = "cut"
          /\ commands' = commands /\ sock' = sock /\ sock \in {"open", "closed"} /\ InProcess' = InProcess
      BY <2>7, <2>d, <1>4 DEF Signal, dispVars, TypeOK
    <3> HIDE DEF k
    <3>3. Len(ret') = Len(ret) - k /\ \A i \in 1..(Len(ret) - k) : ret'[i] = ret[i + k]
      <4>1. \A i \in (k + 1)..Len(ret) : ret[i] \in Pieces
        BY <3>1, ElementOfSeq
      <4>2. Len(ret) \in Nat
        BY <2>0 DEF UnreadIsSeq
      <4> QED
        BY <3>1, <3>2, <4>1, <4>2, SubSeqProperties
    <3>4. k \in 0..L /\ Len(Unread') = L - k
      BY <3>1, <3>2, <3>3, <2>0 DEF UnreadIsSeq
    <3>5. \A i \in 1..(L - k) : Unread'[i] = Unread[i + k]
      <4> SUFFICES ASSUME NEW i \in 1..(L - k) PROVE Unread'[i] = Unread[i + k]
        OBVIOUS
      <4>1. /\ i \in 1..Len(Unread') /\ i + k \in 1..L /\ i \in Nat /\ Len(ret) \in Nat
            /\ (i + k) - Len(ret) = i - (Len(ret) - k)
        BY <3>1, <3>4, <2>0 DEF UnreadIsSeq
      <4>2. Unread'[i] = (IF i <= Len(ret') THEN ret'[i] ELSE wire'[i - Len(ret')])
        BY <4>1, <2>0 DEF UnreadIsSeq
      <4>3. Unread[i + k] = (IF i + k <= Len(ret) THEN ret[i + k] ELSE wire[(i + k) - Len(ret)])
        BY <4>1, <2>0 DEF UnreadIsSeq
      <4>4. CASE i + k <= Len(ret)
        BY <3>1, <3>3, <4>1, <4>2, <4>3, <4>4
      <4>5. CASE ~(i + k <= Len(ret))
        BY <3>1, <3>2, <3>3, <4>1, <4>2, <4>3, <4>5
      <4> QED
        BY <4>4, <4>5
    <3>6. Unread' # <<>> => Starts(Unread'[1])
      <4> SUFFICES ASSUME Unread' # <<>> PROVE Starts(Unread'[1])
        OBVIOUS
      <4>1. k \in 1..(L - 1) /\ 1 \in 1..(L - k)
        BY <3>1, <3>4, <2>0, EmptySeq DEF UnreadIsSeq
      <4>2. Follows(Unread[k], Unread[k + 1]) /\ Unread[k] = Nul /\ Unread'[1] = Unread[k + 1]
        BY <3>1, <3>5, <4>1, <2>0, <1>4 DEF UnreadIsSeq, OrderInv, Framed
      <4> QED
        BY <4>2 DEF Follows
    <3>7. Begin = k + 1 /\ Begin' = 1
      BY <3>2 DEF Begin, k
    <3> QED
      BY <2>b, <3>1, <3>2, <3>4, <3>5, <3>6, <3>7
  <2>8. CASE SignalOverflows \/ Break
    <3>1. /\ ret' = <<>> /\ wire' = <<>> /\ sock' = "none" /\ rpc' = "read" /\ commands' = commands
          /\ InProcess' = InProcess
      BY <2>8, <2>d DEF SignalOverflows, Break, LoseSocket, dispVars
    <3>2. Len(ret') = 0 /\ Len(wire') = 0
      BY <3>1
    <3>3. L \in 0..L /\ Len(Unread') = L - L /\ 1..(L - L) = {} /\ Unread' = <<>>
      BY <3>2, <2>0, EmptySeq DEF UnreadIsSeq
    <3>4. Begin' + L >= Begin
      <4>1. Begin <= L + 1
        BY <2>a, <2>0 DEF UnreadIsSeq, Begin
      <4> QED
        BY <4>1, <2>a, <2>0, <3>1 DEF UnreadIsSeq, Begin
    <3> QED
      BY <2>b, <3>1, <3>3, <3>4
  <2>9. CASE Wait \/ Pop \/ ParseCmd
    <3>1. InProcess' = InProcess
      <4>1. CASE Wait
        BY <4>1, <2>d DEF Wait
      <4>2. CASE Pop
        <5> DEFINE h == <<Head(queue)>>
                   t == Tail(queue)
        <5>1. /\ handled' = handled /\ cmd = <<>> /\ cmd' = h /\ queue' = t
              /\ handled \in Seq(Items) /\ queue \in Seq(Items) /\ queue # <<>>
          BY <4>2, <1>4 DEF Pop, TypeOK
        <5>2. h \in Seq(Items) /\ t \in Seq(Items) /\ h \o t = queue
          <6>1. /\ Head(queue) \in Items /\ Head(queue) = queue[1] /\ t \in Seq(Items)
                /\ Len(t) = Len(queue) - 1 /\ \A i \in 1..Len(t) : t[i] = queue[i + 1]
            BY <5>1, HeadTailProperties
          <6>2. h \in Seq(Items) /\ Len(h) = 1 /\ h[1] = queue[1]
            BY <6>1
          <6>3. Len(queue) \in Nat
            BY <5>1, LenProperties
          <6> HIDE DEF h, t
          <6>4. /\ h \o t \in Seq(Items) /\ Len(h \o t) = 1 + Len(t)
                /\ \A i \in 1..(1 + Len(t)) : (h \o t)[i] = IF i <= 1 THEN h[i] ELSE t[i - 1]
            <7>1. /\ h \o t \in Seq(Items) /\ Len(h \o t) = Len(h) + Len(t)
                  /\ \A i \in 1..(Len(h) + Len(t)) : (h \o t)[i] = IF i <= Len(h) THEN h[i] ELSE t[i - Len(h)]
              BY <6>1, <6>2, ConcatProperties
            <7> QED
              BY <7>1, <6>2
          <6>5. \A i \in 1..Len(queue) : (h \o t)[i] = queue[i]
            BY <6>1, <6>2, <6>3, <6>4
          <6> QED
            BY <6>1, <6>2, <6>3, <6>4, <6>5, <5>1, SeqEqual
        <5> HIDE DEF h, t
        <5>3. (handled \o h) \o t = handled \o queue
          BY <5>1, <5>2, <1>f
        <5>4. handled \o cmd = handled
          BY <5>1, ConcatEmptySeq
        <5> QED
          BY <5>1, <5>3, <5>4 DEF InProcess
      <4>3. CASE ParseCmd
        <5>1. /\ handled' = handled \o cmd /\ cmd' = <<>> /\ queue' = queue
              /\ handled' \in Seq(Items)
          BY <4>3, <1>4 DEF ParseCmd, TypeOK
        <5>2. handled' \o cmd' = handled \o cmd
          BY <5>1, ConcatEmptySeq
        <5> QED
          BY <5>1, <5>2 DEF InProcess
      <4> QED
        BY <2>9, <4>1, <4>2, <4>3
    <3>2. UNCHANGED recvVars /\ commands' = commands
      BY <2>9 DEF Wait, Pop, ParseCmd
    <3> QED
      BY <2>f, <3>1, <3>2
  <2>10. CASE ServerCommands
    <3> DEFINE c == commands + 1
    <3>1. /\ ret' = ret /\ wire' = wire \o OnWire(c) /\ UNCHANGED <<sock, rpc, opening>> /\ sock # "none"
          /\ commands' = c /\ c \in 0..MaxCommands /\ commands \in Int /\ InProcess' = InProcess
      BY <2>10, <2>d, <1>4 DEF ServerCommands, dispVars, TypeOK
    <3> HIDE DEF c
    <3>2. /\ OnWire(c) \in Seq(Pieces) /\ Len(OnWire(c)) = 3
          /\ OnWire(c)[1] = <<c, 1>> /\ Starts(OnWire(c)[1]) /\ ~Starts(OnWire(c)[2])
          /\ ~Starts(OnWire(c)[3]) /\ OnWire(c)[3] = Nul
          /\ Follows(OnWire(c)[1], OnWire(c)[2]) /\ Follows(OnWire(c)[2], OnWire(c)[3])
      BY <3>1, <1>0
    <3> DEFINE u == Unread
               v == Unread'
               w == OnWire(c)
    <3> HIDE DEF w
    <3>3. /\ Len(v) = L + 3 /\ \A i \in 1..L : v[i] = u[i]
          /\ v[L + 1] = w[1] /\ v[L + 2] = w[2] /\ v[L + 3] = w[3]
      <4>1. /\ Len(wire') = Len(wire) + 3
            /\ \A i \in 1..(Len(wire) + 3) : wire'[i] = IF i <= Len(wire) THEN wire[i] ELSE w[i - Len(wire)]
        <5>1. wire \in Seq(Pieces) /\ wire' = wire \o w /\ w \in Seq(Pieces) /\ Len(w) = 3
          BY <3>1, <3>2, <1>4 DEF TypeOK, w
        <5>2. /\ Len(wire \o w) = Len(wire) + Len(w)
              /\ \A i \in 1..(Len(wire) + Len(w)) :
                   (wire \o w)[i] = IF i <= Len(wire) THEN wire[i] ELSE w[i - Len(wire)]
          BY <5>1, ConcatProperties
        <5> QED
          BY <5>1, <5>2
      <4>2. Len(v) = L + 3 /\ L = Len(ret) + Len(wire) /\ Len(ret) \in Nat /\ Len(wire) \in Nat
        BY <3>1, <4>1, <2>0 DEF UnreadIsSeq
      <4>3. \A i \in 1..(L + 3) : v[i] = IF i <= Len(ret) THEN ret[i] ELSE wire'[i - Len(ret)]
        BY <3>1, <4>2, <2>0 DEF UnreadIsSeq
      <4>4. \A i \in 1..L : u[i] = IF i <= Len(ret) THEN ret[i] ELSE wire[i - Len(ret)]
        BY <2>0 DEF UnreadIsSeq
      <4> HIDE DEF L, u, v
      <4>5. \A i \in 1..L : v[i] = u[i]
        <5> SUFFICES ASSUME NEW i \in 1..L PROVE v[i] = u[i]
          OBVIOUS
        <5>1. i \in 1..(L + 3) /\ i \in Nat
          BY <4>2
        <5>2. CASE i <= Len(ret)
          BY <5>1, <5>2, <4>3, <4>4
        <5>3. CASE ~(i <= Len(ret))
          <6>1. i - Len(ret) \in 1..(Len(wire) + 3) /\ i - Len(ret) <= Len(wire)
            BY <5>1, <5>3, <4>2
          <6> QED
            BY <5>1, <5>3, <6>1, <4>1, <4>3, <4>4
        <5> QED
          BY <5>2, <5>3
      <4>6. \A j \in 1..3 : v[L + j] = w[j]
        BY <4>1, <4>2, <4>3, SMTT(30)
      <4> QED
        BY <4>2, <4>5, <4>6
    <3>4. Begin' = Begin
      BY <3>1 DEF Begin, FirstNul
    <3>5. DOMAIN u = 1..L /\ DOMAIN v = 1..(L + 3) /\ L \in Nat
      BY <3>3, <2>0 DEF UnreadIsSeq
    <3>6. /\ v[L + 1] = <<c, 1>> /\ Starts(v[L + 1]) /\ v[L + 1][1] = c
          /\ ~Starts(v[L + 2]) /\ ~Starts(v[L + 3]) /\ v[L + 3] = Nul
          /\ Follows(v[L + 1], v[L + 2]) /\ Follows(v[L + 2], v[L + 3])
      BY <3>2, <3>3 DEF w
    <3>7. \A i \in 1..(L + 3) : i \in 1..L \/ i = L + 1 \/ i = L + 2 \/ i = L + 3
      BY <3>5
    <3>8. \A i \in 1..L : Starts(u[i]) => u[i][1] \in Int /\ u[i][1] < c /\ c \in Int
      <4> SUFFICES ASSUME NEW i \in 1..L, Starts(u[i]) PROVE u[i][1] \in Int /\ u[i][1] < c /\ c \in Int
        OBVIOUS
      <4>1. u[i][1] <= commands
        BY <3>5, <1>4 DEF OrderInv, Known
      <4>2. u[i] \in Pieces /\ u[i] # Nul
        BY <2>0 DEF UnreadIsSeq, Starts
      <4>3. u[i][1] \in Int
        BY <4>2 DEF Pieces
      <4> QED
        BY <4>1, <4>3, <3>1 DEF c
    <3>9. \A p \in DOMAIN InProcess : IsWhole(InProcess[p][1]) => InProcess[p][1][1][1] \in Int /\ InProcess[p][1][1][1] < c
      <4> SUFFICES ASSUME NEW p \in DOMAIN InProcess, IsWhole(InProcess[p][1])
                   PROVE  InProcess[p][1][1][1] \in Int /\ InProcess[p][1][1][1] < c
        OBVIOUS
      <4>1. InProcess[p][1][1][1] <= commands
        BY <1>4 DEF OrderInv, Known
      <4>2. PICK d \in 0..MaxCommands : InProcess[p][1] = Message(d)
        BY DEF IsWhole
      <4>3. InProcess[p][1][1][1] = d
        <5>1. InProcess[p][1][1] = <<d, 1>>
          BY <4>2, <1>0
        <5> QED
          BY <5>1
      <4> QED
        BY <4>1, <4>3, <3>1 DEF c
    <3>10. Framed'
      <4>1. \A i \in 1..(L + 2) : Follows(v[i], v[i + 1])
        <5> SUFFICES ASSUME NEW i \in 1..(L + 2) PROVE Follows(v[i], v[i + 1])
          OBVIOUS
        <5>1. CASE i \in 1..(L - 1)
          <6>1. i \in 1..L /\ i + 1 \in 1..L
            BY <5>1, <3>5
          <6> QED
            BY <5>1, <6>1, <3>3, <1>4 DEF OrderInv, Framed
        <5>2. CASE i = L
          <6>1. L \in 1..L /\ u # <<>>
            BY <5>2, <3>5
          <6>2. v[L] = Nul
            BY <6>1, <3>3, <1>4 DEF OrderInv, Framed
          <6> QED
            BY <5>2, <6>2, <3>6 DEF Follows
        <5>3. CASE i = L + 1 \/ i = L + 2
          <6>1. (L + 1) + 1 = L + 2 /\ (L + 2) + 1 = L + 3
            BY <3>5
          <6> QED
            BY <5>3, <6>1, <3>6
        <5>4. L \in Nat
          BY <3>5
        <5> HIDE DEF L, u, v
        <5> QED
          BY <5>1, <5>2, <5>3, <5>4
      <4>2. v[Len(v)] = Nul /\ Len(v) - 1 = L + 2
        BY <3>3, <3>5, <3>6
      <4>3. ~opening /\ rpc # "pushed" => Starts(v[1])
        <5>1. CASE u = <<>>
          BY <5>1, <3>6
        <5>2. CASE u # <<>>
          <6>1. 1 \in 1..L
            BY <5>2, <3>5, <2>0, EmptySeq DEF UnreadIsSeq
          <6> QED
            BY <5>2, <6>1, <3>3, <1>4 DEF OrderInv, Framed
        <5> QED
          BY <5>1, <5>2
      <4> QED
        BY <4>1, <4>2, <4>3, <3>1, <1>4 DEF OrderInv, Framed
    <3>11. Ascending'
      <4>1. ASSUME NEW i \in DOMAIN v, NEW j \in DOMAIN v, i < j, Starts(v[i]), Starts(v[j])
            PROVE  v[i][1] < v[j][1]
        <5>1. (i \in 1..L \/ i = L + 1) /\ (j \in 1..L \/ j = L + 1)
          BY <4>1, <3>5, <3>6, <3>7
        <5>2. i \in 1..L
          BY <4>1, <5>1, <3>5
        <5>3. CASE j \in 1..L
          BY <4>1, <5>2, <5>3, <3>3, <3>5, <1>4 DEF OrderInv, Ascending
        <5>4. CASE j = L + 1
          BY <4>1, <5>2, <5>4, <3>3, <3>6, <3>8
        <5> QED
          BY <5>1, <5>3, <5>4
      <4>2. ASSUME NEW p \in DOMAIN InProcess, NEW i \in DOMAIN v, i >= Begin,
                   IsWhole(InProcess[p][1]), Starts(v[i])
            PROVE  InProcess[p][1][1][1] < v[i][1] \/ v[i][1] = 0
        <5>1. i \in 1..L \/ i = L + 1
          BY <4>2, <3>5, <3>6, <3>7
        <5>2. CASE i \in 1..L
          BY <4>2, <5>2, <3>3, <3>5, <1>4 DEF OrderInv, Ascending
        <5>3. CASE i = L + 1
          BY <4>2, <5>3, <3>6, <3>9
        <5> QED
          BY <5>1, <5>2, <5>3
      <4> QED
        BY <4>1, <4>2, <3>1, <3>4 DEF Ascending
    <3>12. Known'
      <4>1. ASSUME NEW i \in DOMAIN v, Starts(v[i]) PROVE v[i][1] <= c
        <5>1. i \in 1..L \/ i = L + 1
          BY <4>1, <3>5, <3>6, <3>7
        <5> QED
          BY <5>1, <4>1, <3>1, <3>3, <3>6, <3>8
      <4>2. ASSUME NEW p \in DOMAIN InProcess, IsWhole(InProcess[p][1]) PROVE InProcess[p][1][1][1] <= c
        BY <4>2, <3>1, <3>9
      <4> QED
        BY <4>1, <4>2, <3>1 DEF Known
    <3>13. InOrder' /\ OnlyFirstIsTorn'
      BY <3>1, <1>4 DEF OrderInv, InOrder, OnlyFirstIsTorn
    <3> QED
      BY <3>10, <3>11, <3>12, <3>13 DEF OrderInv
  <2>11. CASE Close
    <3>1. /\ UNCHANGED <<ret, wire, opening, commands, rpc>> /\ sock' = "closed"
          /\ InProcess' = InProcess
      BY <2>11, <2>d DEF Close, dispVars
    <3>2. Unread' = Unread /\ Begin = Begin'
      BY <3>1, <2>c DEF Begin, FirstNul
    <3>3. /\ 0 \in 0..L /\ Len(Unread') = L - 0 /\ Begin' + 0 >= Begin
          /\ \A i \in 1..(L - 0) : Unread'[i] = Unread[i + 0]
      <4>1. Begin \in Nat /\ Begin' = Begin
        BY <3>2, <2>a
      <4>2. Begin' + 0 >= Begin
        BY <4>1
      <4>3. 0 \in 0..L /\ Len(Unread') = L - 0 /\ \A i \in 1..(L - 0) : Unread'[i] = Unread[i + 0]
        BY <3>2, <2>0 DEF UnreadIsSeq
      <4> QED
        BY <4>2, <4>3
    <3>4. Framed'
      BY <3>1, <3>2, <1>4 DEF OrderInv, Framed
    <3> QED
      BY <2>b, <3>1, <3>3, <3>4 DEF Framed
  <2>12. CASE InitThrows
    <3>1. /\ ret = <<>> /\ ret' = <<>> /\ opening /\ opening' /\ sock' = "open" /\ wire' \in {wire, <<>>}
          /\ InProcess' = InProcess /\ commands' = commands /\ rpc' = rpc /\ rpc # "pushed"
      BY <2>12, <2>d, <1>4 DEF InitThrows, OrderInv, Framed, TypeOK, dispVars
    <3>2. Begin = 1 /\ Begin' = 1
      BY <3>1 DEF Begin
    <3>3. CASE wire' = wire
      <4>1. Unread' = Unread
        BY <3>1, <3>3, <2>c
      <4>2. /\ 0 \in 0..L /\ Len(Unread') = L - 0
            /\ \A i \in 1..(L - 0) : Unread'[i] = Unread[i + 0]
        BY <4>1, <2>0 DEF UnreadIsSeq
      <4> QED
        BY <2>b, <3>1, <3>2, <4>2
    <3>4. CASE wire' = <<>>
      <4>1. Len(ret') = 0 /\ Len(wire') = 0
        BY <3>1, <3>4
      <4>2. L \in 0..L /\ Len(Unread') = L - L /\ 1..(L - L) = {} /\ Unread' = <<>>
        BY <4>1, <2>0, EmptySeq DEF UnreadIsSeq
      <4>3. Begin' + L >= Begin
        BY <3>2, <2>0 DEF UnreadIsSeq
      <4> QED
        BY <2>b, <3>1, <4>2, <4>3
    <3> QED
      BY <3>1, <3>3, <3>4
  <2> QED
    BY <2>u, <2>1, <2>2, <2>3, <2>4, <2>5, <2>6, <2>7, <2>8, <2>9, <2>10, <2>11, <2>12, <1>4
    DEF Next, Receiver, Dispatcher
<1>5. TypeOK /\ PushedIsInRet /\ OrderInv /\ [Next]_vars /\ TypeOK' /\ PushedIsInRet' => OrderInv'
  BY <1>4
<1> QED
  BY <1>1, <1>5, Tokens, PTL DEF Spec, OrderInv

-----------------------------------------------------------------------------
(* The frames of a WebSocket. *)

\* What the server sends after a piece.
Leads(x, y) ==
  IF x = Nul THEN Starts(y)
  ELSE IF x[2] < Lengths[x[1]] THEN y = <<x[1], x[2] + 1>> ELSE y = Nul

Linked(s) == \A i \in 1..(Len(s) - 1) : Leads(s[i], s[i + 1])
After(s, y) == IF s = <<>> THEN Starts(y) ELSE Leads(s[Len(s)], y)

\* The end of what has been received, and of what the server has sent.
Kept == IF stale THEN <<>> ELSE leftover
Read == IF buffer # <<>> THEN buffer ELSE Kept
LastSent == IF frames # <<>> THEN frames[Len(frames)] ELSE Read

\* Leftover, buffer, frames and rest continue one another.
Continued ==
  /\ Linked(leftover) /\ Linked(buffer) /\ Linked(rest)
  /\ leftover # <<>> => Starts(leftover[1])
  /\ ~reading => buffer = <<>>
  /\ reading /\ buffer = <<>> => leftover = <<>>
  /\ buffer # <<>> => After(Kept, buffer[1])
  /\ \A k \in 1..Len(frames) :
       /\ frames[k] # <<>> /\ Linked(frames[k])
       /\ After(IF k = 1 THEN Read ELSE frames[k - 1], frames[k][1])
  /\ rest # <<>> =>
       /\ After(LastSent, rest[1]) /\ rest[Len(rest)] = Nul
       /\ \A i \in 1..(Len(rest) - 1) : rest[i] # Nul
       /\ \A i \in 1..Len(rest) : ~Starts(rest[i])
  /\ ~frameSock => rest = <<>>
  /\ frameSock /\ rest = <<>> => LastSent = <<>> \/ LastSent[Len(LastSent)] = Nul

\* A message that goes on in another frame ends there.
EndsInSecond ==
  /\ buffer # <<>> => Contains(buffer, Nul) \/ Starts(buffer[1])
  /\ \A k \in 1..Len(frames) : Contains(frames[k], Nul) \/ Starts(frames[k][1])

\* The messages ascend.
Below(s, t) ==
  \A i \in 1..Len(s), j \in 1..Len(t) : Starts(s[i]) /\ Starts(t[j]) => s[i][1] < t[j][1]
Exceeds(m, s) == \A i \in 1..Len(s) : Starts(s[i]) => m > s[i][1]
Precedes(m, s) == \A i \in 1..Len(s) : Starts(s[i]) => m < s[i][1]
Rises(s) ==
  \A i, j \in 1..Len(s) : i < j /\ Starts(s[i]) /\ Starts(s[j]) => s[i][1] < s[j][1]
FramesAscend ==
  /\ Rises(buffer) /\ Below(leftover, buffer)
  /\ Exceeds(nextMessage, leftover) /\ Exceeds(nextMessage, buffer)
  /\ \A k \in 1..Len(frames) :
       /\ Rises(frames[k]) /\ Exceeds(nextMessage, frames[k])
       /\ Below(leftover, frames[k]) /\ Below(buffer, frames[k])
       /\ \A l \in 1..Len(frames) : k < l => Below(frames[k], frames[l])
  /\ \A k \in 1..Len(received) :
       Frames!IsWhole(received[k][1]) =>
         LET m == received[k][1][1][1] IN
         /\ m < nextMessage /\ Precedes(m, leftover) /\ Precedes(m, buffer)
         /\ \A l \in 1..Len(frames) : Precedes(m, frames[l])

\* Before the first loss each message has been handed over or is on its way.
OnItsWay ==
  frameDrops = 0 =>
    /\ frameSock /\ ~stale
    /\ \A m \in 1..(nextMessage - 1) :
         \/ \E k \in 1..Len(received) : received[k][1] = Frames!Message(m)
         \/ Contains(leftover, <<m, 1>>) \/ Contains(buffer, <<m, 1>>)
         \/ \E k \in 1..Len(frames) : Contains(frames[k], <<m, 1>>)

FrameInv ==
  /\ Frames!TypeOK /\ Continued /\ EndsInSecond /\ FramesAscend /\ OnItsWay
  /\ Frames!InOrder /\ Frames!OnlyStaleIsTorn

\* Over a WebSocket messages are handed over in the order the server sent them, each
\* once, all of them, and as they were sent unless they begin with what an earlier
\* connection left over, as long as none of them takes three frames
\* (WebSocketServerConnection.cpp:134-136, 184-210).
LEMMA FramesInOrder ==
  ASSUME TwoFrames
  PROVE  Frames!Spec => [](Frames!InOrder /\ Frames!OnlyStaleIsTorn /\ Frames!AllArrive)
<1> USE FramesAssumption, BoundAssumption
<1> DEFINE W == Frames!Pieces
           P == W \cup {Nul}
           R == Seq(W) \X BOOLEAN
<1>1. /\ Frames!Sent = 1..Len(Lengths) /\ Len(Lengths) \in Nat
      /\ \A m \in Frames!Sent : Lengths[m] \in Nat \ {0}
  <2>1. Frames!Sent = 1..Len(Lengths) /\ Len(Lengths) \in Nat
    BY LenProperties DEF Frames!Sent
  <2> QED
    BY <2>1, ElementOfSeq
<1>2. /\ \A x \in W : x[1] \in Frames!Sent /\ x[2] \in 1..Lengths[x[1]] /\ x = <<x[1], x[2]>> /\ x # Nul
      /\ \A m \in Frames!Sent, i \in Nat : <<m, i>> \in W <=> i \in 1..Lengths[m]
      /\ Frames!Nul = Nul
  <2>1. ASSUME NEW x \in W
        PROVE  x[1] \in Frames!Sent /\ x[2] \in 1..Lengths[x[1]] /\ x = <<x[1], x[2]>> /\ x # Nul
    <3>1. PICK m \in Frames!Sent, i \in Nat : i \in 1..Lengths[m] /\ x = <<m, i>>
      BY <1>1 DEF Frames!Pieces
    <3>2. x[1] = m /\ x[2] = i
      BY <3>1
    <3>3. x # Nul
      BY <3>1 DEF Nul
    <3> QED
      BY <3>1, <3>2, <3>3
  <2>2. ASSUME NEW m \in Frames!Sent, NEW i \in Nat, <<m, i>> \in W PROVE i \in 1..Lengths[m]
    <3>1. <<m, i>>[1] = m /\ <<m, i>>[2] = i
      OBVIOUS
    <3> HIDE DEF W
    <3> QED
      BY <2>1, <2>2, <3>1
  <2>3. \A m \in Frames!Sent, i \in Nat : i \in 1..Lengths[m] => <<m, i>> \in W
    BY DEF Frames!Pieces
  <2>4. Frames!Nul = Nul
    BY DEF Nul, Frames!Nul
  <2> QED
    BY <2>1, <2>2, <2>3, <2>4
<1>3. \A x \in W : x[2] \in Nat \ {0} /\ x[1] \in Nat \ {0} /\ Lengths[x[1]] \in Nat
  BY <1>1, <1>2
<1> HIDE DEF W
\* Sequences of pieces, frames and messages.
<1>4. \A s \in Seq(P) : /\ Len(s) \in Nat /\ DOMAIN s = 1..Len(s) /\ \A i \in 1..Len(s) : s[i] \in P
                        /\ s = <<>> <=> Len(s) = 0
  BY LenProperties, ElementOfSeq, EmptySeq
<1>5. \A s \in Seq(W) : s \in Seq(P) /\ \A i \in 1..Len(s) : s[i] \in W
  <2>1. W \subseteq P
    OBVIOUS
  <2> QED
    BY <2>1, SeqMonotonic, ElementOfSeq
<1>6. \A s \in Seq(Seq(P)) : /\ Len(s) \in Nat /\ DOMAIN s = 1..Len(s) /\ \A i \in 1..Len(s) : s[i] \in Seq(P)
                             /\ s = <<>> <=> Len(s) = 0
  BY LenProperties, ElementOfSeq, EmptySeq
<1>7. \A s \in Seq(R) : /\ Len(s) \in Nat /\ DOMAIN s = 1..Len(s) /\ \A i \in 1..Len(s) : s[i] \in R
  BY LenProperties, ElementOfSeq, EmptySeq
<1>8. \A s \in Seq(P), t \in Seq(P) :
        /\ s \o t \in Seq(P) /\ Len(s \o t) = Len(s) + Len(t)
        /\ \A i \in 1..(Len(s) + Len(t)) : (s \o t)[i] = IF i <= Len(s) THEN s[i] ELSE t[i - Len(s)]
  BY ConcatProperties
<1>9. \A s \in Seq(P), n \in Nat : n <= Len(s) =>
        /\ SubSeq(s, 1, n) \in Seq(P) /\ Len(SubSeq(s, 1, n)) = n
        /\ \A i \in 1..n : SubSeq(s, 1, n)[i] = s[i]
        /\ SubSeq(s, n + 1, Len(s)) \in Seq(P) /\ Len(SubSeq(s, n + 1, Len(s))) = Len(s) - n
        /\ \A i \in 1..(Len(s) - n) : SubSeq(s, n + 1, Len(s))[i] = s[i + n]
  BY SliceFacts
<1>10. \A m \in Frames!Sent :
         /\ Frames!Message(m) \in Seq(W) /\ Len(Frames!Message(m)) = Lengths[m]
         /\ \A i \in 1..Lengths[m] : Frames!Message(m)[i] = <<m, i>>
         /\ Frames!OnWire(m) \in Seq(P) /\ Len(Frames!OnWire(m)) = Lengths[m] + 1
         /\ \A i \in 1..Lengths[m] : Frames!OnWire(m)[i] = <<m, i>>
         /\ Frames!OnWire(m)[Lengths[m] + 1] = Nul
  <2> SUFFICES ASSUME NEW m \in Frames!Sent
               PROVE  /\ Frames!Message(m) \in Seq(W) /\ Len(Frames!Message(m)) = Lengths[m]
                      /\ \A i \in 1..Lengths[m] : Frames!Message(m)[i] = <<m, i>>
                      /\ Frames!OnWire(m) \in Seq(P) /\ Len(Frames!OnWire(m)) = Lengths[m] + 1
                      /\ \A i \in 1..Lengths[m] : Frames!OnWire(m)[i] = <<m, i>>
                      /\ Frames!OnWire(m)[Lengths[m] + 1] = Nul
    OBVIOUS
  <2> DEFINE t == Frames!Message(m)
  <2>1. t \in Seq(W) /\ Len(t) = Lengths[m] /\ \A i \in 1..Lengths[m] : t[i] = <<m, i>>
    <3>1. Lengths[m] \in Nat /\ \A i \in 1..Lengths[m] : <<m, i>> \in W
      BY <1>1, <1>2
    <3>2. t = [i \in 1..Lengths[m] |-> <<m, i>>]
      BY DEF Frames!Message
    <3>3. t \in [1..Lengths[m] -> W]
      BY <3>1, <3>2
    <3>4. t \in Seq(W)
      BY <3>1, <3>3, SeqDef
    <3> HIDE DEF t
    <3>5. Len(t) \in Nat /\ 1..Len(t) = 1..Lengths[m]
      BY <3>3, <3>4, LenProperties
    <3>6. \A a, b \in Nat : 1..a = 1..b => a = b
      <4> SUFFICES ASSUME NEW a \in Nat, NEW b \in Nat, 1..a = 1..b PROVE ~(a < b) /\ ~(b < a)
        OBVIOUS
      <4>1. b \in 1..a => b <= a
        OBVIOUS
      <4>2. a \in 1..b => a <= b
        OBVIOUS
      <4>3. b > 0 => b \in 1..b
        OBVIOUS
      <4>4. a > 0 => a \in 1..a
        OBVIOUS
      <4> QED
        BY <4>1, <4>2, <4>3, <4>4
    <3> QED
      BY <3>1, <3>2, <3>4, <3>5, <3>6
  <2>2. Frames!OnWire(m) = Append(t, Nul) /\ t \in Seq(P) /\ Nul \in P
    BY <1>2, <1>5, <2>1 DEF Frames!OnWire
  <2> HIDE DEF t
  <2>3. /\ Append(t, Nul) \in Seq(P) /\ Len(Append(t, Nul)) = Len(t) + 1
        /\ \A i \in 1..Len(t) : Append(t, Nul)[i] = t[i]
        /\ Append(t, Nul)[Len(t) + 1] = Nul
    BY <2>2, AppendProperties
  <2> QED
    BY <2>1, <2>2, <2>3 DEF t
<1> HIDE DEF P, R
<1>11. \A s \in Seq(Seq(P)), e \in Seq(P) :
        /\ Append(s, e) \in Seq(Seq(P)) /\ Append(s, e) # <<>> /\ Len(Append(s, e)) = Len(s) + 1
        /\ \A k \in 1..Len(s) : Append(s, e)[k] = s[k]
        /\ Append(s, e)[Len(s) + 1] = e
  BY AppendProperties
\* A text that begins with the beginning of a message, goes on with what follows, and
\* in front of a NUL, is that message.
<1>12. ASSUME NEW t \in Seq(W), Len(t) \in Nat \ {0}, Starts(t[1]),
             \A i \in 1..Len(t) : Leads(t[i], IF i < Len(t) THEN t[i + 1] ELSE Nul)
      PROVE  t[1][1] \in Frames!Sent /\ t = Frames!Message(t[1][1])
  <2> DEFINE m == t[1][1]
             Bad == {i \in 1..Len(t) : t[i] # <<m, i>>}
  <2>1. \A i \in 1..Len(t) : t[i] \in W
    BY <1>12, <1>5
  <2>2. t[1] = <<m, 1>> /\ m \in Frames!Sent
    BY <1>12, <1>2, <2>1 DEF Starts
  <2>3. Bad = {}
    <3> SUFFICES ASSUME Bad # {} PROVE FALSE
      OBVIOUS
    <3>1. Bad \subseteq Nat
      OBVIOUS
    <3>2. PICK i \in Bad : \A j \in Bad : i <= j
      <4> HIDE DEF Bad
      <4> QED
        BY <3>1, LeastNumber
    <3>3. i \in 2..Len(t) /\ t[i] # <<m, i>>
      BY <2>2, <3>2
    <3> DEFINE j == i - 1
    <3>4. j \in Nat \ {0} /\ j + 1 = i /\ j \in 1..Len(t) /\ j < Len(t) /\ j \notin Bad
      BY <3>2, <3>3, SMTT(30)
    <3>5. t[j] = <<m, j>>
      BY <3>4
    <3> HIDE DEF j, Bad, m
    <3>6. Leads(t[j], t[i])
      <4>1. Leads(t[j], IF j < Len(t) THEN t[j + 1] ELSE Nul)
        BY <1>12, <3>4
      <4> QED
        BY <3>4, <4>1
    <3>7. t[i] \in W /\ t[i] # Nul
      BY <1>2, <2>1, <3>3
    <3>8. t[j] # Nul /\ t[j][1] = m /\ t[j][2] = j
      BY <1>2, <2>1, <3>4, <3>5
    <3>9. t[i] = <<m, j + 1>>
      BY <3>6, <3>7, <3>8 DEF Leads
    <3> QED
      BY <3>3, <3>4, <3>9
  <2>4. \A i \in 1..Len(t) : t[i] = <<m, i>>
    BY <2>3
  <2> HIDE DEF m, Bad
  <2>5. Len(t) = Lengths[m]
    <3> DEFINE n == Len(t)
    <3>1. n \in Nat \ {0} /\ n \in 1..Len(t) /\ t[n] = <<m, n>> /\ t[n] \in W
      BY <1>12, <2>1, <2>4
    <3>2. Leads(t[n], Nul)
      <4>1. Leads(t[n], IF n < Len(t) THEN t[n + 1] ELSE Nul)
        BY <1>12, <3>1
      <4> QED
        BY <1>12, <4>1
    <3> HIDE DEF n
    <3>3. t[n] # Nul /\ t[n][1] = m /\ t[n][2] = n /\ n \in 1..Lengths[m] /\ Lengths[m] \in Nat
      BY <1>1, <1>2, <2>2, <3>1
    <3>4. ~(n < Lengths[m])
      <4> SUFFICES ASSUME n < Lengths[m] PROVE FALSE
        OBVIOUS
      <4>1. Nul = <<m, n + 1>>
        BY <3>2, <3>3 DEF Leads
      <4> QED
        BY <4>1 DEF Nul
    <3>5. n = Lengths[m]
      BY <3>3, <3>4
    <3> QED
      BY <3>5 DEF n
  <2>6. t = Frames!Message(m)
    <3>1. /\ Frames!Message(m) \in Seq(W) /\ Len(Frames!Message(m)) = Lengths[m]
          /\ \A i \in 1..Lengths[m] : Frames!Message(m)[i] = <<m, i>>
      BY <1>10, <2>2
    <3>2. \A i \in 1..Len(t) : t[i] = Frames!Message(m)[i]
      BY <2>4, <2>5, <3>1
    <3> QED
      BY <1>12, <2>5, <3>1, <3>2, SeqEqual
  <2> QED
    BY <2>2, <2>6 DEF m
<1>13. Frames!Init => FrameInv
  <2> SUFFICES ASSUME Frames!Init PROVE FrameInv
    OBVIOUS
  <2> USE DEF Frames!Init
  <2>1. Frames!TypeOK
    <3>1. \A S : <<>> \in Seq(S)
      BY EmptySeq
    <3>2. /\ rest \in Seq(Frames!Pieces \cup {Frames!Nul}) /\ buffer \in Seq(Frames!Pieces \cup {Frames!Nul})
          /\ frames \in Seq(Seq(Frames!Pieces \cup {Frames!Nul})) /\ leftover \in Seq(Frames!Pieces)
          /\ received \in Seq(Seq(Frames!Pieces) \X BOOLEAN)
      BY <3>1
    <3>3. nextMessage \in Nat \ {0} /\ frameDrops \in 0..MaxDrops
      OBVIOUS
    <3> QED
      BY <3>2, <3>3 DEF Frames!TypeOK
  <2>2. /\ Len(rest) = 0 /\ Len(buffer) = 0 /\ Len(leftover) = 0 /\ Len(frames) = 0 /\ Len(received) = 0
        /\ DOMAIN received = {} /\ LastSent = <<>>
    BY DEF LastSent, Read, Kept
  <2>3. Linked(leftover) /\ Linked(buffer) /\ Linked(rest)
    BY <2>2 DEF Linked
  <2>4. Continued /\ EndsInSecond
    BY <2>2, <2>3 DEF Continued, EndsInSecond
  <2>5. FramesAscend
    BY <2>2 DEF FramesAscend, Rises, Below, Exceeds
  <2>6. OnItsWay
    BY <2>2 DEF OnItsWay
  <2>7. Frames!InOrder /\ Frames!OnlyStaleIsTorn
    BY <2>2 DEF Frames!InOrder, Frames!OnlyStaleIsTorn
  <2> QED
    BY <2>1, <2>4, <2>5, <2>6, <2>7 DEF FrameInv
<1>14. ASSUME FrameInv, [Frames!Next]_(Frames!vars) PROVE FrameInv'
  <2>0. /\ Frames!TypeOK /\ Continued /\ EndsInSecond /\ FramesAscend /\ OnItsWay
        /\ Frames!InOrder /\ Frames!OnlyStaleIsTorn
        /\ leftover \in Seq(W) /\ leftover \in Seq(P) /\ buffer \in Seq(P) /\ rest \in Seq(P)
        /\ frames \in Seq(Seq(P)) /\ received \in Seq(R)
        /\ Len(frames) \in Nat /\ Len(buffer) \in Nat /\ Len(leftover) \in Nat /\ Len(received) \in Nat
    <3>1. Frames!TypeOK
      BY <1>14 DEF FrameInv
    <3>2. /\ leftover \in Seq(W) /\ buffer \in Seq(P) /\ rest \in Seq(P)
          /\ frames \in Seq(Seq(P)) /\ received \in Seq(R)
      BY <3>1, <1>2 DEF Frames!TypeOK, P, W, R
    <3> QED
      BY <3>1, <3>2, <1>4, <1>5, <1>6, <1>7, <1>14 DEF FrameInv
  <2>1. CASE Frames!ReceiveBytes
    <3>1. /\ ~reading /\ reading' = TRUE /\ buffer = <<>> /\ frames # <<>>
          /\ buffer' = Head(frames) /\ frames' = Tail(frames)
          /\ UNCHANGED <<nextMessage, rest, frameSock, leftover, stale, frameDrops, received>>
      BY <2>0, <2>1 DEF Frames!ReceiveBytes, Continued
    <3>2. /\ Len(frames) \in Nat \ {0} /\ frames[1] \in Seq(P) /\ buffer' = frames[1]
          /\ frames' \in Seq(Seq(P)) /\ Len(frames') = Len(frames) - 1
          /\ \A k \in 1..(Len(frames) - 1) : frames'[k] = frames[k + 1]
          /\ frames' = <<>> <=> Len(frames) = 1
      <4>1. Len(frames) \in Nat \ {0} /\ frames[1] \in Seq(P)
        BY <2>0, <3>1, <1>6
      <4>2. Head(frames) = frames[1]
        OBVIOUS
      <4>3. /\ Tail(frames) \in Seq(Seq(P)) /\ Len(Tail(frames)) = Len(frames) - 1
            /\ \A k \in 1..Len(Tail(frames)) : Tail(frames)[k] = frames[k + 1]
        BY <2>0, <3>1, HeadTailProperties
      <4>4. frames' = <<>> <=> Len(frames') = 0
        BY <3>1, <4>3, <1>6
      <4> QED
        BY <3>1, <4>1, <4>2, <4>3, <4>4
    <3>3. Frames!TypeOK'
      BY <2>0, <3>1, <3>2, <1>2 DEF Frames!TypeOK, P, W
    <3>4. /\ frames[1] # <<>> /\ Read = Kept /\ Read' = frames[1] /\ Kept' = Kept /\ LastSent' = LastSent
          /\ \A k \in 1..(Len(frames) - 1) : k + 1 \in 1..Len(frames)
      <4>1. frames[1] # <<>>
        BY <2>0, <3>2 DEF Continued
      <4>2. Len(frames) # 1 => frames'[Len(frames')] = frames[Len(frames)]
        BY <3>2
      <4> QED
        BY <3>1, <3>2, <4>1, <4>2 DEF Read, Kept, LastSent
    <3>5. Continued'
      <4>1. ASSUME NEW k \in 1..Len(frames')
            PROVE  /\ frames'[k] # <<>> /\ Linked(frames'[k])
                   /\ After(IF k = 1 THEN Read' ELSE frames'[k - 1], frames'[k][1])
        <5>1. /\ k + 1 \in 1..Len(frames) /\ frames'[k] = frames[k + 1] /\ k + 1 # 1 /\ (k + 1) - 1 = k
              /\ k # 1 => frames'[k - 1] = frames[k]
          <6>1. k + 1 \in 1..Len(frames) /\ k + 1 # 1 /\ (k + 1) - 1 = k /\ k \in 1..(Len(frames) - 1)
            BY <3>2, <4>1
          <6>2. k # 1 => k - 1 \in 1..(Len(frames) - 1) /\ (k - 1) + 1 = k
            BY <6>1
          <6> QED
            BY <3>2, <6>1, <6>2
        <5>2. /\ frames[k + 1] # <<>> /\ Linked(frames[k + 1]) /\ After(frames[k], frames[k + 1][1])
          BY <2>0, <5>1 DEF Continued
        <5> QED
          BY <3>4, <5>1, <5>2
      <4>2. 1 \in 1..Len(frames)
        BY <3>2
      <4>3. Linked(frames[1]) /\ After(Kept, frames[1][1])
        BY <2>0, <3>4, <4>2 DEF Continued
      <4> QED
        BY <2>0, <3>1, <3>2, <3>4, <4>1, <4>3 DEF Continued
    <3>6. EndsInSecond'
      <4>1. 1 \in 1..Len(frames)
        BY <3>2
      <4> QED
        BY <2>0, <3>2, <3>4, <4>1 DEF EndsInSecond
    <3>7. FramesAscend'
      <4>1. 1 \in 1..Len(frames)
        BY <3>2
      <4>2. \A k, l \in 1..(Len(frames) - 1) : k < l => k + 1 < l + 1
        BY <3>2
      <4>3. \A k \in 1..(Len(frames) - 1) : 1 < k + 1
        BY <3>2
      <4> QED
        <5>1. /\ Rises(buffer') /\ Below(leftover, buffer')
              /\ Exceeds(nextMessage, leftover) /\ Exceeds(nextMessage, buffer')
          BY <2>0, <3>2, <4>1 DEF FramesAscend
        <5>2. ASSUME NEW k \in 1..Len(frames')
              PROVE  /\ Rises(frames'[k]) /\ Exceeds(nextMessage, frames'[k])
                     /\ Below(leftover, frames'[k]) /\ Below(buffer', frames'[k])
                     /\ \A l \in 1..Len(frames') : k < l => Below(frames'[k], frames'[l])
          <6>1. k \in 1..(Len(frames) - 1) /\ frames'[k] = frames[k + 1] /\ k + 1 \in 1..Len(frames) /\ 1 < k + 1
            BY <3>2, <3>4, <5>2
          <6>2. ASSUME NEW l \in 1..Len(frames'), k < l PROVE Below(frames'[k], frames'[l])
            <7>1. frames'[l] = frames[l + 1] /\ l + 1 \in 1..Len(frames) /\ k + 1 < l + 1
              BY <3>2, <3>4, <6>2
            <7> QED
              BY <2>0, <6>1, <7>1 DEF FramesAscend
          <6> QED
            BY <2>0, <3>2, <4>1, <6>1, <6>2 DEF FramesAscend
        <5>3. ASSUME NEW k \in 1..Len(received), Frames!IsWhole(received[k][1])
              PROVE  LET m == received[k][1][1][1] IN
                     /\ m < nextMessage /\ Precedes(m, leftover) /\ Precedes(m, buffer')
                     /\ \A l \in 1..Len(frames') : Precedes(m, frames'[l])
          <6>1. \A l \in 1..Len(frames') : l + 1 \in 1..Len(frames) /\ frames'[l] = frames[l + 1]
            BY <3>2, <3>4
          <6> QED
            BY <2>0, <3>2, <4>1, <5>3, <6>1 DEF FramesAscend
        <5> QED
          BY <3>1, <5>1, <5>2, <5>3 DEF FramesAscend
    <3>8. OnItsWay'
      <4>1. ASSUME NEW k \in 1..Len(frames), NEW x, Contains(frames[k], x)
            PROVE  Contains(buffer', x) \/ \E l \in 1..Len(frames') : Contains(frames'[l], x)
        <5>1. CASE k = 1
          BY <3>2, <4>1, <5>1
        <5>2. CASE k # 1
          <6>1. k - 1 \in 1..Len(frames') /\ frames'[k - 1] = frames[k]
            BY <3>2, <5>2
          <6> QED
            BY <4>1, <6>1
        <5> QED
          BY <5>1, <5>2
      <4>2. \A x : ~Contains(buffer, x)
        BY <3>1 DEF Contains
      <4> QED
        BY <2>0, <3>1, <4>1, <4>2 DEF OnItsWay
    <3>9. Frames!InOrder' /\ Frames!OnlyStaleIsTorn'
      BY <2>0, <3>1 DEF Frames!InOrder, Frames!OnlyStaleIsTorn
    <3> QED
      BY <3>3, <3>5, <3>6, <3>7, <3>8, <3>9 DEF FrameInv
  \* A leftover that is not stale goes on in the frame behind it.
  <2>8. ASSUME leftover # <<>>, ~stale, buffer # <<>> PROVE ~Starts(buffer[1])
    <3>1. leftover[Len(leftover)] \in W
      <4>1. Len(leftover) \in 1..Len(leftover)
        BY <2>0, <2>8, <1>4
      <4> QED
        BY <2>0, <4>1, <1>5
    <3>2. Leads(leftover[Len(leftover)], buffer[1])
      BY <2>0, <2>8 DEF Continued, Kept, After
    <3> DEFINE x == leftover[Len(leftover)]
    <3> HIDE DEF x
    <3>3. x # Nul /\ x[2] \in Nat \ {0}
      BY <3>1, <1>2, <1>3 DEF x
    <3>4. buffer[1] = Nul \/ buffer[1] = <<x[1], x[2] + 1>>
      BY <3>2, <3>3 DEF Leads, x
    <3>5. <<x[1], x[2] + 1>>[2] # 1
      BY <3>3
    <3> QED
      BY <3>4, <3>5 DEF Starts
  <2>2. CASE Frames!KeepLeftover
    <3>1. /\ reading /\ ~Frames!HasNul /\ leftover' = buffer /\ stale' = FALSE /\ buffer' = <<>> /\ reading' = FALSE
          /\ UNCHANGED <<nextMessage, rest, frameSock, frames, frameDrops, received>>
      BY <2>2 DEF Frames!KeepLeftover
    <3>2. buffer \in Seq(W) /\ ~Contains(buffer, Nul)
      <4>1. \A i \in 1..Len(buffer) : buffer[i] # Nul /\ buffer[i] \in P
        BY <2>0, <3>1, <1>2, <1>4 DEF Frames!HasNul
      <4>2. buffer \in [1..Len(buffer) -> P]
        BY <2>0, LenProperties
      <4>3. buffer \in [1..Len(buffer) -> W]
        BY <4>1, <4>2 DEF P
      <4>4. buffer \in Seq(W)
        <5>1. \A n \in Nat : \A f \in [1..n -> W] : f \in Seq(W)
          BY SeqDef
        <5> QED
          BY <2>0, <4>3, <5>1, Zenon
      <4> QED
        BY <2>0, <4>1, <4>4 DEF Contains
    <3>3. Frames!TypeOK'
      BY <2>0, <3>1, <3>2, EmptySeq DEF Frames!TypeOK, W
    <3>4. Read' = Read /\ LastSent' = LastSent
      BY <2>0, <3>1 DEF Read, LastSent, Kept, Continued
    <3>5. Len(<<>>) = 0 /\ Linked(<<>>) /\ Rises(<<>>) /\ \A m, t : Below(t, <<>>) /\ Below(<<>>, t) /\ Exceeds(m, <<>>) /\ Precedes(m, <<>>)
      BY DEF Linked, Rises, Below, Exceeds, Precedes
    <3>6. Continued'
      <4>1. buffer # <<>> => Starts(buffer[1])
        BY <2>0, <3>2 DEF EndsInSecond
      <4> QED
        BY <2>0, <3>1, <3>4, <3>5, <4>1 DEF Continued
    <3>7. EndsInSecond'
      BY <2>0, <3>1 DEF EndsInSecond
    <3>8. FramesAscend'
      BY <2>0, <3>1, <3>5 DEF FramesAscend
    <3>9. OnItsWay'
      <4>1. ~stale => \A x : ~Contains(leftover, x)
        <5>1. ~stale => leftover = <<>>
          BY <2>0, <2>8, <3>1, <3>2 DEF Continued, EndsInSecond
        <5> QED
          BY <5>1 DEF Contains
      <4> QED
        BY <2>0, <3>1, <4>1 DEF OnItsWay
    <3>10. Frames!InOrder' /\ Frames!OnlyStaleIsTorn'
      BY <2>0, <3>1 DEF Frames!InOrder, Frames!OnlyStaleIsTorn
    <3> QED
      BY <3>3, <3>6, <3>7, <3>8, <3>9, <3>10 DEF FrameInv
  \* A new connection: nothing is on its way.
  <2>3. CASE Frames!Reconnect \/ Frames!ReconnectAfterClose
    <3>1. /\ ~frameSock /\ ~reading /\ frames = <<>> /\ frameSock' = TRUE
          /\ leftover' = <<>> \/ leftover' = leftover
          /\ stale' \in BOOLEAN /\ (stale' <=> leftover' # <<>>)
          /\ UNCHANGED <<nextMessage, rest, frames, reading, buffer, frameDrops, received>>
      <4>1. CASE Frames!Reconnect
        BY <4>1 DEF Frames!Reconnect
      <4>2. CASE Frames!ReconnectAfterClose
        BY <4>2 DEF Frames!ReconnectAfterClose
      <4> QED
        BY <2>3, <4>1, <4>2
    <3>2. buffer = <<>> /\ rest = <<>> /\ Len(frames) = 0 /\ frameDrops # 0
      BY <2>0, <3>1 DEF Continued, OnItsWay
    <3>3. Frames!TypeOK'
      <4>1. <<>> \in Seq(Frames!Pieces)
        BY EmptySeq
      <4>2. leftover' \in Seq(Frames!Pieces)
        BY <2>0, <3>1, <4>1 DEF Frames!TypeOK
      <4>3. frameSock' \in BOOLEAN /\ stale' \in BOOLEAN
        BY <3>1
      <4> QED
        BY <2>0, <3>1, <4>2, <4>3, Zenon DEF Frames!TypeOK
    <3>4. Kept' = <<>> /\ Read' = <<>> /\ LastSent' = <<>>
      BY <3>1, <3>2 DEF Read, LastSent, Kept
    <3>5. Len(<<>>) = 0 /\ Linked(<<>>) /\ Rises(<<>>) /\ \A m, t : Below(t, <<>>) /\ Below(<<>>, t) /\ Exceeds(m, <<>>) /\ Precedes(m, <<>>)
      BY DEF Linked, Rises, Below, Exceeds, Precedes
    <3>6. Continued'
      BY <2>0, <3>1, <3>2, <3>4, <3>5 DEF Continued
    <3>7. EndsInSecond'
      BY <2>0, <3>1, <3>2 DEF EndsInSecond
    <3>8. FramesAscend'
      BY <2>0, <3>1, <3>2, <3>5 DEF FramesAscend
    <3>9. OnItsWay'
      BY <3>1, <3>2 DEF OnItsWay
    <3>10. Frames!InOrder' /\ Frames!OnlyStaleIsTorn'
      BY <2>0, <3>1 DEF Frames!InOrder, Frames!OnlyStaleIsTorn
    <3> QED
      BY <3>3, <3>6, <3>7, <3>8, <3>9, <3>10 DEF FrameInv
  <2>4. CASE Frames!Drop
    <3>1. /\ frameSock' = FALSE /\ frameDrops' = frameDrops + 1 /\ frameDrops < MaxDrops /\ rest' = <<>>
          /\ UNCHANGED <<nextMessage, reading, buffer, leftover, stale, received>>
      BY <2>4 DEF Frames!Drop
    <3>2. PICK n \in 0..Len(frames) : frames' = SubSeq(frames, 1, n)
      BY <2>4 DEF Frames!Drop
    <3>3. /\ frames' \in Seq(Seq(P)) /\ Len(frames') = n
          /\ \A k \in 1..n : frames'[k] = frames[k] /\ k \in 1..Len(frames)
      <4>1. n \in Nat /\ n <= Len(frames)
        BY <2>0, <3>2
      <4>2. /\ SubSeq(frames, 1, n) \in Seq(Seq(P)) /\ Len(SubSeq(frames, 1, n)) = n
            /\ \A k \in 1..n : SubSeq(frames, 1, n)[k] = frames[k]
        BY <2>0, <4>1, SliceFacts
      <4> QED
        BY <2>0, <3>2, <4>1, <4>2
    <3>4. Frames!TypeOK'
      <4>1. frameDrops' \in 0..MaxDrops
        BY <2>0, <3>1 DEF Frames!TypeOK
      <4> QED
        BY <2>0, <3>1, <3>3, <4>1, <1>2, EmptySeq DEF Frames!TypeOK, P, W
    <3>5. Len(<<>>) = 0 /\ Linked(<<>>)
      BY DEF Linked
    <3>6. Continued'
      <4>1. ASSUME NEW k \in 1..n
            PROVE  /\ frames'[k] # <<>> /\ Linked(frames'[k])
                   /\ After(IF k = 1 THEN Read ELSE frames'[k - 1], frames'[k][1])
        <5>1. k # 1 => frames'[k - 1] = frames[k - 1]
          BY <3>2, <3>3
        <5> QED
          BY <2>0, <3>3, <5>1 DEF Continued
      <4>2. Read' = Read /\ Kept' = Kept
        BY <3>1 DEF Read, Kept
      <4> QED
        BY <2>0, <3>1, <3>3, <3>5, <4>1, <4>2 DEF Continued
    <3>7. EndsInSecond'
      BY <2>0, <3>1, <3>3 DEF EndsInSecond
    <3>8. FramesAscend'
      BY <2>0, <3>1, <3>3 DEF FramesAscend
    <3>9. OnItsWay'
      BY <2>0, <3>1 DEF OnItsWay, Frames!TypeOK
    <3>10. Frames!InOrder' /\ Frames!OnlyStaleIsTorn'
      BY <2>0, <3>1 DEF Frames!InOrder, Frames!OnlyStaleIsTorn
    <3> QED
      BY <3>4, <3>6, <3>7, <3>8, <3>9, <3>10 DEF FrameInv
  <2>5. CASE Frames!CutMessage
    <3> DEFINE n == Frames!FirstNul
               N == Len(buffer)
               L == Len(leftover)
               before == SubSeq(buffer, 1, n - 1)
               text == leftover \o before
               item == <<text, stale /\ leftover # <<>>>>
    <3>1. /\ reading /\ Frames!HasNul /\ received' = Append(received, item)
          /\ buffer' = SubSeq(buffer, n + 1, Len(buffer)) /\ leftover' = <<>> /\ stale' = FALSE
          /\ UNCHANGED <<nextMessage, rest, frameSock, frames, reading, frameDrops>>
      BY <2>5 DEF Frames!CutMessage, Frames!Cut
    <3>2. /\ n \in 1..N /\ buffer[n] = Nul /\ \A j \in 1..(n - 1) : buffer[j] # Nul
          /\ N \in Nat \ {0} /\ n \in Nat \ {0} /\ L \in Nat
      <4> DEFINE At == {k \in DOMAIN buffer : buffer[k] = Nul}
      <4>1. DOMAIN buffer = 1..N /\ N \in Nat /\ L \in Nat
        BY <2>0, <1>4
      <4>2. At \subseteq Nat /\ At # {}
        BY <3>1, <4>1, <1>2 DEF Frames!HasNul
      <4>3. PICK k \in At : \A j \in At : k <= j
        <5> HIDE DEF At
        <5> QED
          BY <4>2, LeastNumber
      <4>4. \A j \in 1..(k - 1) : buffer[j] # Nul
        BY <4>1, <4>3
      <4>5. n \in DOMAIN buffer /\ buffer[n] = Nul /\ \A j \in 1..(n - 1) : buffer[j] # Nul
        BY <4>3, <4>4, <1>2 DEF Frames!FirstNul
      <4> HIDE DEF n, N, L
      <4> QED
        BY <4>1, <4>5
    <3> HIDE DEF n
    <3>3. before \in Seq(W) /\ Len(before) = n - 1 /\ \A k \in 1..(n - 1) : before[k] = buffer[k]
      <4>1. \A k \in 1..(n - 1) : buffer[k] \in W
        BY <2>0, <3>2, <1>4 DEF P
      <4>2. 1 \in Int /\ n - 1 \in Int
        BY <3>2
      <4>3. /\ before \in Seq(W) /\ Len(before) = (IF 1 <= n - 1 THEN (n - 1) - 1 + 1 ELSE 0)
            /\ \A k \in 1..((n - 1) - 1 + 1) : before[k] = buffer[1 + k - 1]
        BY <4>1, <4>2, SubSeqProperties
      <4> HIDE DEF before
      <4> QED
        BY <3>2, <4>3
    <3> HIDE DEF before
    <3>4. /\ text \in Seq(W) /\ Len(text) = L + (n - 1)
          /\ \A k \in 1..(L + (n - 1)) : text[k] = IF k <= L THEN leftover[k] ELSE buffer[k - L]
      <4>1. /\ text \in Seq(W) /\ Len(text) = L + Len(before)
            /\ \A k \in 1..(L + Len(before)) : text[k] = IF k <= L THEN leftover[k] ELSE before[k - L]
        BY <2>0, <3>3, ConcatProperties
      <4> HIDE DEF text
      <4>2. \A k \in 1..(L + (n - 1)) : ~(k <= L) => k - L \in 1..(n - 1)
        BY <3>2
      <4> QED
        BY <3>3, <4>1, <4>2
    <3> HIDE DEF text
    <3>5. /\ buffer' \in Seq(P) /\ Len(buffer') = N - n /\ \A k \in 1..(N - n) : buffer'[k] = buffer[k + n] /\ k + n \in 1..N
          /\ buffer # <<>> /\ (buffer' = <<>> <=> N = n)
      <4>1. buffer' \in Seq(P) /\ Len(buffer') = N - n /\ \A k \in 1..(N - n) : buffer'[k] = buffer[k + n]
        BY <2>0, <3>1, <3>2, <1>9
      <4>2. (buffer' = <<>> <=> Len(buffer') = 0) /\ (buffer = <<>> <=> N = 0)
        BY <2>0, <4>1, <1>4
      <4> HIDE DEF N
      <4> QED
        BY <3>2, <4>1, <4>2
    <3>6. /\ received' \in Seq(R) /\ Len(received') = Len(received) + 1
          /\ \A k \in 1..Len(received) : received'[k] = received[k]
          /\ received'[Len(received) + 1] = item /\ item \in R
      <4>1. item \in R
        <5>1. (stale /\ leftover # <<>>) \in BOOLEAN
          OBVIOUS
        <5> QED
          BY <3>4, <5>1 DEF R
      <4> HIDE DEF item
      <4> QED
        BY <2>0, <3>1, <4>1, AppendProperties
    <3>7. item[1] = text /\ (item[2] <=> stale /\ leftover # <<>>)
      OBVIOUS
    <3> HIDE DEF item
    \* Where the text begins.
    <3>8. /\ leftover # <<>> => L \in Nat \ {0} /\ text[1] = leftover[1] /\ Starts(text[1])
          /\ leftover = <<>> => L = 0 /\ n > 1 /\ text[1] = buffer[1] /\ Starts(text[1])
          /\ Len(text) \in Nat \ {0}
      <4>1. leftover = <<>> <=> L = 0
        BY <2>0, <1>4
      <4>2. leftover = <<>> => Starts(buffer[1])
        BY <2>0, <3>5 DEF Continued, Kept, After
      <4>3. Starts(buffer[1]) => n # 1
        BY <3>2 DEF Starts
      <4>4. leftover # <<>> => Starts(leftover[1])
        BY <2>0 DEF Continued
      <4> HIDE DEF L, N
      <4> QED
        BY <3>2, <3>4, <4>1, <4>2, <4>3, <4>4
    \* The text is a message, or begins with a stale leftover.
    <3>9. ~item[2] => text[1][1] \in Frames!Sent /\ text = Frames!Message(text[1][1])
      <4> SUFFICES ASSUME ~stale \/ leftover = <<>>
                   PROVE  \A k \in 1..Len(text) : Leads(text[k], IF k < Len(text) THEN text[k + 1] ELSE Nul)
        BY <3>4, <3>7, <3>8, <1>12
      <4> SUFFICES ASSUME NEW k \in 1..(L + (n - 1))
                   PROVE  Leads(text[k], IF k < L + (n - 1) THEN text[k + 1] ELSE Nul)
        BY <3>4
      <4>1. CASE k < L
        <5>1. k \in 1..(L - 1) /\ k + 1 <= L /\ k + 1 \in 1..(L + (n - 1)) /\ k < L + (n - 1)
          BY <3>2, <4>1
        <5>2. Leads(leftover[k], leftover[k + 1])
          BY <2>0, <5>1 DEF Continued, Linked
        <5> QED
          BY <3>4, <4>1, <5>1, <5>2
      <4>2. CASE k = L
        <5>1. leftover # <<>> /\ L >= 1
          BY <2>0, <4>2, <1>4
        <5>2. Leads(leftover[L], buffer[1])
          BY <2>0, <3>5, <5>1 DEF Continued, Kept, After
        <5>3. text[k] = leftover[L]
          BY <3>4, <4>2, <3>2
        <5>4. CASE n = 1
          <6>1. buffer[1] = Nul /\ ~(k < L + (n - 1))
            BY <3>2, <4>2, <5>4
          <6> QED
            BY <5>2, <5>3, <6>1
        <5>5. CASE n # 1
          <6>1. k < L + (n - 1) /\ k + 1 \in 1..(L + (n - 1)) /\ ~(k + 1 <= L) /\ (k + 1) - L = 1
            BY <3>2, <4>2, <5>5
          <6>2. text[k + 1] = buffer[1]
            BY <3>4, <6>1
          <6> QED
            BY <5>2, <5>3, <6>1, <6>2
        <5> QED
          BY <5>4, <5>5
      <4>3. CASE k > L
        <5> DEFINE q == k - L
        <5>1. q \in 1..(n - 1) /\ q \in 1..(N - 1) /\ ~(k <= L)
          BY <3>2, <4>3
        <5>2. text[k] = buffer[q]
          BY <3>4, <5>1
        <5>3. Leads(buffer[q], buffer[q + 1])
          BY <2>0, <5>1 DEF Continued, Linked
        <5>4. CASE k < L + (n - 1)
          <6>1. k + 1 \in 1..(L + (n - 1)) /\ ~(k + 1 <= L) /\ (k + 1) - L = q + 1
            BY <3>2, <4>3, <5>4
          <6>2. text[k + 1] = buffer[q + 1]
            BY <3>4, <6>1
          <6> QED
            BY <5>2, <5>3, <5>4, <6>2
        <5>5. CASE ~(k < L + (n - 1))
          <6>1. q + 1 = n
            BY <3>2, <5>5
          <6> QED
            BY <3>2, <5>2, <5>3, <5>5, <6>1
        <5> QED
          BY <5>4, <5>5
      <4> QED
        BY <3>2, <4>1, <4>2, <4>3
    <3>10. Frames!TypeOK'
      <4>1. leftover' \in Seq(Frames!Pieces)
        BY <3>1, EmptySeq
      <4>2. buffer' \in Seq(Frames!Pieces \cup {Frames!Nul}) /\ received' \in Seq(Seq(Frames!Pieces) \X BOOLEAN)
        BY <3>5, <3>6, <1>2 DEF P, R, W
      <4> QED
        BY <2>0, <3>1, <4>1, <4>2 DEF Frames!TypeOK
    \* What comes behind the NUL begins another message.
    <3>11. /\ Linked(buffer') /\ (buffer' # <<>> => Starts(buffer'[1]))
           /\ buffer' # <<>> => buffer'[Len(buffer')] = buffer[N]
           /\ buffer' = <<>> => buffer[N] = Nul
      <4>1. ASSUME NEW k \in 1..((N - n) - 1) PROVE Leads(buffer'[k], buffer'[k + 1])
        <5>1. /\ k \in 1..(N - n) /\ k + 1 \in 1..(N - n) /\ k + n \in 1..(N - 1)
              /\ (k + 1) + n = (k + n) + 1
          BY <3>2, <4>1
        <5>2. Leads(buffer[k + n], buffer[(k + n) + 1])
          BY <2>0, <5>1 DEF Continued, Linked
        <5> QED
          BY <3>5, <5>1, <5>2
      <4>2. Linked(buffer')
        BY <3>5, <4>1 DEF Linked
      <4>3. ASSUME N # n PROVE Starts(buffer'[1]) /\ buffer'[N - n] = buffer[N]
        <5>1. n \in 1..(N - 1) /\ 1 \in 1..(N - n) /\ N - n \in 1..(N - n) /\ (N - n) + n = N /\ 1 + n = n + 1
          BY <3>2, <4>3
        <5>2. Leads(buffer[n], buffer[n + 1])
          BY <2>0, <5>1 DEF Continued, Linked
        <5> QED
          BY <3>2, <3>5, <5>1, <5>2 DEF Leads
      <4> QED
        BY <3>2, <3>5, <4>2, <4>3
    <3>12. /\ Kept' = <<>> /\ Read = buffer /\ Read' = buffer' /\ \A y : After(Read, y) => After(Read', y)
           /\ Read[Len(Read)] = Nul => Read' = <<>> \/ Read'[Len(Read')] = Nul
      <4>1. Kept' = <<>> /\ Read = buffer /\ Read' = buffer'
        BY <3>1, <3>5 DEF Read, Kept
      <4>2. ASSUME NEW y, After(buffer, y) PROVE After(buffer', y)
        <5>1. Leads(buffer[N], y)
          BY <3>5, <4>2 DEF After
        <5>2. CASE buffer' # <<>>
          BY <3>11, <5>1, <5>2 DEF After
        <5>3. CASE buffer' = <<>>
          BY <3>11, <5>1, <5>3 DEF After, Leads
        <5> QED
          BY <5>2, <5>3
      <4> QED
        BY <3>11, <4>1, <4>2
    <3>13. Continued'
      <4>1. /\ rest # <<>> => After(LastSent', rest[1])
            /\ frameSock /\ rest = <<>> => LastSent' = <<>> \/ LastSent'[Len(LastSent')] = Nul
        <5>1. CASE frames # <<>>
          <6>1. LastSent' = LastSent
            BY <3>1, <5>1 DEF LastSent
          <6> QED
            BY <2>0, <6>1 DEF Continued
        <5>2. CASE frames = <<>>
          <6>1. LastSent' = Read' /\ LastSent = Read
            BY <3>1, <5>2 DEF LastSent
          <6> QED
            BY <2>0, <3>5, <3>12, <6>1 DEF Continued
        <5> QED
          BY <5>1, <5>2
      <4>2. Linked(<<>>)
        BY DEF Linked
      <4>3. buffer' # <<>> => After(Kept', buffer'[1])
        BY <3>11, <3>12 DEF After
      <4>4. \A k \in 1..Len(frames) :
              /\ frames[k] # <<>> /\ Linked(frames[k])
              /\ After(IF k = 1 THEN Read' ELSE frames[k - 1], frames[k][1])
        BY <2>0, <3>12 DEF Continued
      <4> QED
        BY <2>0, <3>1, <3>11, <4>1, <4>2, <4>3, <4>4 DEF Continued
    <3>14. EndsInSecond'
      BY <2>0, <3>1, <3>11 DEF EndsInSecond
    \* The messages on their way come after the one that the text begins.
    <3>15. LET m == text[1][1] IN
           /\ m < nextMessage /\ Precedes(m, buffer')
           /\ \A l \in 1..Len(frames) : Precedes(m, frames[l])
           /\ \A c : Precedes(c, leftover) /\ Precedes(c, buffer) => c < m
      <4>1. CASE leftover # <<>>
        <5>1. 1 \in 1..L
          BY <3>8, <4>1
        <5>2. \A j \in 1..N : Starts(buffer[j]) => text[1][1] < buffer[j][1]
          BY <2>0, <3>8, <4>1, <5>1 DEF FramesAscend, Below
        <5> QED
          BY <2>0, <3>5, <3>8, <4>1, <5>1, <5>2 DEF FramesAscend, Below, Exceeds, Precedes
      <4>2. CASE leftover = <<>>
        <5>1. 1 \in 1..N /\ \A k \in 1..(N - n) : 1 < k + n
          BY <3>2
        <5>2. \A j \in 1..N : 1 < j /\ Starts(buffer[j]) => text[1][1] < buffer[j][1]
          BY <2>0, <3>8, <4>2, <5>1 DEF FramesAscend, Rises
        <5> QED
          BY <2>0, <3>5, <3>8, <4>2, <5>1, <5>2 DEF FramesAscend, Below, Exceeds, Precedes
      <4> QED
        BY <4>1, <4>2
    <3>16. FramesAscend'
      <4>1. \A t, m : Below(<<>>, t) /\ Precedes(m, <<>>) /\ Exceeds(m, <<>>)
        BY DEF Below, Precedes, Exceeds
      <4>2. Rises(buffer') /\ Exceeds(nextMessage, buffer')
        <5>1. \A k, l \in 1..(N - n) : k < l => k + n < l + n
          BY <3>2
        <5>2. Rises(buffer) /\ Exceeds(nextMessage, buffer)
          BY <2>0 DEF FramesAscend
        <5>3. Rises(buffer')
          BY <3>5, <5>1, <5>2 DEF Rises
        <5>4. Exceeds(nextMessage, buffer')
          BY <3>5, <5>2 DEF Exceeds
        <5> QED
          BY <5>3, <5>4
      <4>3. ASSUME NEW k \in 1..Len(frames) PROVE Below(buffer', frames[k])
        <5>1. Below(buffer, frames[k])
          BY <2>0 DEF FramesAscend
        <5>2. \A i \in 1..Len(buffer') : i + n \in 1..Len(buffer) /\ buffer'[i] = buffer[i + n]
          BY <3>5
        <5> QED
          BY <5>1, <5>2 DEF Below
      <4>4. \A m : Precedes(m, buffer) => Precedes(m, buffer')
        BY <3>5 DEF Precedes
      <4>5. ASSUME NEW k \in 1..Len(received'), Frames!IsWhole(received'[k][1])
            PROVE  LET m == received'[k][1][1][1] IN
                   /\ m < nextMessage /\ Precedes(m, buffer')
                   /\ \A l \in 1..Len(frames) : Precedes(m, frames[l])
        <5>1. CASE k \in 1..Len(received)
          BY <2>0, <3>6, <4>4, <4>5, <5>1 DEF FramesAscend
        <5>2. CASE k = Len(received) + 1
          BY <3>6, <3>7, <3>15, <5>2
        <5> QED
          BY <2>0, <3>6, <5>1, <5>2
      <4> QED
        BY <2>0, <3>1, <4>1, <4>2, <4>3, <4>5 DEF FramesAscend
    <3>17. OnItsWay'
      <4> SUFFICES ASSUME frameDrops = 0
                   PROVE  /\ frameSock
                          /\ \A m \in 1..(nextMessage - 1) :
                               \/ \E k \in 1..Len(received') : received'[k][1] = Frames!Message(m)
                               \/ Contains(buffer', <<m, 1>>)
                               \/ \E k \in 1..Len(frames) : Contains(frames[k], <<m, 1>>)
        BY <3>1 DEF OnItsWay
      <4>1. frameSock /\ ~stale
        BY <2>0 DEF OnItsWay
      <4>2. text[1][1] \in Frames!Sent /\ text = Frames!Message(text[1][1])
        BY <3>7, <3>9, <4>1
      <4>3. Len(received) + 1 \in 1..Len(received') /\ \A k \in 1..Len(received) : k \in 1..Len(received')
        BY <2>0, <3>6
      <4>4. ASSUME NEW m, NEW k \in 1..Len(text), text[k] = <<m, 1>>
            PROVE  text = Frames!Message(m)
        <5>1. text[k] = <<text[1][1], k>>
          BY <3>4, <4>2, <1>10
        <5>2. m = text[1][1]
          BY <4>4, <5>1
        <5> QED
          BY <4>2, <5>2
      <4>5. ASSUME NEW m, Contains(leftover, <<m, 1>>) PROVE text = Frames!Message(m)
        <5>1. PICK k \in 1..L : leftover[k] = <<m, 1>>
          BY <4>5 DEF Contains
        <5>2. k \in 1..Len(text) /\ text[k] = leftover[k]
          BY <3>2, <3>4, SMTT(30)
        <5> QED
          BY <4>4, <5>1, <5>2
      <4>6. ASSUME NEW m, Contains(buffer, <<m, 1>>)
            PROVE  text = Frames!Message(m) \/ Contains(buffer', <<m, 1>>)
        <5>1. PICK k \in 1..N : buffer[k] = <<m, 1>>
          BY <4>6 DEF Contains
        <5>2. CASE k < n
          <6>1. /\ L + k \in 1..Len(text) /\ L + k \in 1..(L + (n - 1))
                /\ ~(L + k <= L) /\ (L + k) - L = k
            BY <3>2, <3>4, <5>2
          <6>2. text[L + k] = buffer[k]
            BY <3>4, <6>1
          <6> QED
            BY <4>4, <5>1, <6>1, <6>2
        <5>3. CASE k > n
          <6>1. k - n \in 1..(N - n) /\ (k - n) + n = k
            BY <3>2, <5>3
          <6> QED
            BY <3>5, <5>1, <6>1 DEF Contains
        <5>4. k # n
          <6>1. <<m, 1>> # Nul
            BY DEF Nul
          <6> QED
            BY <3>2, <5>1, <6>1
        <5> QED
          BY <3>2, <5>2, <5>3, <5>4
      <4>7. \A m : text = Frames!Message(m) => \E k \in 1..Len(received') : received'[k][1] = Frames!Message(m)
        BY <3>6, <3>7, <4>3
      <4>8. \A m : (\E k \in 1..Len(received) : received[k][1] = Frames!Message(m))
                    => \E k \in 1..Len(received') : received'[k][1] = Frames!Message(m)
        BY <3>6, <4>3
      <4> QED
        BY <2>0, <4>1, <4>5, <4>6, <4>7, <4>8 DEF OnItsWay
    <3>18. Frames!InOrder'
      <4>0. DOMAIN received' = 1..Len(received') /\ DOMAIN received = 1..Len(received)
        BY <2>0, <3>6, <1>7
      <4> SUFFICES ASSUME NEW k \in 1..Len(received'), NEW l \in 1..Len(received'), k < l,
                          Frames!IsWhole(received'[k][1]), Frames!IsWhole(received'[l][1])
                   PROVE  received'[k][1][1][1] < received'[l][1][1][1]
        BY <4>0 DEF Frames!InOrder
      <4>1. k \in 1..Len(received) /\ (l \in 1..Len(received) \/ l = Len(received) + 1)
        <5>1. Len(received) \in Nat /\ Len(received') = Len(received) + 1
          BY <2>0, <3>6
        <5>2. k \in 1..(Len(received) + 1) /\ l \in 1..(Len(received) + 1) /\ k < l
          BY <5>1
        <5> DEFINE a == Len(received)
        <5> HIDE DEF a
        <5>3. a \in Nat /\ k \in 1..(a + 1) /\ l \in 1..(a + 1) /\ k < l
          BY <5>1, <5>2 DEF a
        <5>4. k \in 1..a /\ (l \in 1..a \/ l = a + 1)
          BY <5>3
        <5> QED
          BY <5>4 DEF a
      <4>2. CASE l \in 1..Len(received)
        BY <2>0, <3>6, <4>0, <4>1, <4>2 DEF Frames!InOrder
      <4>3. CASE l = Len(received) + 1
        <5>1. Precedes(received[k][1][1][1], leftover) /\ Precedes(received[k][1][1][1], buffer)
          BY <2>0, <3>6, <4>1 DEF FramesAscend
        <5> QED
          BY <3>6, <3>7, <3>15, <4>1, <4>3, <5>1
      <4> QED
        BY <4>1, <4>2, <4>3
    <3>19. Frames!OnlyStaleIsTorn'
      <4>1. DOMAIN received' = 1..Len(received') /\ DOMAIN received = 1..Len(received)
        BY <2>0, <3>6, <1>7
      <4> SUFFICES ASSUME NEW k \in 1..Len(received')
                   PROVE  Frames!IsWhole(received'[k][1]) \/ received'[k][2]
        BY <4>1 DEF Frames!OnlyStaleIsTorn
      <4>2. k \in 1..Len(received) \/ k = Len(received) + 1
        BY <2>0, <3>6
      <4>3. CASE k \in 1..Len(received)
        BY <2>0, <3>6, <4>1, <4>3 DEF Frames!OnlyStaleIsTorn
      <4>4. CASE k = Len(received) + 1
        <5>1. ~item[2] => Frames!IsWhole(text)
          BY <3>9 DEF Frames!IsWhole
        <5> QED
          BY <3>6, <3>7, <4>4, <5>1
      <4> QED
        BY <4>2, <4>3, <4>4
    <3> QED
      BY <3>10, <3>13, <3>14, <3>16, <3>17, <3>18, <3>19 DEF FrameInv
  <2>6. CASE Frames!SendFrame
    <3> DEFINE O == Frames!Outgoing
               a == Len(rest)
               w == IF nextMessage \in Frames!Sent THEN Frames!OnWire(nextMessage) ELSE <<>>
    <3>1. PICK n \in 1..MaxFrame :
            /\ n <= Len(O) /\ Frames!MayCut(n) /\ frames' = Append(frames, SubSeq(O, 1, n))
            /\ IF n <= a THEN rest' = SubSeq(rest, n + 1, Len(rest)) /\ nextMessage' = nextMessage
               ELSE rest' = SubSeq(O, n + 1, Len(O)) /\ nextMessage' = nextMessage + 1
      BY <2>6 DEF Frames!SendFrame
    <3>2. frameSock /\ UNCHANGED <<frameSock, reading, buffer, leftover, stale, frameDrops, received>>
      BY <2>6 DEF Frames!SendFrame
    <3> DEFINE f == SubSeq(O, 1, n)
               B == Len(O)
    <3>3. n \in Nat \ {0} /\ a \in Nat /\ nextMessage \in Nat \ {0} /\ (rest = <<>> <=> a = 0)
      BY <2>0, <1>4 DEF Frames!TypeOK
    <3>4. /\ O \in Seq(P) /\ B \in Nat /\ B = a + Len(w) /\ w \in Seq(P) /\ Len(w) \in Nat
          /\ \A k \in 1..B : O[k] \in P /\ O[k] = IF k <= a THEN rest[k] ELSE w[k - a]
      <4>1. w \in Seq(P)
        BY <1>10, EmptySeq
      <4>2. O = rest \o w
        BY DEF Frames!Outgoing
      <4> HIDE DEF w, O
      <4>3. /\ O \in Seq(P) /\ Len(O) = Len(rest) + Len(w)
            /\ \A k \in 1..(Len(rest) + Len(w)) : O[k] = IF k <= Len(rest) THEN rest[k] ELSE w[k - Len(rest)]
        BY <2>0, <4>1, <4>2, <1>8
      <4> QED
        BY <4>1, <4>3, <1>4
    <3> HIDE DEF O
    <3>5. /\ f \in Seq(P) /\ Len(f) = n /\ \A k \in 1..n : f[k] = O[k] /\ k \in 1..B
          /\ f # <<>> /\ n \in 1..B /\ 1 \in 1..B
      <4>1. n \in Nat /\ n <= Len(O) /\ n \in 1..B /\ 1 \in 1..B /\ \A k \in 1..n : k \in 1..B
        BY <3>1, <3>3, <3>4
      <4>2. f \in Seq(P) /\ Len(f) = n /\ \A k \in 1..n : f[k] = O[k]
        BY <3>4, <4>1, <1>9
      <4> HIDE DEF f
      <4> QED
        BY <3>3, <4>1, <4>2, <1>4
    <3>6. /\ frames' = Append(frames, f) /\ frames' \in Seq(Seq(P)) /\ Len(frames') = Len(frames) + 1
          /\ \A k \in 1..Len(frames) : frames'[k] = frames[k]
          /\ frames'[Len(frames) + 1] = f /\ frames' # <<>>
      <4> HIDE DEF f
      <4>1. frames' = Append(frames, f)
        BY <3>1 DEF f
      <4> QED
        BY <2>0, <3>5, <4>1, <1>11
    <3> HIDE DEF f, B
    \* The rest of one message and the whole of the next.
    <3>7. /\ a # 0 => rest[a] = Nul /\ rest[1] \in P
          /\ \A k \in 1..(a - 1) : rest[k] # Nul
          /\ \A k \in 1..a : ~Starts(rest[k])
      BY <2>0, <3>3, <1>4 DEF Continued
    <3> DEFINE z == Lengths[nextMessage]
    <3>8. ASSUME nextMessage \in Frames!Sent
          PROVE  /\ z \in Nat \ {0} /\ Len(w) = z + 1
                 /\ \A k \in 1..z : w[k] = <<nextMessage, k>> /\ w[k] # Nul /\ (Starts(w[k]) <=> k = 1)
                 /\ w[z + 1] = Nul /\ ~Starts(Nul)
      <4>1. \A k : <<nextMessage, k>> # Nul /\ <<nextMessage, k>>[2] = k
        BY DEF Nul
      <4>2. w = Frames!OnWire(nextMessage)
        BY <3>8
      <4> HIDE DEF w
      <4>3. z \in Nat \ {0} /\ Len(w) = z + 1 /\ w[z + 1] = Nul /\ \A k \in 1..z : w[k] = <<nextMessage, k>>
        BY <3>8, <4>2, <1>1, <1>10
      <4> HIDE DEF z
      <4>4. ~Starts(Nul)
        BY DEF Starts
      <4>5. \A k \in 1..z : w[k] # Nul /\ w[k][2] = k
        BY <4>1, <4>3
      <4>6. \A k \in 1..z : Starts(w[k]) <=> k = 1
        BY <4>5 DEF Starts
      <4> QED
        BY <4>3, <4>4, <4>5, <4>6
    <3>9. nextMessage \notin Frames!Sent => Len(w) = 0
      BY EmptySeq
    <3> HIDE DEF w, a, z
    <3>10. B > a => nextMessage \in Frames!Sent /\ z \in Nat \ {0} /\ B = a + (z + 1)
      <4>1. B \in Nat /\ a \in Nat /\ Len(w) \in Nat /\ B = a + Len(w)
        BY <3>3, <3>4
      <4>2. B > a => Len(w) # 0
        BY <4>1
      <4> QED
        BY <3>8, <3>9, <4>1, <4>2
    \* Where the next message stands among what can be sent.
    <3>25. ASSUME NEW k \in 1..B, ~(k <= a)
          PROVE  /\ B > a /\ k - a \in 1..(z + 1) /\ O[k] = w[k - a] /\ k - a \in Nat \ {0}
      <4>1. B \in Nat /\ a \in Nat /\ B > a /\ O[k] = w[k - a]
        BY <3>3, <3>4, <3>25
      <4>2. z \in Nat /\ B = a + (z + 1)
        BY <3>10, <4>1
      <4> QED
        BY <3>25, <4>1, <4>2
    <3>11. \A k \in 1..B : Starts(O[k]) => k = a + 1 /\ O[k] = <<nextMessage, 1>> /\ O[k][1] = nextMessage
      <4> SUFFICES ASSUME NEW k \in 1..B, Starts(O[k])
                   PROVE  k = a + 1 /\ O[k] = <<nextMessage, 1>>
        OBVIOUS
      <4>1. ~(k <= a)
        <5>1. k <= a => O[k] = rest[k] /\ k \in 1..a
          BY <3>3, <3>4
        <5> QED
          BY <3>7, <5>1
      <4>2. /\ nextMessage \in Frames!Sent /\ z \in Nat \ {0} /\ k - a \in 1..(z + 1)
            /\ Starts(w[k - a]) /\ O[k] = w[k - a]
        BY <3>10, <3>25, <4>1
      <4> DEFINE q == k - a
      <4>3. q = 1
        <5> HIDE DEF q
        <5>1. q \in 1..(z + 1) /\ Starts(w[q])
          BY <4>2 DEF q
        <5>2. q # z + 1
          BY <3>8, <4>2, <5>1
        <5>3. q \in 1..z
          BY <4>2, <5>1, <5>2
        <5> QED
          BY <3>8, <4>2, <5>1, <5>3
      <4>4. 1 \in 1..z
        BY <4>2
      <4> QED
        BY <3>3, <3>8, <4>2, <4>3, <4>4
    <3>12. B > a => O[a + 1] = <<nextMessage, 1>> /\ Starts(O[a + 1]) /\ a + 1 \in 1..B
      <4> SUFFICES ASSUME B > a PROVE O[a + 1] = <<nextMessage, 1>> /\ Starts(O[a + 1]) /\ a + 1 \in 1..B
        OBVIOUS
      <4>1. a + 1 \in 1..B /\ ~(a + 1 <= a) /\ (a + 1) - a = 1 /\ 1 \in 1..z
        BY <3>3, <3>4, <3>10
      <4>2. O[a + 1] = w[1]
        BY <3>25, <4>1
      <4> QED
        BY <3>8, <3>10, <4>1, <4>2
    <3>13. \A k \in 1..B : O[k] = Nul <=> k = a \/ k = B
      <4> SUFFICES ASSUME NEW k \in 1..B PROVE O[k] = Nul <=> k = a \/ k = B
        OBVIOUS
      <4>1. CASE k <= a
        <5>1. O[k] = rest[k] /\ k \in 1..a /\ a # 0 /\ (k = B => k = a)
          BY <3>3, <3>4, <4>1
        <5>2. k \in 1..(a - 1) \/ k = a
          BY <3>3, <5>1
        <5> QED
          BY <3>7, <5>1, <5>2
      <4>2. CASE ~(k <= a)
        <5> DEFINE q == k - a
        <5>1. B > a /\ q \in 1..(z + 1) /\ O[k] = w[q] /\ k # a
          BY <3>3, <3>25, <4>2
        <5>2. k = B <=> q = z + 1
          BY <3>3, <3>4, <3>10, <5>1
        <5> HIDE DEF q
        <5>3. q \in 1..z \/ q = z + 1
          BY <3>10, <5>1
        <5>4. q \in 1..z => q # z + 1
          BY <3>10, <5>1
        <5> QED
          BY <3>8, <3>10, <5>1, <5>2, <5>3, <5>4
      <4> QED
        BY <4>1, <4>2
    <3>14. \A k \in 1..(B - 1) : Leads(O[k], O[k + 1])
      <4> SUFFICES ASSUME NEW k \in 1..(B - 1) PROVE Leads(O[k], O[k + 1])
        OBVIOUS
      <4>0. k \in 1..B /\ k + 1 \in 1..B /\ B \in Nat /\ a \in Nat /\ k \in Nat
        BY <3>3, <3>4
      <4>1. CASE k < a
        <5>1. k \in 1..(a - 1) /\ O[k] = rest[k] /\ O[k + 1] = rest[k + 1]
          BY <3>3, <3>4, <4>0, <4>1
        <5> QED
          BY <2>0, <5>1 DEF Continued, Linked, a
      <4>2. CASE k = a
        <5>1. B > a /\ O[k] = Nul
          BY <3>13, <4>0, <4>2
        <5> QED
          BY <3>12, <4>2, <5>1 DEF Leads
      <4>3. CASE k > a
        <5> DEFINE q == k - a
        <5>1. /\ ~(k <= a) /\ ~(k + 1 <= a) /\ (k + 1) - a = q + 1 /\ B > a
          BY <4>0, <4>3
        <5>2. O[k] = w[q] /\ O[k + 1] = w[q + 1] /\ q \in 1..(z + 1) /\ q + 1 \in 1..(z + 1)
          BY <3>25, <4>0, <5>1
        <5> HIDE DEF q
        <5>3. q \in 1..z /\ q \in Nat
          BY <3>10, <5>1, <5>2
        <5>4. w[q] = <<nextMessage, q>> /\ w[q] # Nul /\ w[q][1] = nextMessage /\ w[q][2] = q
          BY <3>8, <3>10, <5>1, <5>3
        <5>5. CASE q < z
          <6>1. q + 1 \in 1..z
            BY <3>10, <5>1, <5>3, <5>5
          <6>2. w[q + 1] = <<nextMessage, q + 1>>
            BY <3>8, <3>10, <5>1, <6>1
          <6> QED
            BY <5>2, <5>4, <5>5, <6>2 DEF Leads, z
        <5>6. CASE ~(q < z)
          <6>1. q = z
            BY <3>10, <5>1, <5>3, <5>6
          <6>2. w[q + 1] = Nul
            BY <3>8, <3>10, <5>1, <6>1
          <6> QED
            BY <5>2, <5>4, <5>6, <6>2 DEF Leads, z
        <5> QED
          BY <5>5, <5>6
      <4> QED
        BY <4>0, <4>1, <4>2, <4>3
    <3>15. After(LastSent, O[1])
      <4>1. CASE a # 0
        <5>1. O[1] = rest[1] /\ rest # <<>>
          BY <3>3, <3>4, <3>5, <4>1
        <5> QED
          BY <2>0, <5>1 DEF Continued
      <4>2. CASE a = 0
        <5>1. B > a /\ a + 1 = 1
          BY <3>4, <3>5, <4>2
        <5>2. LastSent = <<>> \/ LastSent[Len(LastSent)] = Nul
          BY <2>0, <3>2, <3>3, <4>2 DEF Continued
        <5>3. Starts(O[1])
          BY <3>12, <5>1
        <5> QED
          BY <5>2, <5>3 DEF After, Leads
      <4> QED
        BY <4>1, <4>2
    \* Either the rest of a message is sent, or the next message is begun, too.
    <3>16. \/ n = a /\ rest' = <<>> /\ nextMessage' = nextMessage /\ O[n] = Nul
           \/ /\ n > a /\ nextMessage' = nextMessage + 1 /\ B > a
              /\ rest' = SubSeq(O, n + 1, B) /\ rest' \in Seq(P) /\ Len(rest') = B - n
              /\ \A k \in 1..(B - n) : rest'[k] = O[k + n] /\ k + n \in 1..B
              /\ rest' = <<>> <=> B = n
      <4>1. CASE n <= a
        <5>1. a # 0
          BY <3>3, <4>1
        <5>2. n >= a
          BY <3>1, <3>3, <5>1 DEF Frames!MayCut, a
        <5>3. n = a
          BY <3>3, <4>1, <5>2
        <5>4. rest' = SubSeq(rest, n + 1, a) /\ nextMessage' = nextMessage
          BY <3>1, <4>1 DEF a
        <5>5. SubSeq(rest, n + 1, a) = <<>>
          BY <3>3, <5>3, SubSeqEmpty
        <5>6. O[n] = Nul
          BY <3>5, <3>13, <5>3
        <5> QED
          BY <5>3, <5>4, <5>5, <5>6
      <4>2. CASE ~(n <= a)
        <5>1. n > a /\ B > a /\ n <= B /\ n \in Nat /\ B \in Nat
          BY <3>3, <3>4, <3>5, <4>2
        <5>2. nextMessage' = nextMessage + 1 /\ rest' = SubSeq(O, n + 1, B)
          BY <3>1, <4>2 DEF a, B
        <5>3. /\ rest' \in Seq(P) /\ Len(rest') = B - n /\ \A k \in 1..(B - n) : rest'[k] = O[k + n]
          BY <3>4, <5>1, <5>2, <1>9, SMTT(30) DEF B
        <5>4. \A k \in 1..(B - n) : k + n \in 1..B
          BY <5>1
        <5>5. rest' = <<>> <=> B = n
          BY <5>1, <5>3, <1>4
        <5> QED
          BY <5>1, <5>2, <5>3, <5>4, <5>5
      <4> QED
        BY <4>1, <4>2
    <3>17. Frames!TypeOK'
      <4>1. rest' \in Seq(P) /\ nextMessage' \in Nat \ {0}
        <5>1. <<>> \in Seq(P) /\ nextMessage + 1 \in Nat \ {0}
          BY <3>3, EmptySeq
        <5> QED
          BY <3>3, <3>16, <5>1, Zenon
      <4> QED
        BY <2>0, <3>2, <3>6, <4>1, <1>2 DEF Frames!TypeOK, P, W
    <3>18. Read' = Read /\ LastSent' = f /\ Kept' = Kept
      BY <2>0, <3>2, <3>6 DEF Read, Kept, LastSent
    <3>19. Continued'
      <4>1. ASSUME NEW k \in 1..Len(frames')
            PROVE  /\ frames'[k] # <<>> /\ Linked(frames'[k])
                   /\ After(IF k = 1 THEN Read ELSE frames'[k - 1], frames'[k][1])
        <5>1. k \in 1..Len(frames) \/ k = Len(frames) + 1
          BY <2>0, <3>6
        <5>2. CASE k \in 1..Len(frames)
          <6>1. k # 1 => k - 1 \in 1..Len(frames)
            BY <2>0, <5>2
          <6> QED
            BY <2>0, <3>6, <5>2, <6>1 DEF Continued
        <5>3. CASE k = Len(frames) + 1
          <6>1. Linked(f)
            <7>1. \A i \in 1..(n - 1) : i \in 1..(B - 1) /\ i \in 1..n /\ i + 1 \in 1..n
              BY <3>3, <3>4, <3>5
            <7> QED
              BY <3>5, <3>14, <7>1 DEF Linked
          <6>2. f[1] = O[1]
            BY <3>3, <3>5
          <6>3. (IF k = 1 THEN Read ELSE frames'[k - 1]) = LastSent
            <7>1. CASE frames = <<>>
              BY <2>0, <5>3, <7>1, <1>6 DEF LastSent
            <7>2. CASE frames # <<>>
              <8>1. k # 1 /\ k - 1 = Len(frames) /\ k - 1 \in 1..Len(frames)
                BY <2>0, <5>3, <7>2, <1>6
              <8> QED
                BY <3>6, <7>2, <8>1 DEF LastSent
            <7> QED
              BY <7>1, <7>2
          <6> QED
            BY <3>5, <3>6, <3>15, <5>3, <6>1, <6>2, <6>3
        <5> QED
          BY <5>1, <5>2, <5>3
      <4>2. f[Len(f)] = O[n] /\ Linked(<<>>)
        BY <3>3, <3>5 DEF Linked
      <4>3. ASSUME rest' # <<>>
            PROVE  /\ Linked(rest') /\ After(f, rest'[1]) /\ rest'[Len(rest')] = Nul
                   /\ \A i \in 1..(Len(rest') - 1) : rest'[i] # Nul
                   /\ \A i \in 1..Len(rest') : ~Starts(rest'[i])
        <5>1. /\ n > a /\ Len(rest') = B - n /\ B # n
              /\ \A k \in 1..(B - n) : rest'[k] = O[k + n] /\ k + n \in 1..B
          BY <3>16, <4>3
        <5>2. /\ \A k \in 1..((B - n) - 1) : /\ k \in 1..(B - n) /\ k + 1 \in 1..(B - n) /\ k + n \in 1..(B - 1)
                                             /\ (k + 1) + n = (k + n) + 1 /\ k + n # B
              /\ \A k \in 1..(B - n) : k + n # a /\ k + n # a + 1
              /\ 1 \in 1..(B - n) /\ 1 + n = n + 1 /\ n \in 1..(B - 1) /\ B - n \in 1..(B - n) /\ (B - n) + n = B /\ B \in 1..B
          BY <3>3, <3>4, <3>5, <5>1
        <5>3. Linked(rest')
          <6>1. ASSUME NEW k \in 1..((B - n) - 1) PROVE Leads(rest'[k], rest'[k + 1])
            <7>1. rest'[k] = O[k + n] /\ rest'[k + 1] = O[(k + n) + 1] /\ k + n \in 1..(B - 1)
              BY <5>1, <5>2
            <7> QED
              BY <3>14, <7>1
          <6> QED
            BY <5>1, <6>1 DEF Linked
        <5>4. After(f, rest'[1])
          <6>1. Leads(O[n], O[n + 1]) /\ rest'[1] = O[n + 1]
            BY <3>14, <5>1, <5>2
          <6> QED
            BY <3>5, <4>2, <6>1 DEF After
        <5>5. rest'[Len(rest')] = Nul
          BY <3>13, <5>1, <5>2
        <5>6. \A i \in 1..(Len(rest') - 1) : rest'[i] # Nul
          <6>1. ASSUME NEW i \in 1..((B - n) - 1) PROVE rest'[i] # Nul
            <7>1. rest'[i] = O[i + n] /\ i + n \in 1..B /\ i + n # B /\ i + n # a
              BY <5>1, <5>2
            <7> QED
              BY <3>13, <7>1
          <6> QED
            BY <5>1, <6>1
        <5>7. \A i \in 1..Len(rest') : ~Starts(rest'[i])
          BY <3>11, <5>1, <5>2
        <5> QED
          BY <5>3, <5>4, <5>5, <5>6, <5>7
      <4>4. rest' = <<>> => f[Len(f)] = Nul
        BY <3>5, <3>13, <3>16, <4>2
      <4>5. Linked(rest')
        BY <4>2, <4>3
      <4> QED
        BY <2>0, <3>2, <3>18, <4>1, <4>3, <4>4, <4>5 DEF Continued
    <3>20. EndsInSecond'
      <4>1. Contains(f, Nul) \/ Starts(f[1])
        <5>1. CASE a # 0
          <6>1. a \in 1..n /\ a \in 1..B
            BY <3>3, <3>5, <3>16, <5>1
          <6>2. f[a] = Nul
            BY <3>5, <3>13, <6>1
          <6> QED
            BY <3>5, <6>1, <6>2 DEF Contains
        <5>2. CASE a = 0
          <6>1. B > a /\ a + 1 = 1 /\ 1 \in 1..n
            BY <3>3, <3>4, <3>5, <5>2
          <6> QED
            BY <3>5, <3>12, <6>1
        <5> QED
          BY <5>1, <5>2
      <4>2. \A k \in 1..Len(frames') : k \in 1..Len(frames) \/ k = Len(frames) + 1
        BY <2>0, <3>6
      <4> QED
        BY <2>0, <3>2, <3>6, <4>1, <4>2 DEF EndsInSecond
    \* A message that the frame begins is a new one.
    <3>21. \A k \in 1..n : Starts(f[k]) => k = a + 1 /\ f[k][1] = nextMessage /\ nextMessage' = nextMessage + 1
      BY <3>3, <3>5, <3>11, <3>16
    <3>22. FramesAscend'
      <4>1. \A c \in Nat : c < nextMessage => c < nextMessage'
        BY <3>3, <3>16
      <4>2. \A x \in P : Starts(x) => x[1] \in Nat
        BY <1>3 DEF P, Starts
      <4>3. ASSUME NEW s \in Seq(P), Exceeds(nextMessage, s)
            PROVE  Exceeds(nextMessage', s) /\ Below(s, f)
        <5>1. ASSUME NEW k \in 1..Len(s), Starts(s[k])
              PROVE  s[k][1] \in Nat /\ s[k][1] < nextMessage
          <6>1. s[k] \in P
            BY <1>4
          <6>2. s[k][1] \in Nat /\ nextMessage > s[k][1]
            BY <4>2, <4>3, <5>1, <6>1 DEF Exceeds
          <6> QED
            BY <3>3, <6>2
        <5>2. ASSUME NEW k \in 1..Len(s), Starts(s[k]) PROVE nextMessage' > s[k][1]
          <6>1. nextMessage' \in Nat
            BY <3>3, <3>16
          <6>2. s[k][1] \in Nat /\ s[k][1] < nextMessage'
            BY <4>1, <5>1, <5>2
          <6> QED
            BY <6>1, <6>2
        <5> QED
          BY <3>5, <3>21, <5>1, <5>2 DEF Exceeds, Below
      <4>4. Rises(f)
        <5>1. \A k, l \in 1..n : Starts(f[k]) /\ Starts(f[l]) => ~(k < l)
          BY <3>3, <3>21
        <5> QED
          BY <3>5, <5>1 DEF Rises
      <4>5. Exceeds(nextMessage', f)
        <5>1. \A k \in 1..n : Starts(f[k]) => nextMessage' > f[k][1]
          BY <3>3, <3>21
        <5> QED
          BY <3>5, <5>1 DEF Exceeds
      <4>6. \A c \in Nat : c < nextMessage => Precedes(c, f)
        BY <3>5, <3>21 DEF Precedes
      <4>7. ASSUME NEW k \in 1..Len(received), Frames!IsWhole(received[k][1])
            PROVE  received[k][1][1][1] \in Nat
        <5>1. PICK m \in Frames!Sent : received[k][1] = Frames!Message(m)
          BY <4>7 DEF Frames!IsWhole
        <5>2. 1 \in 1..Lengths[m] /\ m \in Nat
          BY <1>1
        <5>3. Frames!Message(m)[1] = <<m, 1>>
          BY <1>10, <5>2
        <5> QED
          BY <5>1, <5>2, <5>3
      <4>8. \A k \in 1..Len(frames') :
              \/ k \in 1..Len(frames) /\ frames'[k] = frames[k] /\ k # Len(frames) + 1
              \/ k = Len(frames) + 1 /\ frames'[k] = f
        <5>1. Len(frames) \in Nat
          BY <2>0, LenProperties
        <5>2. \A k \in 1..(Len(frames) + 1) : (k \in 1..Len(frames) /\ k # Len(frames) + 1) \/ k = Len(frames) + 1
          BY <5>1
        <5> QED
          BY <3>6, <5>2
      <4>9. /\ Rises(buffer) /\ Below(leftover, buffer)
            /\ Exceeds(nextMessage', leftover) /\ Exceeds(nextMessage', buffer)
        BY <2>0, <4>3 DEF FramesAscend
      <4>10. ASSUME NEW k \in 1..Len(frames')
             PROVE  /\ Rises(frames'[k]) /\ Exceeds(nextMessage', frames'[k])
                    /\ Below(leftover, frames'[k]) /\ Below(buffer, frames'[k])
        <5>1. CASE k \in 1..Len(frames) /\ frames'[k] = frames[k]
          BY <2>0, <4>3, <5>1, <1>6 DEF FramesAscend
        <5>2. CASE frames'[k] = f
          BY <2>0, <4>3, <4>4, <4>5, <5>2 DEF FramesAscend
        <5> QED
          BY <4>8, <5>1, <5>2
      <4>11. ASSUME NEW k \in 1..Len(frames'), NEW l \in 1..Len(frames'), k < l
             PROVE  Below(frames'[k], frames'[l])
        <5>1. k \in 1..Len(frames) /\ frames'[k] = frames[k]
          BY <2>0, <3>6, <4>8, <4>11
        <5>2. CASE l \in 1..Len(frames) /\ frames'[l] = frames[l]
          BY <2>0, <4>11, <5>1, <5>2 DEF FramesAscend
        <5>3. CASE frames'[l] = f
          <6>1. frames[k] \in Seq(P) /\ Exceeds(nextMessage, frames[k])
            BY <2>0, <5>1, <1>6 DEF FramesAscend
          <6> QED
            BY <4>3, <5>1, <5>3, <6>1
        <5> QED
          BY <4>8, <5>2, <5>3
      <4>12. ASSUME NEW k \in 1..Len(received), Frames!IsWhole(received[k][1])
             PROVE  LET m == received[k][1][1][1] IN
                    /\ m < nextMessage' /\ Precedes(m, leftover) /\ Precedes(m, buffer)
                    /\ \A l \in 1..Len(frames') : Precedes(m, frames'[l])
        <5> DEFINE m == received[k][1][1][1]
        <5>1. /\ m \in Nat /\ m < nextMessage /\ Precedes(m, leftover) /\ Precedes(m, buffer)
              /\ \A l \in 1..Len(frames) : Precedes(m, frames[l])
          BY <2>0, <4>7, <4>12 DEF FramesAscend
        <5> HIDE DEF m
        <5>2. m < nextMessage' /\ Precedes(m, f)
          BY <4>1, <4>6, <5>1
        <5>3. \A l \in 1..Len(frames') : Precedes(m, frames'[l])
          BY <4>8, <5>1, <5>2
        <5> QED
          BY <5>1, <5>2, <5>3 DEF m
      <4> QED
        BY <3>2, <4>9, <4>10, <4>11, <4>12 DEF FramesAscend
    <3>23. OnItsWay'
      <4> SUFFICES ASSUME frameDrops = 0, NEW m \in 1..(nextMessage' - 1)
                   PROVE  \/ \E k \in 1..Len(received) : received[k][1] = Frames!Message(m)
                          \/ Contains(leftover, <<m, 1>>) \/ Contains(buffer, <<m, 1>>)
                          \/ \E k \in 1..Len(frames') : Contains(frames'[k], <<m, 1>>)
        BY <2>0, <3>2 DEF OnItsWay
      <4>1. Len(frames) + 1 \in 1..Len(frames') /\ \A k \in 1..Len(frames) : k \in 1..Len(frames')
        BY <2>0, <3>6
      <4>2. CASE m \in 1..(nextMessage - 1)
        BY <2>0, <3>6, <4>1, <4>2 DEF OnItsWay
      <4>3. CASE m \notin 1..(nextMessage - 1)
        <5>1. m = nextMessage /\ n > a /\ B > a
          BY <3>3, <3>16, <4>3
        <5>2. a + 1 \in 1..n /\ f[a + 1] = <<m, 1>>
          BY <3>3, <3>5, <3>12, <5>1
        <5>3. Contains(f, <<m, 1>>)
          BY <3>5, <5>2 DEF Contains
        <5> QED
          BY <3>6, <4>1, <5>3
      <4> QED
        BY <4>2, <4>3
    <3>24. Frames!InOrder' /\ Frames!OnlyStaleIsTorn'
      BY <2>0, <3>2 DEF Frames!InOrder, Frames!OnlyStaleIsTorn
    <3> QED
      BY <3>17, <3>19, <3>20, <3>22, <3>23, <3>24 DEF FrameInv
  <2>7. CASE UNCHANGED Frames!vars
    BY <2>0, <2>7 DEF Frames!vars, FrameInv, Frames!TypeOK, Continued, EndsInSecond, FramesAscend, OnItsWay,
                      Frames!InOrder, Frames!OnlyStaleIsTorn, Read, Kept, LastSent
  <2> QED
    BY <1>14, <2>1, <2>2, <2>3, <2>4, <2>5, <2>6, <2>7 DEF Frames!Next, Frames!ReceiveMessages
<1>15. FrameInv => Frames!AllArrive
  <2> SUFFICES ASSUME FrameInv, frameDrops = 0, frames = <<>>, ~reading, rest = <<>>
               PROVE  leftover = <<>> /\ \A m \in 1..(nextMessage - 1) : \E k \in DOMAIN received : received[k][1] = Frames!Message(m)
    BY DEF Frames!AllArrive
  <2>1. leftover \in Seq(W) /\ leftover \in Seq(P) /\ received \in Seq(R) /\ Len(<<>>) = 0
    BY <1>2, <1>5 DEF FrameInv, Frames!TypeOK, W, P, R
  <2>2. frameSock /\ ~stale /\ buffer = <<>>
    BY DEF FrameInv, OnItsWay, Continued
  <2>3. leftover = <<>> \/ leftover[Len(leftover)] = Nul
    BY <2>2 DEF FrameInv, Continued, LastSent, Read, Kept
  <2>4. leftover = <<>>
    <3>1. leftover # <<>> => Len(leftover) \in 1..Len(leftover)
      BY <2>1, <1>4
    <3> QED
      BY <2>1, <2>3, <3>1, <1>2, <1>5
  <2>5. \A x : ~Contains(<<>>, x)
    BY <2>1 DEF Contains
  <2>6. DOMAIN received = 1..Len(received) /\ Len(frames) = 0
    BY <2>1, <1>7
  <2> QED
    <3>1. ASSUME NEW m \in 1..(nextMessage - 1)
          PROVE  \E k \in DOMAIN received : received[k][1] = Frames!Message(m)
      <4>1. \/ \E k \in 1..Len(received) : received[k][1] = Frames!Message(m)
            \/ Contains(leftover, <<m, 1>>) \/ Contains(buffer, <<m, 1>>)
            \/ \E k \in 1..Len(frames) : Contains(frames[k], <<m, 1>>)
        BY DEF FrameInv, OnItsWay
      <4>2. ~Contains(leftover, <<m, 1>>) /\ ~Contains(buffer, <<m, 1>>)
        BY <2>2, <2>4, <2>5
      <4>3. 1..Len(frames) = {}
        BY <2>6
      <4> QED
        BY <2>6, <4>1, <4>2, <4>3
    <3> QED
      BY <2>4, <3>1
<1>16. FrameInv /\ [Frames!Next]_(Frames!vars) => FrameInv'
  BY <1>14
<1>17. FrameInv => Frames!InOrder /\ Frames!OnlyStaleIsTorn /\ Frames!AllArrive
  BY <1>15 DEF FrameInv
<1> QED
  BY <1>13, <1>16, <1>17, PTL DEF Frames!Spec

\* On either way messages are handled in the order the server sent them, each once, and
\* as they were sent but for a beginning that a break of the connection explains, as
\* long as no message takes three frames (TCP.cpp:117, 216-232,
\* WebSocketServerConnection.cpp:184-210).
THEOREM MessagesInOrder ==
  ASSUME TwoFrames
  PROVE  StreamsSpec => [](ArriveInOrder /\ TornHasCause)
<1>1. StreamsInit => Init /\ Frames!Init
  BY DEF StreamsInit
<1>2. ASSUME [StreamsNext]_<<exercised, vars, frameVars, processVars>>
      PROVE  [Next]_vars /\ [Frames!Next]_(Frames!vars)
  <2>1. CASE OverTcp(Next)
    BY <2>1 DEF OverTcp, frameVars, Frames!vars
  <2>2. CASE OverWebSocket(Frames!Next)
    BY <2>2 DEF OverWebSocket
  <2>3. CASE OfProcess(Process!ProcessNext)
    BY <2>3 DEF OfProcess, frameVars, Frames!vars
  <2>4. CASE UNCHANGED <<exercised, vars, frameVars, processVars>>
    BY <2>4 DEF frameVars, Frames!vars
  <2> QED
    BY <1>2, <2>1, <2>2, <2>3, <2>4 DEF StreamsNext
<1>3. [StreamsNext]_<<exercised, vars, frameVars, processVars>> => [Next]_vars /\ [Frames!Next]_(Frames!vars)
  BY <1>2
<1>4. (InOrder /\ OnlyFirstIsTorn) /\ (Frames!InOrder /\ Frames!OnlyStaleIsTorn /\ Frames!AllArrive)
        => ArriveInOrder /\ TornHasCause
  BY DEF ArriveInOrder, TornHasCause
<1>5. StreamsSpec => Spec /\ Frames!Spec
  BY <1>1, <1>3, PTL DEF StreamsSpec, Spec, Frames!Spec
<1> QED
  BY <1>4, <1>5, CommandsInOrder, FramesInOrder, PTL

-----------------------------------------------------------------------------
(* The process: main's steps, and who runs when. *)

Deeds == {"start", "give", "wait", "join"}
Names == Process!Threads \cup Process!Given

\* How many of main's steps are behind it.
Behind == Len(Process!Steps) - Len(todo)

\* main has done what is behind it, for all parts that are enabled.
DoneInOrder ==
  /\ \A i \in DOMAIN todo : todo[i] = Process!Steps[i + Behind]
  /\ \A j \in 1..Behind :
       LET part == Process!Steps[j][2] IN
       Process!Present(part) =>
         /\ Process!Steps[j][1] = "give" => part \in made
         /\ Process!Steps[j][1] = "join" /\ part # "jablotron" =>
              thread[part] = "ended" \/ part \in Process!Children \ readable

\* Only what main has started runs, and what such a thread starts.
StartedByMain ==
  /\ \A t \in Process!Runnables \cup Process!Children :
       thread[t] # "none" =>
         /\ Process!Present(t) /\ t \notin Process!Children \ readable
         /\ \E j \in 1..Behind : Process!Steps[j] = <<"start", t>>
  /\ thread["distributor"] # "none" => thread["button"] # "none"
  /\ thread["button"] # "none" => thread["aggregator"] # "none"
  /\ thread["dispatcher"] # "none" => thread["connection"] # "none"
  /\ callable => thread["distributor"] # "none"
  /\ thread["aggregator"] = "ended" =>
       thread["button"] # "none" /\ thread["distributor"] \in {"ended", "none"}
  /\ thread["main"] = "ended" => \A i \in DOMAIN todo : ~Process!Present(todo[i][2])

ProcessInv ==
  /\ Process!ProcessTypeOK
  /\ todo \in Seq(Deeds \X Names) /\ Len(todo) \in 0..Len(Process!Steps)
  /\ DoneInOrder /\ StartedByMain

\* Nobody calls an incomplete Aggregator, and main leaves no thread behind that it could
\* have joined (main.cpp:248-421, TCP.cpp:138, Aggregator.cpp:139).
THEOREM StopsClean == StreamsSpec => []StopIsClean
<1> DEFINE S == Process!Steps
           Parts == Process!Runnables \cup Process!Children
<1> USE DEF Deeds, Names
<1>0. S \in Seq(Deeds \X Names) /\ Len(S) = 32 /\ DOMAIN S = 1..32
  BY DEF Process!Steps, Process!Setup, Process!Each, Process!Gives, Process!Starts, Process!Joins,
         Process!Threads, Process!Given, Process!Children, Process!Helpers, Process!Runnables
<1>1. /\ \A i \in 1..32 : S[i][1] = "give" => i \in 2..11 /\ S[i][2] \in Process!Given
      /\ \A i \in 1..32 : S[i][1] = "start" =>
           S[i][2] \in Parts /\ (S[i][2] = "mqtt" \/ i \in 12..21) /\ i \in 1..21
      /\ \A i \in 1..32 : S[i][1] = "join" => i \in 23..32 /\ S[i][2] \in Parts
  BY DEF Process!Steps, Process!Setup, Process!Each, Process!Gives, Process!Starts, Process!Joins,
         Process!Given, Process!Children, Process!Runnables
<1>2. /\ \A t \in Parts \ {"leds"} : \E j \in 1..32 : S[j] = <<"join", t>>
      /\ \A p \in Process!Given : \E j \in 1..32 : S[j] = <<"give", p>>
  BY DEF Process!Steps, Process!Setup, Process!Each, Process!Gives, Process!Starts, Process!Joins,
         Process!Given, Process!Children, Process!Runnables
<1> HIDE DEF S
<1>3. Process!ProcessInit => ProcessInv
  <2> SUFFICES ASSUME Process!ProcessInit PROVE ProcessInv
    OBVIOUS
  <2>1. todo = S /\ Behind = 0
    BY <1>0 DEF Process!ProcessInit, Behind, S
  <2>2. Process!ProcessTypeOK
    BY DEF Process!ProcessInit, Process!ProcessTypeOK
  <2>3. DoneInOrder
    <3>1. \A i \in DOMAIN todo : i + Behind = i
      <4>1. DOMAIN todo = 1..32 /\ Behind = 0
        BY <1>0, <2>1, Zenon
      <4> QED
        BY <4>1
    <3>3. \A i \in DOMAIN todo : todo[i] = Process!Steps[i + Behind]
      BY <2>1, <3>1 DEF S
    <3>2. 1..Behind = {}
      BY <2>1
    <3> QED
      BY <3>2, <3>3 DEF DoneInOrder
  <2>4. StartedByMain
    BY DEF Process!ProcessInit, StartedByMain, Process!Threads, Process!Runnables, Process!Children, Process!Helpers
  <2> QED
    BY <1>0, <2>1, <2>2, <2>3, <2>4 DEF ProcessInv, S
<1>4. ASSUME ProcessInv, [Process!ProcessNext]_processVars PROVE ProcessInv'
  <2> DEFINE b == Behind
  <2> USE DEF ProcessInv
  <2>r. b \in 0..32 /\ Len(todo) = 32 - b
    <3>1. Len(todo) \in 0..32
      BY <1>0, <1>4 DEF S
    <3>2. b = 32 - Len(todo)
      BY <1>0 DEF Behind, S
    <3>3. \A n \in 0..32 : 32 - n \in 0..32 /\ n = 32 - (32 - n)
      OBVIOUS
    <3> HIDE DEF b
    <3> QED
      BY <3>1, <3>2, <3>3, Zenon
  <2>0. DOMAIN todo = 1..(32 - b) /\ \A i \in 1..(32 - b) : todo[i] = S[i + b]
    <3>1. DOMAIN todo = 1..Len(todo)
      BY <1>4, LenProperties
    <3> QED
      BY <2>r, <3>1, <1>4 DEF DoneInOrder, S
  <2>1. ASSUME UNCHANGED <<enabled, readable, made, todo>>, Process!ProcessTypeOK',
               \A t \in Parts : thread'[t] # "none" => thread[t] # "none",
               \A t \in Parts : thread[t] = "ended" => thread'[t] = "ended",
               thread'["distributor"] # "none" => thread'["button"] # "none",
               thread'["button"] # "none" => thread'["aggregator"] # "none",
               thread'["dispatcher"] # "none" => thread'["connection"] # "none",
               callable' => thread'["distributor"] # "none",
               thread'["aggregator"] = "ended" =>
                 thread'["button"] # "none" /\ thread'["distributor"] \in {"ended", "none"},
               thread'["main"] = "ended" => \A i \in DOMAIN todo : ~Process!Present(todo[i][2])
        PROVE  ProcessInv'
    <3>1. Behind' = Behind
      BY <2>1 DEF Behind
    <3>2. \A part : Process!Present(part)' <=> Process!Present(part)
      BY <2>1 DEF Process!Present
    <3>3. \A j \in 1..Behind : S[j][1] = "join" => S[j][2] \in Parts
      <4>1. 1..Behind \subseteq 1..32
        BY <2>r
      <4> QED
        BY <1>1, <4>1
    <3>4. DoneInOrder'
      <4>1. ASSUME NEW j \in 1..Behind, Process!Present(S[j][2])
            PROVE  /\ S[j][1] = "give" => S[j][2] \in made
                   /\ S[j][1] = "join" /\ S[j][2] # "jablotron" =>
                        thread'[S[j][2]] = "ended" \/ S[j][2] \in Process!Children \ readable
        <5>1. /\ S[j][1] = "give" => S[j][2] \in made
              /\ S[j][1] = "join" /\ S[j][2] # "jablotron" =>
                   thread[S[j][2]] = "ended" \/ S[j][2] \in Process!Children \ readable
          BY <4>1, <1>4 DEF DoneInOrder, S
        <5> QED
          BY <2>1, <3>3, <5>1
      <4> QED
        BY <2>1, <3>1, <3>2, <4>1, <1>4 DEF DoneInOrder, S
    <3>5. StartedByMain'
      <4>1. ASSUME NEW t \in Parts, thread'[t] # "none"
            PROVE  /\ Process!Present(t) /\ t \notin Process!Children \ readable
                   /\ \E j \in 1..Behind : S[j] = <<"start", t>>
        BY <2>1, <4>1, <1>4 DEF StartedByMain, S
      <4> QED
        BY <2>1, <3>1, <3>2, <4>1, <1>4 DEF StartedByMain, S
    <3> QED
      BY <2>1, <3>4, <3>5, <1>4 DEF S
  <2>u. CASE UNCHANGED processVars
    BY <2>u, <2>1, <1>4 DEF processVars, StartedByMain, Process!ProcessTypeOK
  \* One of main's steps.
  <2>2. ASSUME NEW i \in DOMAIN todo, Process!Comes(i), Process!Step(i, todo[i][2])
        PROVE  ProcessInv'
    <3> DEFINE p == b + i
               part == todo[i][2]
    <3>0. i \in 1..(32 - b) /\ b \in 0..32 /\ todo[i] = S[i + b] /\ i + b = p
      <4> HIDE DEF b, S
      <4>1. i \in 1..(32 - b) /\ b \in 0..32 /\ todo[i] = S[i + b]
        BY <2>0, <2>r
      <4> QED
        BY <4>1
    <3>1. /\ p \in (b + 1)..32 /\ p \in 1..32 /\ todo[i] = S[p] /\ i \in 1..(32 - b)
          /\ Process!Present(S[p][2]) /\ thread["main"] = "runs"
      <4>1. p \in (b + 1)..32 /\ p \in 1..32
        <5> HIDE DEF b
        <5> QED
          BY <3>0
      <4> QED
        BY <3>0, <4>1, <2>2 DEF Process!Comes
    <3>2. /\ Behind' = p /\ Len(todo') = 32 - p /\ todo' \in Seq(Deeds \X Names)
          /\ DOMAIN todo' = 1..(32 - p) /\ \A k \in 1..(32 - p) : todo'[k] = S[k + p]
      <4>1. todo' = SubSeq(todo, i + 1, 32 - b)
        BY <2>2, <2>r DEF Process!Step, Process!Give, Process!Start, Process!Join, Process!WaitForQuit,
                          Process!JoinJablotron, Process!Does
      <4>2. \A k \in (i + 1)..(32 - b) : todo[k] \in Deeds \X Names
        <5>1. \A k \in 1..Len(todo) : todo[k] \in Deeds \X Names
          BY <1>4, ElementOfSeq
        <5>2. (i + 1)..(32 - b) \subseteq 1..(32 - b)
          <6> HIDE DEF b
          <6> QED
            BY <3>0
        <5> QED
          BY <5>1, <5>2, <2>r
      <4>3. i + 1 \in Int /\ 32 - b \in Int /\ i \in Int
        <5> HIDE DEF b
        <5> QED
          BY <3>0
      <4>4. /\ todo' \in Seq(Deeds \X Names)
            /\ Len(todo') = IF i + 1 <= 32 - b THEN (32 - b) - (i + 1) + 1 ELSE 0
            /\ \A k \in 1..((32 - b) - (i + 1) + 1) : todo'[k] = todo[(i + 1) + k - 1]
        <5> HIDE DEF b
        <5> QED
          BY <4>1, <4>2, <4>3, SubSeqProperties
      <4>5. /\ (IF i + 1 <= 32 - b THEN (32 - b) - (i + 1) + 1 ELSE 0) = 32 - p
            /\ (32 - b) - (i + 1) + 1 = 32 - p /\ 32 - (32 - p) = p
            /\ \A k \in 1..(32 - p) : (i + 1) + k - 1 = k + i /\ k + i \in 1..(32 - b) /\ (k + i) + b = k + p
        <5> HIDE DEF b
        <5> QED
          BY <3>0
      <4>6. Len(todo') = 32 - p
        BY <4>4, <4>5
      <4>7. Behind' = p
        <5>1. Behind' = 32 - Len(todo')
          BY <1>0 DEF Behind, S
        <5> QED
          BY <4>5, <4>6, <5>1
      <4>8. ASSUME NEW k \in 1..(32 - p) PROVE todo'[k] = S[k + p]
        <5>1. todo'[k] = todo[k + i]
          BY <4>4, <4>5
        <5>2. todo[k + i] = S[(k + i) + b]
          BY <2>0, <4>5
        <5> QED
          BY <4>5, <5>1, <5>2
      <4>9. DOMAIN todo' = 1..(32 - p)
        BY <4>4, <4>6, LenProperties
      <4> QED
        BY <4>4, <4>6, <4>7, <4>8, <4>9
    <3>3. \A j \in (b + 1)..(p - 1) : ~Process!Present(S[j][2])
      <4> SUFFICES ASSUME NEW j \in (b + 1)..(p - 1) PROVE ~Process!Present(S[j][2])
        OBVIOUS
      <4>1. j - b \in 1..(i - 1) /\ j - b \in 1..(32 - b) /\ (j - b) + b = j
        <5> HIDE DEF b
        <5> QED
          BY <3>0
      <4>2. todo[j - b] = S[j]
        BY <2>0, <4>1
      <4> QED
        BY <2>2, <4>1, <4>2 DEF Process!Comes
    <3>4. /\ UNCHANGED <<enabled, readable, callable, quit>>
          /\ \A q : Process!Present(q)' <=> Process!Present(q)
      BY <2>2 DEF Process!Step, Process!Give, Process!Start, Process!Join, Process!WaitForQuit,
                  Process!JoinJablotron, Process!Present
    <3> HIDE DEF p, b
    \* What main has done before stays done, and this step is done, too.
    <3>5. ASSUME made \subseteq made', Process!ProcessTypeOK',
                 \A j \in 1..b : S[j][1] = "join" /\ thread[S[j][2]] = "ended" => thread'[S[j][2]] = "ended",
                 S[p][1] = "give" => S[p][2] \in made',
                 S[p][1] = "join" /\ S[p][2] # "jablotron" =>
                   thread'[S[p][2]] = "ended" \/ S[p][2] \in Process!Children \ readable,
                 \A t \in Parts : thread'[t] # "none" =>
                   \/ thread[t] # "none"
                   \/ S[p] = <<"start", t>> /\ t \notin Process!Children \ readable,
                 \A t \in Process!Helpers : thread'[t] = thread[t],
                 \A t \in Parts : thread[t] # "none" => thread'[t] # "none",
                 thread'["aggregator"] = "ended" => thread["aggregator"] = "ended",
                 thread'["main"] # "ended"
          PROVE  ProcessInv'
      <4>1. 1..b \subseteq 1..p /\ \A j \in 1..p : j \in 1..b \/ j \in (b + 1)..(p - 1) \/ j = p
        BY <3>1, <2>r DEF b
      <4>2. \A j \in 1..b : S[j][1] = "join" => S[j][2] \in Parts
        <5>1. 1..b \subseteq 1..32
          BY <2>r
        <5> QED
          BY <1>1, <5>1
      <4>3. ASSUME NEW j \in 1..p, Process!Present(S[j][2])
            PROVE  /\ S[j][1] = "give" => S[j][2] \in made'
                   /\ S[j][1] = "join" /\ S[j][2] # "jablotron" =>
                        thread'[S[j][2]] = "ended" \/ S[j][2] \in Process!Children \ readable
        <5>1. CASE j = p
          BY <3>5, <5>1
        <5>2. CASE j \in 1..b
          <6>1. /\ S[j][1] = "give" => S[j][2] \in made
                /\ S[j][1] = "join" /\ S[j][2] # "jablotron" =>
                     thread[S[j][2]] = "ended" \/ S[j][2] \in Process!Children \ readable
            BY <4>3, <5>2, <1>4 DEF DoneInOrder, S, b
          <6> QED
            BY <3>5, <4>2, <5>2, <6>1
        <5> QED
          BY <3>3, <4>1, <4>3, <5>1, <5>2
      <4>4. DoneInOrder'
        BY <3>2, <3>4, <4>3 DEF DoneInOrder, S
      <4>5. ASSUME NEW t \in Parts, thread'[t] # "none"
            PROVE  /\ Process!Present(t) /\ t \notin Process!Children \ readable
                   /\ \E j \in 1..p : S[j] = <<"start", t>>
        <5>1. CASE thread[t] # "none"
          BY <4>1, <5>1, <1>4 DEF StartedByMain, S, b
        <5>2. CASE S[p] = <<"start", t>> /\ t \notin Process!Children \ readable
          <6>1. S[p][2] = t /\ p \in 1..p
            BY <5>2, <3>1
          <6> QED
            BY <3>1, <5>2, <6>1
        <5> QED
          BY <3>5, <4>5, <5>1, <5>2
      <4>6. {"aggregator", "connection"} \subseteq Parts /\ {"distributor", "button", "dispatcher"} \subseteq Process!Helpers
        BY DEF Process!Runnables, Process!Helpers
      <4>7. /\ thread'["distributor"] # "none" => thread'["button"] # "none"
            /\ thread'["button"] # "none" => thread'["aggregator"] # "none"
            /\ thread'["dispatcher"] # "none" => thread'["connection"] # "none"
            /\ callable => thread'["distributor"] # "none"
            /\ thread'["aggregator"] = "ended" =>
                 thread'["button"] # "none" /\ thread'["distributor"] \in {"ended", "none"}
        BY <3>5, <4>6, <1>4 DEF StartedByMain
      <4>8. StartedByMain'
        BY <3>2, <3>4, <3>5, <4>5, <4>7 DEF StartedByMain, S
      <4>9. 32 - p \in 0..32
        BY <3>1
      <4> QED
        BY <1>0, <3>2, <3>5, <4>4, <4>8, <4>9 DEF S
    <3>6. part = S[p][2]
      BY <3>1
    <3>t. /\ Process!ProcessTypeOK /\ "aggregator" \in Parts /\ "main" \notin Parts
          /\ Parts \subseteq Process!Threads /\ Parts \cap Process!Helpers = {} /\ "main" \notin Process!Helpers
      BY <1>4 DEF Process!Threads, Process!Runnables, Process!Children, Process!Helpers
    <3>7. CASE Process!Give(i, part)
      <4>1. S[p] = <<"give", part>> /\ made' = made \cup {part} /\ UNCHANGED <<enabled, readable, thread, callable, quit>>
        BY <3>1, <3>7 DEF Process!Give, Process!Does
      <4>2. S[p][1] = "give" /\ part \in Process!Given
        <5> HIDE DEF part
        <5>1. S[p][1] = "give"
          BY <4>1
        <5> QED
          BY <1>1, <3>1, <3>6, <5>1
      <4>3. Process!ProcessTypeOK'
        BY <3>t, <4>1, <4>2 DEF Process!ProcessTypeOK
      <4> HIDE DEF part
      <4> QED
        BY <3>1, <3>5, <3>6, <3>t, <4>1, <4>2, <4>3
    <3>8. CASE Process!Start(i, part)
      <4>1. /\ S[p] = <<"start", part>> /\ UNCHANGED <<enabled, readable, made, callable, quit>>
            /\ thread' = IF part \in Process!Children \ readable THEN thread ELSE [thread EXCEPT ![part] = "runs"]
        BY <3>1, <3>8 DEF Process!Start, Process!Does
      <4>2. S[p][1] = "start" /\ part \in Parts /\ p \in 1..21
        <5> HIDE DEF part
        <5>1. S[p][1] = "start"
          BY <4>1
        <5> QED
          BY <1>1, <3>1, <3>6, <5>1
      <4>3. Process!ProcessTypeOK'
        BY <3>t, <4>1, <4>2 DEF Process!ProcessTypeOK
      <4>4. \A j \in 1..b : S[j][1] # "join"
        <5> HIDE DEF b, p, S, part
        <5>1. b \in 0..32 /\ p \in (b + 1)..32 /\ p \in 1..21
          BY <3>1, <4>2, <2>r
        <5>2. \A j \in 1..b : j \in 1..32 /\ j \notin 23..32
          BY <5>1
        <5> QED
          BY <1>1, <5>2
      <4> HIDE DEF part
      <4>5. \A t \in Process!Threads :
              \/ thread'[t] = thread[t]
              \/ t = part /\ thread'[t] = "runs" /\ part \notin Process!Children \ readable
        BY <3>t, <4>1, <4>2 DEF Process!ProcessTypeOK
      <4>6. \A t \in Process!Helpers \cup {"main"} : t \in Process!Threads /\ t # part
        BY <3>t, <4>2 DEF Process!Threads
      <4>7. \A t \in Process!Helpers \cup {"main"} : thread'[t] = thread[t]
        BY <4>5, <4>6
      <4> QED
        BY <3>1, <3>5, <3>6, <3>t, <4>1, <4>2, <4>3, <4>4, <4>5, <4>7
    <3>9. CASE Process!Join(i, part)
      <4>1. /\ S[p] = <<"join", part>> /\ UNCHANGED <<enabled, readable, made, thread, callable, quit>>
            /\ part \in Process!Children \ readable \/ thread[part] = "ended"
        BY <3>1, <3>9 DEF Process!Join, Process!Does
      <4>2. S[p][1] = "join"
        BY <4>1
      <4>3. Process!ProcessTypeOK'
        BY <3>t, <4>1 DEF Process!ProcessTypeOK
      <4> HIDE DEF part
      <4> QED
        BY <3>1, <3>5, <3>6, <3>t, <4>1, <4>2, <4>3
    <3>10. CASE Process!WaitForQuit(i)
      <4>1. S[p] = <<"wait", "main">> /\ UNCHANGED <<enabled, readable, made, thread, callable, quit>>
        BY <3>1, <3>10 DEF Process!WaitForQuit, Process!Does
      <4>2. S[p][1] = "wait"
        BY <4>1
      <4>3. Process!ProcessTypeOK'
        BY <3>t, <4>1 DEF Process!ProcessTypeOK
      <4> QED
        BY <3>1, <3>5, <3>t, <4>1, <4>2, <4>3
    <3>11. CASE Process!JoinJablotron(i)
      <4>1. /\ S[p] = <<"join", "jablotron">> /\ UNCHANGED <<enabled, readable, made, callable, quit>>
            /\ UNCHANGED thread \/ thread' = [thread EXCEPT !["main"] = "waits"]
        BY <3>1, <3>11 DEF Process!JoinJablotron, Process!Does
      <4>2. S[p][1] = "join" /\ S[p][2] = "jablotron"
        BY <4>1
      <4>3. Process!ProcessTypeOK'
        BY <3>t, <4>1 DEF Process!ProcessTypeOK, Process!Threads
      <4>4. \A t \in Parts \cup Process!Helpers : thread'[t] = thread[t]
        BY <3>t, <4>1 DEF Process!ProcessTypeOK, Process!Threads
      <4>5. thread'["main"] # "ended"
        BY <3>1, <3>t, <4>1 DEF Process!ProcessTypeOK, Process!Threads
      <4>6. \A j \in 1..b : S[j][1] = "join" => S[j][2] \in Parts
        <5>1. 1..b \subseteq 1..32
          BY <2>r DEF b
        <5> QED
          BY <1>1, <5>1
      <4> QED
        BY <3>1, <3>5, <3>t, <4>1, <4>2, <4>3, <4>4, <4>5, <4>6
    <3> QED
      BY <3>7, <3>8, <3>9, <3>10, <3>11, <2>2 DEF Process!Step
  <2>t. /\ Process!ProcessTypeOK /\ StartedByMain /\ {"aggregator", "connection", "mqtt"} \subseteq Parts
        /\ Process!Threads = {"main", "distributor", "button", "dispatcher"} \cup Parts
        /\ {"main", "distributor", "button", "dispatcher"} \cap Parts = {}
    BY <1>4 DEF Process!Threads, Process!Runnables, Process!Children, Process!Helpers
  <2>3. CASE Process!Return
    <3>1. Process!ProcessTypeOK'
      BY <2>3, <2>t DEF Process!Return, Process!ProcessTypeOK
    <3>2. \A t \in Process!Threads \ {"main"} : thread'[t] = thread[t]
      BY <2>3, <2>t DEF Process!Return, Process!ProcessTypeOK
    <3>3. \A t \in Parts \cup {"distributor", "button", "dispatcher"} : thread'[t] = thread[t]
      BY <2>t, <3>2
    <3> QED
      BY <2>1, <2>3, <2>t, <3>1, <3>3 DEF Process!Return, StartedByMain
  <2>4. CASE Process!KillMe
    <3>1. Process!ProcessTypeOK'
      BY <2>4, <2>t DEF Process!KillMe, Process!ProcessTypeOK
    <3> QED
      BY <2>1, <2>4, <2>t, <3>1 DEF Process!KillMe, StartedByMain
  <2>5. CASE Process!ThreadNext
    \* One thread that runs changes its state, or one that it starts.
    <3>1. ASSUME NEW t \in Process!Threads, NEW state \in {"idle", "runs", "waits", "ended"},
                 Process!Becomes(t, state), UNCHANGED <<enabled, readable, todo, made, callable>>,
                 quit' = quit, t # "main", thread[t] # "ended",
                 t \in Parts => thread[t] # "none",
                 t \in {"distributor", "button"} => thread[t] # "none",
                 t = "distributor" => thread["aggregator"] # "ended",
                 t = "dispatcher" => thread["connection"] # "none",
                 t = "aggregator" /\ state = "ended" =>
                   thread["button"] # "none" /\ thread["distributor"] \in {"ended", "none"}
          PROVE  ProcessInv'
      <4>1. Process!ProcessTypeOK'
        BY <3>1, <2>t DEF Process!Becomes, Process!ProcessTypeOK
      <4>2. thread'[t] = state /\ \A s \in Process!Threads \ {t} : thread'[s] = thread[s]
        BY <3>1, <2>t DEF Process!Becomes, Process!ProcessTypeOK
      <4>3. \A s \in Parts : thread'[s] # "none" => thread[s] # "none"
        BY <3>1, <4>2, <2>t
      <4>4. \A s \in Parts : thread[s] = "ended" => thread'[s] = "ended"
        BY <3>1, <4>2, <2>t
      <4>5. thread'["main"] = thread["main"]
        BY <3>1, <4>2, <2>t
      <4>6. \A s \in Process!Threads : thread'[s] # "none" => s = t \/ thread[s] # "none"
        BY <4>2
      <4>7. \A s \in Process!Threads : thread[s] # "none" => thread'[s] # "none"
        BY <4>2
      <4>8. /\ thread'["distributor"] # "none" => thread'["button"] # "none"
            /\ thread'["button"] # "none" => thread'["aggregator"] # "none"
            /\ thread'["dispatcher"] # "none" => thread'["connection"] # "none"
            /\ callable' => thread'["distributor"] # "none"
        BY <3>1, <4>6, <4>7, <2>t DEF StartedByMain
      <4>9. thread'["aggregator"] = "ended" =>
              thread'["button"] # "none" /\ thread'["distributor"] \in {"ended", "none"}
        BY <3>1, <4>2, <4>7, <2>t DEF StartedByMain
      <4> QED
        BY <2>1, <3>1, <4>1, <4>3, <4>4, <4>5, <4>8, <4>9, <2>t DEF StartedByMain
    <3>2. CASE Process!StartHelpers
      <4>1. /\ thread["aggregator"] = "runs" /\ thread["button"] = "none" /\ thread["distributor"] = "none"
            /\ ~callable /\ UNCHANGED <<enabled, readable, made, todo, callable, quit>>
        BY <3>2, <2>t DEF Process!StartHelpers, Process!Alive, StartedByMain
      <4>2. PICK state \in {"none", "runs"} :
              thread' = [thread EXCEPT !["button"] = "runs", !["distributor"] = state]
        BY <3>2 DEF Process!StartHelpers
      <4>3. Process!ProcessTypeOK'
        BY <4>1, <4>2, <2>t DEF Process!ProcessTypeOK
      <4>4. /\ \A s \in Parts \cup {"main", "dispatcher"} : thread'[s] = thread[s]
            /\ thread'["button"] = "runs"
        BY <4>2, <2>t DEF Process!ProcessTypeOK
      <4> QED
        BY <2>1, <2>t, <4>1, <4>3, <4>4 DEF StartedByMain
    <3>3. CASE Process!SetAgg
      <4>1. Process!ProcessTypeOK'
        BY <3>3, <2>t DEF Process!SetAgg, Process!ProcessTypeOK
      <4> QED
        BY <2>1, <3>3, <2>t, <4>1 DEF Process!SetAgg, Process!Alive, StartedByMain
    <3>4. CASE Process!EndDistributor
      <4>1. thread["aggregator"] # "none" /\ thread["aggregator"] # "ended"
        BY <3>4, <2>t DEF Process!EndDistributor, Process!Alive, StartedByMain
      <4> QED
        BY <3>1, <3>4, <4>1, <2>t DEF Process!EndDistributor, Process!Alive
    <3>5. CASE Process!StartDispatcher
      BY <3>1, <3>5, <2>t DEF Process!StartDispatcher, Process!Alive
    <3>6. CASE Process!EndAggregator
      BY <3>1, <3>6, <2>t DEF Process!EndAggregator, Process!Alive
    <3>7. CASE Process!EndConnection
      BY <3>1, <3>7, <2>t DEF Process!EndConnection, Process!Alive
    <3>8. ASSUME NEW t \in Process!Threads, Process!End(t) PROVE ProcessInv'
      BY <3>1, <3>8, <2>t DEF Process!End, Process!Alive
    <3>9. CASE Process!EndButton
      BY <3>1, <3>9, <2>t DEF Process!EndButton, Process!Alive
    <3>10. CASE Process!Wake
      BY <3>1, <3>10, <2>t DEF Process!Wake, Process!Alive
    <3>11. CASE Process!EndCommand
      BY <3>1, <3>11, <2>t DEF Process!EndCommand, Process!Alive, StartedByMain
    <3> QED
      BY <3>2, <3>3, <3>4, <3>5, <3>6, <3>7, <3>8, <3>9, <3>10, <3>11, <2>5 DEF Process!ThreadNext, Process!HelperNext
  <2> QED
    BY <2>u, <2>2, <2>3, <2>4, <2>5, <1>4 DEF Process!ProcessNext, Process!MainNext
<1>5. ProcessInv => StopIsClean
  <2> SUFFICES ASSUME ProcessInv PROVE StopIsClean
    OBVIOUS
  <2>r. Behind \in 0..32 /\ Len(todo) = 32 - Behind
    <3>1. Len(todo) \in 0..32
      BY <1>0 DEF S, ProcessInv
    <3>2. Behind = 32 - Len(todo)
      BY <1>0 DEF Behind, S
    <3>3. \A n \in 0..32 : 32 - n \in 0..32 /\ n = 32 - (32 - n)
      OBVIOUS
    <3> QED
      BY <3>1, <3>2, <3>3, Zenon
  <2>0. DOMAIN todo = 1..(32 - Behind) /\ \A i \in 1..(32 - Behind) : todo[i] = S[i + Behind]
    <3>1. DOMAIN todo = 1..Len(todo)
      BY LenProperties DEF ProcessInv
    <3> QED
      BY <2>r, <3>1 DEF DoneInOrder, S, ProcessInv
  <2>1. Process!CalledWhenWhole
    <3> SUFFICES ASSUME NEW t \in Process!Threads, Process!Calls(t),
                        NEW p \in Process!Given, Process!Present(p)
                 PROVE  p \in made
      BY DEF Process!CalledWhenWhole
    <3>1. \E s \in Parts \ {"mqtt"} : thread[s] # "none"
      <4>1. thread[t] = "runs" /\ t # "main" /\ (t = "mqtt" => callable)
        BY DEF Process!Calls
      <4>2. CASE t \in Parts \ {"mqtt"}
        BY <4>1, <4>2
      <4>3. CASE t \in Process!Helpers \cup {"mqtt"}
        <5>1. thread["aggregator"] # "none" \/ thread["connection"] # "none"
          BY <4>1, <4>3 DEF ProcessInv, StartedByMain, Process!Helpers
        <5> QED
          BY <5>1 DEF Process!Runnables
      <4> QED
        BY <4>1, <4>2, <4>3 DEF Process!Threads
    <3>2. PICK s \in Parts \ {"mqtt"} : thread[s] # "none"
      BY <3>1
    <3>3. PICK i \in 1..Behind : S[i] = <<"start", s>>
      BY <3>2 DEF ProcessInv, StartedByMain, S
    <3>4. PICK j \in 1..32 : S[j] = <<"give", p>>
      BY <1>2
    <3>5. S[i][1] = "start" /\ S[i][2] = s /\ S[j][1] = "give" /\ S[j][2] = p
      BY <3>3, <3>4
    <3>6. i \in 12..21 /\ j \in 2..11
      <4>1. i \in 1..32
        BY <2>r
      <4> QED
        BY <1>1, <3>2, <3>5, <4>1
    <3>7. j \in 1..Behind
      <4>1. Behind \in Int /\ i <= Behind
        BY <2>r
      <4> QED
        BY <3>6, <4>1
    <3> QED
      BY <3>5, <3>7 DEF ProcessInv, DoneInOrder, S
  <2>2. Process!OutlivesMain
    <3> SUFFICES ASSUME thread["main"] = "ended", NEW t \in Process!Threads,
                        thread[t] \in {"runs", "idle"}, t \notin {"leds", "jablotron", "dispatcher", "button"}
                 PROVE  FALSE
      BY DEF Process!OutlivesMain
    <3>1. ASSUME NEW s \in Parts, thread[s] \in {"runs", "idle", "waits"}, s \notin {"leds", "jablotron"}
          PROVE  FALSE
      <4>1. Process!Present(s) /\ s \notin Process!Children \ readable
        BY <3>1 DEF ProcessInv, StartedByMain
      <4>2. PICK j \in 1..32 : S[j] = <<"join", s>>
        BY <1>2, <3>1
      <4>3. S[j][1] = "join" /\ S[j][2] = s
        BY <4>2
      <4>4. j \in 1..Behind
        <5>1. ASSUME j > Behind PROVE FALSE
          <6>1. j - Behind \in 1..(32 - Behind) /\ (j - Behind) + Behind = j
            BY <2>r, <5>1
          <6>2. j - Behind \in DOMAIN todo /\ todo[j - Behind] = S[j]
            BY <2>0, <6>1
          <6> QED
            BY <4>1, <4>3, <6>2 DEF ProcessInv, StartedByMain
        <5> QED
          BY <2>r, <5>1
      <4> QED
        BY <3>1, <4>1, <4>3, <4>4 DEF ProcessInv, DoneInOrder, S
    <3>2. CASE t = "distributor"
      <4>1. thread["aggregator"] # "none" /\ thread["aggregator"] # "ended"
        BY <3>2 DEF ProcessInv, StartedByMain
      <4>2. thread["aggregator"] \in {"runs", "idle", "waits"} /\ "aggregator" \in Parts
        BY <4>1 DEF ProcessInv, Process!ProcessTypeOK, Process!Runnables, Process!Threads
      <4> QED
        BY <3>1, <4>2
    <3>3. CASE t \in Parts
      BY <3>1, <3>3
    <3> QED
      BY <3>2, <3>3 DEF Process!Threads, Process!Helpers
  <2> QED
    BY <2>1, <2>2 DEF StopIsClean, Process!StopIsClean
\* In the other behaviours there is no process.
<1> DEFINE AtRest == IF exercised = "process" THEN ProcessInv ELSE NoProcess
<1>6. StreamsInit => AtRest
  BY <1>3 DEF StreamsInit
<1>7. ASSUME AtRest, [StreamsNext]_<<exercised, vars, frameVars, processVars>> PROVE AtRest'
  <2>1. CASE OfProcess(Process!ProcessNext)
    BY <1>4, <1>7, <2>1 DEF OfProcess
  <2>2. CASE UNCHANGED <<exercised, processVars>>
    <3>1. CASE exercised = "process"
      BY <1>4, <1>7, <2>2, <3>1
    <3>2. CASE exercised # "process"
      BY <1>7, <2>2, <3>2 DEF NoProcess, processVars
    <3> QED
      BY <3>1, <3>2
  <2> QED
    BY <1>7, <2>1, <2>2 DEF StreamsNext, OverTcp, OverWebSocket
<1>8. NoProcess => StopIsClean
  BY DEF NoProcess, StopIsClean, Process!StopIsClean, Process!CalledWhenWhole, Process!Calls,
         Process!OutlivesMain, Process!Threads
<1>9. AtRest => StopIsClean
  BY <1>5, <1>8
<1>10. AtRest /\ [StreamsNext]_<<exercised, vars, frameVars, processVars>> => AtRest'
  BY <1>7
<1> QED
  BY <1>6, <1>9, <1>10, PTL DEF StreamsSpec
==============================================================================
