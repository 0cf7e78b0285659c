----------------------- MODULE WebSocketConnection_proofs -----------------------
(***************************************************************************)
(* Proofs about WebSocketConnection: the gateway registers first on every  *)
(* connection, no id stays pending after its call, and, as long as the     *)
(* counter of request ids neither starts at 0 nor comes round to it,       *)
(* answers find their requests and nothing is kept of those that are over. *)
(***************************************************************************)
EXTENDS WebSocketConnection, TLAPS

USE ThreadAssumption, TriesAssumption, IdAssumption, BoundAssumption

\* A call in progress has a serial number and tries left.
CallsCount == \A t \in Threads : pc[t] # "idle" => serial[t] > 0 /\ tries[t] < Tries

\* Who holds m_init_mutex has not sent anything but "register".
FirstIsRegister ==
  /\ sock \in {"opening", "fresh"} => first = "nothing"
  /\ sock \in {"open", "broken"} => first = "register"
  /\ RegisterComesFirst

Inv == TypeOK /\ CallsCount /\ FirstIsRegister

\* Nothing is sent on a connection before "register", whoever asks for what while
\* initConnection holds m_init_mutex (WebSocketServerConnection.cpp:53-60, 106-163, 294-299).
THEOREM Registration == Spec => [](Inv /\ TypeOK /\ RegisterComesFirst)
<1>1. Init => Inv
  <2> SUFFICES ASSUME Init PROVE Inv
    OBVIOUS
  <2>1. <<>> \in Seq(Frames) /\ 0 \in 0..Tries /\ 0 \in 0..MaxRequests /\ 0 \in Ids
    BY DEF Ids
  <2>2. TypeOK
    <3>1. /\ pc \in [Threads -> Pcs] /\ id \in [Threads -> Ids] /\ tries \in [Threads -> 0..Tries]
          /\ serial \in [Threads -> 0..MaxRequests] /\ answer \in [Threads -> 0..MaxRequests]
      BY <2>1 DEF Init, Pcs
    <3>2. current \in Ids /\ frames \in Seq(Frames) /\ pc[Recv] = "idle"
      BY <2>1 DEF Init, Ids, Threads
    <3>3. requests \in 0..MaxRequests /\ commands \in 0..MaxCommands /\ drops \in 0..MaxDrops
      BY DEF Init
    <3>4. pending = {} /\ responses = {} /\ inbox = {} /\ late = {}
      BY DEF Init
    <3>5. sock \in Socks /\ first = "nothing" /\ command = FALSE
      BY DEF Init, Socks
    <3> QED
      BY <3>1, <3>2, <3>3, <3>4, <3>5 DEF TypeOK
  <2> QED
    BY <2>2 DEF Init, Inv, CallsCount, FirstIsRegister, RegisterComesFirst
<1>2. Inv /\ [Next]_vars => Inv'
  <2> SUFFICES ASSUME Inv, [Next]_vars PROVE Inv'
    OBVIOUS
  <2> USE DEF Inv, CallsCount
  <2>0. /\ \A t \in Threads : id[t] \in Ids /\ serial[t] \in 0..MaxRequests /\ tries[t] \in 0..Tries
        /\ \A t \in Threads : pc[t] # "idle" => serial[t] \in Serials
        /\ \A r \in responses : r[1] \in Ids /\ r[2] \in Serials
    BY DEF TypeOK, Serials
  <2>1. ASSUME NEW t \in Threads, Generate(t) PROVE Inv'
    <3>1. current' \in Ids /\ id' \in [Threads -> Ids]
      BY SMTT(30), <2>1 DEF Generate, NextId, Ids, TypeOK
    <3>2. requests' \in 0..MaxRequests /\ serial' \in [Threads -> 0..MaxRequests]
      BY <2>1 DEF Generate, TypeOK
    <3>3. TypeOK'
      BY <2>1, <3>1, <3>2 DEF Generate, Goto, MayRequest, TypeOK, Pcs, netVars
    <3>4. CallsCount'
      BY <2>1 DEF Generate, Goto, TypeOK
    <3> QED
      BY <2>1, <3>3, <3>4 DEF Generate, FirstIsRegister, RegisterComesFirst, netVars
  <2>2. ASSUME NEW t \in Threads, PrepareForResponse(t) \/ GiveUp(t) \/ RequestDone(t) PROVE Inv'
    <3>1. PICK l \in {"send", "idle", "sleep"} : Goto(t, l)
      BY <2>2 DEF PrepareForResponse, GiveUp, RequestDone
    <3>2. /\ pc[t] # "idle" /\ pending' \subseteq pending \cup {id[t]}
          /\ UNCHANGED <<current, responses, id, serial, tries, answer, requests, netVars, command,
                         late, commands, drops>>
      BY <2>2 DEF PrepareForResponse, GiveUp, RequestDone
    <3>3. TypeOK'
      BY <3>1, <3>2 DEF Goto, TypeOK, Pcs, netVars
    <3> QED
      BY <3>1, <3>2, <3>3 DEF Goto, TypeOK, FirstIsRegister, RegisterComesFirst, netVars
  <2>3. ASSUME NEW t \in Threads, SafeSendToServer(t) PROVE Inv'
    <3>1. inbox' \subseteq inbox \cup {<<id[t], serial[t]>>} /\ pc[t] = "send"
      BY <2>3 DEF SafeSendToServer, Transmit
    <3>2. inbox' \subseteq Ids \X Serials
      <4>1. <<id[t], serial[t]>> \in Ids \X Serials
        BY <2>0, <3>1
      <4> QED
        BY <3>1, <4>1 DEF TypeOK
    <3>3. PICK l \in {"check", "failed"} : Goto(t, l)
      BY <2>3 DEF SafeSendToServer, Transmit
    <3>4. sock' = sock /\ first' = first
      BY <2>3 DEF SafeSendToServer, Transmit, InitLocked, SentFirst, FirstIsRegister
    <3>5. TypeOK' /\ CallsCount'
      BY <2>3, <3>1, <3>2, <3>3, <3>4 DEF SafeSendToServer, Goto, TypeOK, Pcs
    <3> QED
      BY <3>4, <3>5 DEF FirstIsRegister, RegisterComesFirst
  <2>4. ASSUME NEW t \in Threads, CheckForResponse(t) \/ NothingYet(t) PROVE Inv'
    <3>1. PICK l \in {"found", "last", "sleep"} : Goto(t, l)
      BY <2>4 DEF CheckForResponse, NothingYet
    <3>2. /\ pc[t] # "idle" /\ responses' \subseteq responses
          /\ UNCHANGED <<current, pending, id, serial, tries, requests, netVars, command, late,
                         commands, drops>>
      BY <2>4 DEF CheckForResponse, NothingYet
    <3>3. answer' \in [Threads -> 0..MaxRequests]
      <4>1. CASE CheckForResponse(t)
        <5>1. PICK r \in Found(t) : answer' = [answer EXCEPT ![t] = r[2]]
          BY <4>1 DEF CheckForResponse
        <5>2. r[2] \in 0..MaxRequests
          BY <2>0 DEF Found, Serials
        <5> QED
          BY <5>1, <5>2 DEF TypeOK
      <4>2. CASE NothingYet(t)
        BY <4>2 DEF NothingYet, TypeOK
      <4> QED
        BY <2>4, <4>1, <4>2
    <3>a. responses' \subseteq Ids \X Serials /\ \A r, q \in responses' : r[1] = q[1] => r = q
      BY <3>2 DEF TypeOK
    <3>b. pc' \in [Threads -> Pcs] /\ (pc'[Recv] # "idle" => command)
      BY <3>1, <3>2 DEF Goto, TypeOK, Pcs
    <3>4. TypeOK'
      BY <3>2, <3>3, <3>a, <3>b DEF TypeOK, netVars
    <3> QED
      BY <3>1, <3>2, <3>4 DEF Goto, TypeOK, FirstIsRegister, RegisterComesFirst, netVars
  <2>5. ASSUME NEW t \in Threads, Sleep(t) PROVE Inv'
    <3>1. /\ pc[t] = "sleep" /\ tries' = [tries EXCEPT ![t] = tries[t] + 1]
          /\ UNCHANGED <<current, pending, responses, id, serial, answer, requests, netVars, command,
                         late, commands, drops>>
      BY <2>5 DEF Sleep
    <3>2. tries' \in [Threads -> 0..Tries]
      <4>1. tries[t] + 1 \in 0..Tries
        BY <2>0, <3>1
      <4> QED
        BY <3>1, <4>1 DEF TypeOK
    <3>3. \/ Goto(t, "check") /\ tries[t] + 1 < Tries
          \/ Goto(t, "idle")
      BY <2>5 DEF Sleep
    <3>a. pc' \in [Threads -> Pcs] /\ (pc'[Recv] # "idle" => command)
      <4>1. PICK l \in {"check", "idle"} : pc' = [pc EXCEPT ![t] = l]
        BY <3>3 DEF Goto
      <4> QED
        BY <3>1, <4>1 DEF TypeOK, Pcs
    <3>5. TypeOK'
      BY <3>1, <3>2, <3>a DEF TypeOK, netVars
    <3>6. CallsCount'
      BY <3>1, <3>3 DEF Goto, TypeOK
    <3> QED
      BY <3>1, <3>5, <3>6 DEF FirstIsRegister, RegisterComesFirst, netVars
  <2>6. CASE InitConnection \/ InitSocket \/ InitSocketFails \/ SendRegisterMessage
    <3>1. /\ sock' \in Socks /\ first' \in {"nothing", "register", "request", "ack"}
          /\ frames' \in Seq(Frames)
      <4>1. <<>> \in Seq(Frames) /\ frames \in Seq(Frames)
        BY DEF TypeOK
      <4>2. sock' \in Socks /\ (frames' = <<>> \/ frames' = frames)
        BY <2>6 DEF InitConnection, InitSocket, InitSocketFails, SendRegisterMessage, Socks
      <4>3. first' \in {"nothing", "register", first}
        BY <2>6 DEF InitConnection, InitSocket, InitSocketFails, SendRegisterMessage, SentFirst
      <4> QED
        BY <4>1, <4>2, <4>3 DEF TypeOK
    <3>2. UNCHANGED <<callVars, responses, answer, inbox, command, late, commands, drops>>
      BY <2>6 DEF InitConnection, InitSocket, InitSocketFails, SendRegisterMessage
    <3>3. TypeOK' /\ CallsCount'
      BY <3>1, <3>2 DEF TypeOK, callVars
    <3>4. FirstIsRegister'
      BY <2>6 DEF InitConnection, InitSocket, InitSocketFails, SendRegisterMessage, SentFirst,
        FirstIsRegister, RegisterComesFirst
    <3> QED
      BY <3>3, <3>4
  <2>7. CASE AcceptResponse
    <3>1. /\ Head(frames) \in Frames /\ frames' \in Seq(Frames) /\ Head(frames).kind = "response"
          /\ UNCHANGED <<callVars, answer, sock, first, inbox, command, commands, drops>>
      BY <2>7 DEF AcceptResponse, TypeOK
    <3>2. Head(frames).id \in Ids /\ Head(frames).of \in Serials
      BY <3>1 DEF Frames
    <3>3. responses' \subseteq Ids \X Serials /\ \A r, q \in responses' : r[1] = q[1] => r = q
      <4> DEFINE f == Head(frames)
      <4>1. \/ responses' = responses
            \/ responses' = responses \cup {<<f.id, f.of>>} /\ ~\E r \in responses : r[1] = f.id
        BY <2>7 DEF AcceptResponse, File
      <4>2. responses \subseteq Ids \X Serials /\ \A r, q \in responses : r[1] = q[1] => r = q
        BY DEF TypeOK
      <4> HIDE DEF f
      <4>3. <<f.id, f.of>> \in Ids \X Serials
        BY <3>2 DEF f
      <4> QED
        BY <4>1, <4>2, <4>3
    <3>a. late' \subseteq Serials
      BY <2>7, <3>2 DEF AcceptResponse, File, TypeOK
    <3>4. TypeOK' /\ CallsCount'
      BY <3>1, <3>3, <3>a DEF TypeOK, callVars
    <3> QED
      BY <3>1, <3>4 DEF FirstIsRegister, RegisterComesFirst
  <2>8. CASE AcceptCommand \/ CommandEnds
    <3>1. /\ frames' \in Seq(Frames) /\ sock' = sock /\ first' = first
          /\ UNCHANGED <<callVars, responses, answer, inbox, late, commands, drops>>
      <4>1. CASE AcceptCommand
        BY <4>1 DEF AcceptCommand, SentFirst, FirstIsRegister, TypeOK
      <4>2. CASE CommandEnds
        BY <4>2 DEF CommandEnds, TypeOK, netVars
      <4> QED
        BY <2>8, <4>1, <4>2
    <3>2. command' \in BOOLEAN /\ (pc[Recv] # "idle" => command')
      BY <2>8 DEF AcceptCommand, CommandEnds
    <3>3. TypeOK' /\ CallsCount'
      BY <3>1, <3>2 DEF TypeOK, callVars
    <3> QED
      BY <3>1, <3>3 DEF FirstIsRegister, RegisterComesFirst
  <2>9. CASE ServerAnswers
    <3>1. PICK r \in inbox :
            /\ sock = "open" /\ inbox' = inbox \ {r}
            /\ frames' = Append(frames, [kind |-> "response", id |-> r[1], of |-> r[2]])
            /\ UNCHANGED <<callVars, responses, answer, sock, first, command, late, commands,
                           drops>>
      BY <2>9 DEF ServerAnswers
    <3>2. [kind |-> "response", id |-> r[1], of |-> r[2]] \in Frames
      BY DEF TypeOK, Frames
    <3>3. TypeOK' /\ CallsCount'
      BY <3>1, <3>2 DEF TypeOK, callVars
    <3> QED
      BY <3>1, <3>3 DEF FirstIsRegister, RegisterComesFirst
  <2>10. CASE ServerCommands
    <3>1. [kind |-> "command"] \in Frames
      BY DEF Frames
    <3>2. TypeOK' /\ CallsCount'
      BY <2>10, <3>1 DEF ServerCommands, TypeOK, callVars
    <3> QED
      BY <2>10, <3>2 DEF ServerCommands, FirstIsRegister, RegisterComesFirst
  <2>11. CASE Disconnect
    <3>1. frames' \in Seq(Frames)
      BY <2>11 DEF Disconnect, TypeOK
    <3>2. TypeOK' /\ CallsCount'
      BY SMTT(30), <2>11, <3>1 DEF Disconnect, TypeOK, Socks, callVars
    <3> QED
      BY <2>11, <3>2 DEF Disconnect, FirstIsRegister, RegisterComesFirst
  <2>12. CASE UNCHANGED vars
    BY <2>12 DEF vars, TypeOK, FirstIsRegister, RegisterComesFirst
  <2> QED
    BY <2>1, <2>2, <2>3, <2>4, <2>5, <2>6, <2>7, <2>8, <2>9, <2>10, <2>11, <2>12
    DEF Next, SendToServer, Receiver
<1>3. Inv => TypeOK /\ RegisterComesFirst
  BY DEF Inv, FirstIsRegister
<1> QED
  BY <1>1, <1>2, <1>3, PTL DEF Spec

-----------------------------------------------------------------------------
\* The id of a request, when the ids have not come round: serial numbers and ids go together.
IdOf(n) == current - requests + n - 1

RightFrame(f) == f.kind = "response" => f.id = IdOf(f.of)

IdsAgree ==
  /\ current > 0 /\ current + MaxRequests - requests < IdLimit
  /\ \A t \in Threads : serial[t] > 0 => id[t] = IdOf(serial[t])
  /\ \A r \in inbox : r[1] = IdOf(r[2])
  /\ \A r \in responses : r[1] = IdOf(r[2])
  /\ \A i \in 1..Len(frames) : RightFrame(frames[i])
  /\ AnswerIsMine

\* No id comes round while the requests are made.
LEMMA Agreement ==
  ASSUME \A s \in StartIds : s > 0 /\ s + MaxRequests < IdLimit
  PROVE  Spec => []IdsAgree
<1>1. Init => IdsAgree
  BY DEF Init, IdsAgree, AnswerIsMine, Ids
<1>2. Inv /\ Inv' /\ IdsAgree /\ [Next]_vars => IdsAgree'
  <2> SUFFICES ASSUME Inv, Inv', IdsAgree, [Next]_vars PROVE IdsAgree'
    OBVIOUS
  <2>0. /\ current \in Nat /\ requests \in 0..MaxRequests /\ frames \in Seq(Frames)
        /\ \A t \in Threads : id[t] \in Nat /\ serial[t] \in Nat
        /\ \A t \in Threads : pc[t] # "idle" => serial[t] > 0
    <3>1. current \in 0..(IdLimit - 1) /\ requests \in 0..MaxRequests /\ frames \in Seq(Frames)
      BY DEF Inv, TypeOK, Ids
    <3>2. ASSUME NEW t \in Threads PROVE id[t] \in 0..(IdLimit - 1) /\ serial[t] \in 0..MaxRequests
      BY DEF Inv, TypeOK, Ids
    <3>3. \A t \in Threads : pc[t] # "idle" => serial[t] > 0
      BY DEF Inv, CallsCount
    <3> QED
      BY <3>1, <3>2, <3>3
  <2>a. ASSUME UNCHANGED <<current, requests, id, serial>>, inbox' \subseteq inbox,
               responses' \subseteq responses, AnswerIsMine',
               \A i \in 1..Len(frames') : frames'[i].kind = "response" =>
                  \E j \in 1..Len(frames) : frames[j] = frames'[i]
        PROVE  IdsAgree'
    BY <2>a DEF IdsAgree, IdOf, RightFrame
  <2>1. ASSUME NEW t \in Threads, Generate(t) PROVE IdsAgree'
    <3>1. requests < MaxRequests /\ current # 0 /\ current + 1 < IdLimit
      BY <2>0, <2>1 DEF Generate, IdsAgree
    <3>2. current' = current + 1 /\ id' = [id EXCEPT ![t] = current]
      <4>1. (current + 1) % IdLimit = current + 1
        BY SMTT(30), <2>0, <3>1
      <4> QED
        BY <2>1, <3>1, <4>1 DEF Generate, NextId
    <3>3. /\ requests' = requests + 1 /\ serial' = [serial EXCEPT ![t] = requests + 1]
          /\ answer' = [answer EXCEPT ![t] = 0] /\ UNCHANGED <<responses, netVars>>
      BY <2>1 DEF Generate
    <3>4. current' - requests' = current - requests /\ current' > 0
          /\ current' + MaxRequests - requests' < IdLimit
      BY <2>0, <3>2, <3>3 DEF IdsAgree
    <3>5. \A u \in Threads : serial'[u] > 0 => id'[u] = current' - requests' + serial'[u] - 1
      <4> SUFFICES ASSUME NEW u \in Threads, serial'[u] > 0
                   PROVE  id'[u] = current' - requests' + serial'[u] - 1
        OBVIOUS
      <4>1. CASE u = t
        <5>1. id'[u] = current /\ serial'[u] = requests + 1
          BY <3>2, <3>3, <4>1 DEF Inv, TypeOK
        <5> QED
          BY <2>0, <3>4, <5>1
      <4>2. CASE u # t
        <5>1. id'[u] = id[u] /\ serial'[u] = serial[u]
          BY <3>2, <3>3, <4>2 DEF Inv, TypeOK
        <5> QED
          BY <3>4, <5>1 DEF IdsAgree, IdOf
      <4> QED
        BY <4>1, <4>2
    <3>6. /\ \A r \in inbox' : r[1] = current' - requests' + r[2] - 1
          /\ \A r \in responses' : r[1] = current' - requests' + r[2] - 1
      BY <3>3, <3>4 DEF IdsAgree, IdOf, netVars
    <3>7. ASSUME NEW i \in 1..Len(frames'), frames'[i].kind = "response"
          PROVE  frames'[i].id = current' - requests' + frames'[i].of - 1
      BY <3>3, <3>4, <3>7 DEF IdsAgree, IdOf, RightFrame, netVars
    <3>8. AnswerIsMine'
      BY <3>3 DEF IdsAgree, AnswerIsMine, Inv, TypeOK
    <3> QED
      BY <3>4, <3>5, <3>6, <3>7, <3>8 DEF IdsAgree, IdOf, RightFrame
  <2>2. ASSUME NEW t \in Threads, PrepareForResponse(t) \/ GiveUp(t) \/ RequestDone(t) \/ Sleep(t)
        PROVE  IdsAgree'
    BY <2>2, <2>a DEF PrepareForResponse, GiveUp, RequestDone, Sleep, IdsAgree, AnswerIsMine, netVars
  <2>3. ASSUME NEW t \in Threads, SafeSendToServer(t) PROVE IdsAgree'
    <3>1. /\ inbox' \subseteq inbox \cup {<<id[t], serial[t]>>} /\ serial[t] > 0
          /\ UNCHANGED <<current, requests, id, serial, answer, responses, frames>>
      BY <2>0, <2>3 DEF SafeSendToServer, Transmit
    <3> QED
      BY <3>1 DEF IdsAgree, IdOf, RightFrame, AnswerIsMine
  <2>4. ASSUME NEW t \in Threads, CheckForResponse(t) PROVE IdsAgree'
    <3>1. PICK r \in responses :
            /\ r[1] = id[t] /\ answer' = [answer EXCEPT ![t] = r[2]] /\ responses' = responses \ {r}
      BY <2>4 DEF CheckForResponse, Found
    <3>2. serial[t] > 0 /\ UNCHANGED <<current, requests, id, serial, inbox, frames>>
      BY <2>0, <2>4 DEF CheckForResponse, netVars
    <3>3. r[2] \in Nat
      BY SMTT(30) DEF Inv, TypeOK, Serials
    <3>4. r[2] = serial[t]
      BY SMTT(30), <2>0, <3>1, <3>2, <3>3 DEF IdsAgree, IdOf
    <3>5. AnswerIsMine'
      BY <3>1, <3>2, <3>4 DEF IdsAgree, AnswerIsMine, Inv, TypeOK
    <3> QED
      BY <2>a, <3>1, <3>2, <3>5
  <2>5. ASSUME NEW t \in Threads, NothingYet(t) PROVE IdsAgree'
    BY <2>5, <2>a DEF NothingYet, IdsAgree, AnswerIsMine, netVars
  <2>6. CASE InitConnection \/ InitSocket \/ InitSocketFails \/ SendRegisterMessage \/ CommandEnds
    <3>1. /\ UNCHANGED <<callVars, responses, answer, inbox>>
          /\ frames' = <<>> \/ frames' = frames
      BY <2>6 DEF InitConnection, InitSocket, InitSocketFails, SendRegisterMessage, CommandEnds,
        netVars
    <3> QED
      BY <2>a, <3>1 DEF IdsAgree, AnswerIsMine, callVars
  <2>7. CASE AcceptResponse \/ AcceptCommand
    <3>1. /\ frames # <<>> /\ frames' = Tail(frames) /\ UNCHANGED <<callVars, answer, inbox>>
      BY <2>7 DEF AcceptResponse, AcceptCommand
    <3>2. \A i \in 1..Len(frames') : i + 1 \in 1..Len(frames) /\ frames'[i] = frames[i + 1]
      BY <2>0, <3>1
    <3>3. CASE responses' = responses
      BY <2>a, <3>1, <3>2, <3>3 DEF IdsAgree, AnswerIsMine, callVars
    <3>4. CASE responses' # responses
      <4> DEFINE f == Head(frames)
      <4>1. f = frames[1] /\ 1 \in 1..Len(frames)
        BY <2>0, <3>1
      <4>2. f.kind = "response" /\ responses' = responses \cup {<<f.id, f.of>>}
        BY <2>7, <3>4 DEF AcceptResponse, AcceptCommand, File
      <4> HIDE DEF f
      <4>3. f.id = IdOf(f.of)
        BY <4>1, <4>2 DEF IdsAgree, RightFrame
      <4> QED
        BY <3>1, <3>2, <4>2, <4>3 DEF IdsAgree, IdOf, RightFrame, AnswerIsMine, callVars
    <3> QED
      BY <3>3, <3>4
  <2>8. CASE ServerAnswers
    <3>1. PICK r \in inbox :
            /\ inbox' = inbox \ {r}
            /\ frames' = Append(frames, [kind |-> "response", id |-> r[1], of |-> r[2]])
            /\ UNCHANGED <<callVars, responses, answer>>
      BY <2>8 DEF ServerAnswers
    <3> DEFINE f == [kind |-> "response", id |-> r[1], of |-> r[2]]
    <3>2. RightFrame(f)
      BY DEF IdsAgree, RightFrame
    <3>3. \A i \in 1..Len(frames') :
            IF i = Len(frames) + 1 THEN frames'[i] = f ELSE i \in 1..Len(frames) /\ frames'[i] = frames[i]
      BY <2>0, <3>1
    <3> HIDE DEF f
    <3>4. \A i \in 1..Len(frames') : RightFrame(frames'[i])
      BY <3>2, <3>3 DEF IdsAgree
    <3> QED
      BY <3>1, <3>4 DEF IdsAgree, IdOf, RightFrame, AnswerIsMine, callVars
  <2>9. CASE ServerCommands
    <3>1. /\ frames' = Append(frames, [kind |-> "command"])
          /\ UNCHANGED <<callVars, responses, answer, inbox>>
      BY <2>9 DEF ServerCommands
    <3> DEFINE f == [kind |-> "command"]
    <3>2. f.kind # "response"
      OBVIOUS
    <3>3. \A i \in 1..Len(frames') :
            IF i = Len(frames) + 1 THEN frames'[i] = f ELSE i \in 1..Len(frames) /\ frames'[i] = frames[i]
      BY <2>0, <3>1
    <3> HIDE DEF f
    <3> QED
      BY <2>a, <3>1, <3>2, <3>3 DEF IdsAgree, AnswerIsMine, callVars
  <2>10. CASE Disconnect
    <3>1. PICK n \in 0..Len(frames) : frames' = SubSeq(frames, 1, n)
      BY <2>10 DEF Disconnect
    <3>2. \A i \in 1..Len(frames') : i \in 1..Len(frames) /\ frames'[i] = frames[i]
      BY <2>0, <3>1
    <3> QED
      BY <2>a, <2>10, <3>2 DEF Disconnect, IdsAgree, AnswerIsMine, callVars
  <2>11. CASE UNCHANGED vars
    BY <2>a, <2>11 DEF vars, IdsAgree, AnswerIsMine
  <2> QED
    BY <2>1, <2>2, <2>3, <2>4, <2>5, <2>6, <2>7, <2>8, <2>9, <2>10, <2>11
    DEF Next, SendToServer, Receiver
<1> QED
  BY <1>1, <1>2, Registration, PTL DEF Spec

\* sendToServer returns the answer to its own request, if the ids begin above 0, where
\* generateRequestId gives the same id twice, and are not used up
\* (WebSocketServerConnection.cpp:212-283, 301-330).
THEOREM OwnAnswer ==
  ASSUME \A s \in StartIds : s > 0 /\ s + MaxRequests < IdLimit
  PROVE  Spec => []AnswerIsMine
<1>1. IdsAgree => AnswerIsMine
  BY DEF IdsAgree
<1> QED
  BY <1>1, Agreement, PTL

-----------------------------------------------------------------------------
\* A call between prepareForResponse and requestDone, which takes the id out again.
Holds(t) ==
  \/ pc[t] \in {"send", "failed", "check", "found", "last"}
  \/ pc[t] = "sleep" /\ tries[t] < Tries - 1

PendingIsHeld == \A i \in pending : \E t \in Threads : id[t] = i /\ Holds(t)

\* No id stays in m_pending_requests once its call has returned, even where ids have come
\* round: each way out of sendToServer removes it (WebSocketServerConnection.cpp:227-255).
THEOREM PendingIsTakenOut == Spec => [](PendingIsHeld /\ PendingHasCaller)
<1>1. Init => PendingIsHeld
  BY DEF Init, PendingIsHeld
<1>2. Inv /\ Inv' /\ PendingIsHeld /\ [Next]_vars => PendingIsHeld'
  <2> SUFFICES ASSUME Inv, Inv', PendingIsHeld, [Next]_vars,
                      NEW i \in pending'
               PROVE  \E u \in Threads : id'[u] = i /\ Holds(u)'
    BY DEF PendingIsHeld
  <2> USE DEF PendingIsHeld, Holds
  <2>0. /\ pc \in [Threads -> Pcs] /\ pc' \in [Threads -> Pcs] /\ id \in [Threads -> Ids]
        /\ tries \in [Threads -> 0..Tries]
        /\ \A t \in Threads : pc[t] # "idle" => tries[t] < Tries
    BY DEF Inv, TypeOK, CallsCount
  <2>a. ASSUME NEW t \in Threads, NEW l \in Pcs, Goto(t, l), UNCHANGED <<id, tries>>, i \in pending,
               id[t] = i /\ Holds(t) => Holds(t)'
        PROVE  \E u \in Threads : id'[u] = i /\ Holds(u)'
    <3>1. PICK u \in Threads : id[u] = i /\ Holds(u)
      BY <2>a
    <3>2. CASE u = t
      BY <2>a, <3>1, <3>2
    <3>3. CASE u # t
      BY <2>0, <2>a, <3>1, <3>3 DEF Goto
    <3> QED
      BY <3>2, <3>3
  <2>1. ASSUME NEW t \in Threads, Generate(t) PROVE \E u \in Threads : id'[u] = i /\ Holds(u)'
    <3>1. PICK u \in Threads : id[u] = i /\ Holds(u)
      BY <2>1 DEF Generate
    <3>2. u # t
      BY <2>1, <3>1 DEF Generate
    <3> QED
      BY <2>0, <2>1, <3>1, <3>2 DEF Generate, Goto
  <2>2. ASSUME NEW t \in Threads, PrepareForResponse(t)
        PROVE  \E u \in Threads : id'[u] = i /\ Holds(u)'
    <3>1. CASE i = id[t]
      BY <2>0, <2>2, <3>1 DEF PrepareForResponse, Goto
    <3>2. CASE i # id[t]
      <4>1. Goto(t, "send") /\ i \in pending /\ UNCHANGED <<id, tries>>
        BY <2>2, <3>2 DEF PrepareForResponse
      <4> QED
        BY <2>a, <3>2, <4>1 DEF Pcs
    <3> QED
      BY <3>1, <3>2
  <2>3. ASSUME NEW t \in Threads, SafeSendToServer(t) \/ CheckForResponse(t) \/ NothingYet(t)
        PROVE  \E u \in Threads : id'[u] = i /\ Holds(u)'
    <3>1. UNCHANGED <<id, tries, pending>>
      BY <2>3 DEF SafeSendToServer, CheckForResponse, NothingYet
    <3>2. PICK l \in {"check", "failed", "found", "last", "sleep"} :
            Goto(t, l) /\ (l = "sleep" => tries[t] # Tries - 1 /\ pc[t] = "check")
      BY <2>3 DEF SafeSendToServer, Transmit, CheckForResponse, NothingYet
    <3>3. pc'[t] = l /\ tries[t] \in 0..Tries /\ (pc[t] = "check" => tries[t] < Tries)
      BY <2>0, <3>2 DEF Goto
    <3>4. Holds(t)'
      BY <3>1, <3>2, <3>3
    <3> QED
      BY <2>a, <3>1, <3>2, <3>4 DEF Pcs
  <2>4. ASSUME NEW t \in Threads, GiveUp(t) \/ RequestDone(t)
        PROVE  \E u \in Threads : id'[u] = i /\ Holds(u)'
    <3>1. i \in pending /\ i # id[t] /\ UNCHANGED <<id, tries>>
      BY <2>4 DEF GiveUp, RequestDone
    <3>2. PICK l \in {"idle", "sleep"} : Goto(t, l)
      BY <2>4 DEF GiveUp, RequestDone
    <3> QED
      BY <2>a, <3>1, <3>2 DEF Pcs
  <2>5. ASSUME NEW t \in Threads, Sleep(t) PROVE \E u \in Threads : id'[u] = i /\ Holds(u)'
    <3>1. PICK u \in Threads : id[u] = i /\ Holds(u)
      BY <2>5 DEF Sleep
    <3>2. /\ id' = id /\ tries' = [tries EXCEPT ![t] = tries[t] + 1] /\ pc[t] = "sleep"
          /\ Goto(t, IF tries[t] + 1 < Tries THEN "check" ELSE "idle")
      BY <2>5 DEF Sleep
    <3>3. CASE u = t
      <4>1. tries[t] + 1 < Tries
        BY <2>0, <3>1, <3>2, <3>3
      <4> QED
        BY <2>0, <3>1, <3>2, <3>3, <4>1 DEF Goto
    <3>4. CASE u # t
      BY <2>0, <3>1, <3>2, <3>4 DEF Goto
    <3> QED
      BY <3>3, <3>4
  <2>6. CASE UNCHANGED <<pc, id, tries, pending>>
    BY <2>6
  <2>7. CASE UNCHANGED callVars
    BY <2>6, <2>7 DEF callVars
  <2>8. Receiver \/ ServerAnswers \/ ServerCommands \/ Disconnect => UNCHANGED callVars
    BY DEF Receiver, InitConnection, InitSocket, InitSocketFails, SendRegisterMessage,
      AcceptResponse, AcceptCommand, CommandEnds, ServerAnswers, ServerCommands, Disconnect
  <2> QED
    BY <2>1, <2>2, <2>3, <2>4, <2>5, <2>6, <2>7, <2>8 DEF Next, SendToServer, vars
<1>3. Inv /\ PendingIsHeld => PendingHasCaller
  BY DEF PendingIsHeld, PendingHasCaller, Holds
<1> QED
  BY <1>1, <1>2, <1>3, Registration, PTL DEF Spec

-----------------------------------------------------------------------------
\* Where the response to a request can be: not yet answered, on its way, or filed.
AtServer == {r[2] : r \in inbox}
OnWire   == {frames[i].of : i \in {j \in 1..Len(frames) : frames[j].kind = "response"}}
Filed    == {r[2] : r \in responses}
Copies   == AtServer \cup OnWire \cup Filed

SerialsDiffer ==
  /\ \A t \in Threads : serial[t] <= requests
  /\ \A t, u \in Threads : serial[t] > 0 /\ serial[t] = serial[u] => t = u
  /\ \A n \in Copies : n <= requests

OnceOnWire ==
  \A i, j \in 1..Len(frames) :
    frames[i].kind = "response" /\ frames[j].kind = "response" /\ frames[i].of = frames[j].of => i = j

\* Of each request there is one copy, none before it is sent and none after its answer.
OneCopy ==
  /\ OnceOnWire
  /\ AtServer \cap OnWire = {} /\ AtServer \cap Filed = {} /\ OnWire \cap Filed = {}
  /\ \A t \in Threads : pc[t] \in {"prepare", "send", "failed", "found"} => serial[t] \notin Copies

ClearInv == SerialsDiffer /\ OneCopy /\ ResponseHasReason

\* What is kept of a request is for a caller that will look for it, but for the answers that
\* come between a caller's last look and its requestDone, if the ids begin above 0 and are
\* not used up (WebSocketServerConnection.cpp:227-255, 301-312, 320-330).
THEOREM Cleared ==
  ASSUME \A s \in StartIds : s > 0 /\ s + MaxRequests < IdLimit
  PROVE  Spec => []RequestsAreCleared
<1>1. Init => ClearInv
  <2> SUFFICES ASSUME Init PROVE ClearInv
    OBVIOUS
  <2>1. AtServer = {} /\ OnWire = {} /\ Filed = {} /\ Len(frames) = 0 /\ requests = 0
    BY DEF Init, AtServer, OnWire, Filed
  <2>2. \A t \in Threads : serial[t] = 0
    BY DEF Init
  <2> QED
    BY <2>1, <2>2 DEF Init, ClearInv, SerialsDiffer, OneCopy, OnceOnWire, Copies, ResponseHasReason
<1>2. Inv /\ Inv' /\ IdsAgree /\ PendingIsHeld /\ ClearInv /\ [Next]_vars => ClearInv'
  <2> SUFFICES ASSUME Inv, Inv', IdsAgree, PendingIsHeld, ClearInv, [Next]_vars PROVE ClearInv'
    OBVIOUS
  <2> USE DEF ClearInv
  <2>0. /\ pc \in [Threads -> Pcs] /\ serial \in [Threads -> 0..MaxRequests]
        /\ requests \in 0..MaxRequests /\ frames \in Seq(Frames)
        /\ responses \subseteq Ids \X Serials /\ inbox \subseteq Ids \X Serials
        /\ tries \in [Threads -> 0..Tries]
        /\ \A t \in Threads : pc[t] # "idle" => serial[t] > 0 /\ tries[t] < Tries
    BY DEF Inv, TypeOK, CallsCount
  \* The wire loses frames at its ends.
  <2>a. ASSUME NEW k \in Nat,
               \A i \in 1..Len(frames') : i + k \in 1..Len(frames) /\ frames'[i] = frames[i + k]
        PROVE  OnceOnWire' /\ OnWire' \subseteq OnWire
    <3>1. OnWire' \subseteq OnWire
      BY <2>a DEF OnWire
    <3>2. ASSUME NEW i \in 1..Len(frames'), NEW j \in 1..Len(frames'),
                 frames'[i].kind = "response", frames'[j].kind = "response",
                 frames'[i].of = frames'[j].of
          PROVE  i = j
      <4>1. i + k = j + k
        BY <2>a, <3>2 DEF OneCopy, OnceOnWire
      <4> QED
        BY <2>a, <4>1
    <3> QED
      BY <3>1, <3>2 DEF OnceOnWire
  \* Copies are lost, or stay where they are; no call goes on.
  <2>b. ASSUME OnceOnWire', OnWire' \subseteq OnWire, AtServer' \subseteq AtServer,
               Filed' \subseteq Filed, UNCHANGED <<serial, requests>>
        PROVE  /\ SerialsDiffer' /\ Copies' \subseteq Copies
               /\ (AtServer \cap OnWire = {} /\ AtServer \cap Filed = {} /\ OnWire \cap Filed = {})'
    BY <2>b DEF SerialsDiffer, OneCopy, Copies
  <2>c. ASSUME UNCHANGED <<pc, serial, tries, requests, responses, late, inbox>>,
               OnceOnWire', OnWire' \subseteq OnWire
        PROVE  ClearInv'
    <3>1. AtServer' = AtServer /\ Filed' = Filed
      BY <2>c DEF AtServer, Filed
    <3>2. ResponseHasReason'
      BY <2>c DEF ResponseHasReason, WillLook
    <3> QED
      BY <2>b, <2>c, <3>1, <3>2 DEF OneCopy
  \* A caller will look again, or there is no answer for it.
  <2>r. ASSUME NEW t \in Threads, NEW l, Goto(t, l), serial' = serial, late' = late,
               responses' \subseteq responses,
               \A u \in Threads \ {t} : tries'[u] = tries[u],
               \/ ~WillLook(t) \/ WillLook(t)' \/ \A r \in responses' : r[2] # serial[t]
        PROVE  ResponseHasReason'
    <3> SUFFICES ASSUME NEW r \in responses', r[2] \notin late'
                 PROVE  \E u \in Threads : serial'[u] = r[2] /\ WillLook(u)'
      BY DEF ResponseHasReason
    <3>1. PICK u \in Threads : serial[u] = r[2] /\ WillLook(u)
      BY <2>r DEF ResponseHasReason
    <3>2. CASE u = t
      BY <2>r, <3>1, <3>2
    <3>3. CASE u # t
      <4>1. pc'[u] = pc[u] /\ tries'[u] = tries[u]
        BY <2>0, <2>r, <3>3 DEF Goto
      <4>2. WillLook(u)'
        BY <3>1, <4>1 DEF WillLook
      <4> QED
        BY <2>r, <3>1, <4>2
    <3> QED
      BY <3>2, <3>3
  \* The answer to a call in progress is the one with its id.
  <2>i. ASSUME NEW t \in Threads, pc[t] # "idle"
        PROVE  \A q \in responses : q[2] = serial[t] <=> q[1] = id[t]
    <3>1. ASSUME NEW q \in responses PROVE q[1] = current - requests + q[2] - 1 /\ q[2] \in Nat
      BY <2>0 DEF IdsAgree, IdOf, Serials
    <3>2. id[t] = current - requests + serial[t] - 1 /\ serial[t] \in Nat
      BY <2>0, <2>i DEF IdsAgree, IdOf
    <3>3. current - requests \in Int
      BY <2>0 DEF Inv, TypeOK, Ids
    <3> SUFFICES ASSUME NEW q \in responses PROVE q[2] = serial[t] <=> q[1] = id[t]
      OBVIOUS
    <3> QED
      BY <3>1, <3>2, <3>3
  \* A call goes on, and the rest stays.
  <2>d. ASSUME NEW t \in Threads, NEW l \in Pcs, Goto(t, l), UNCHANGED <<serial, requests, frames>>,
               inbox' = inbox, responses' \subseteq responses,
               l \in {"prepare", "send", "failed", "found"} => serial[t] \notin Copies',
               ResponseHasReason'
        PROVE  ClearInv'
    <3>1. AtServer' = AtServer /\ Filed' \subseteq Filed
      BY <2>d DEF AtServer, Filed
    <3>2. OnceOnWire' /\ OnWire' \subseteq OnWire
      BY <2>d DEF OneCopy, OnceOnWire, OnWire
    <3>3. /\ SerialsDiffer' /\ Copies' \subseteq Copies
          /\ (AtServer \cap OnWire = {} /\ AtServer \cap Filed = {} /\ OnWire \cap Filed = {})'
      BY <2>b, <2>d, <3>1, <3>2
    <3>4. \A u \in Threads : pc'[u] = IF u = t THEN l ELSE pc[u]
      BY <2>0, <2>d DEF Goto
    <3>5. \A u \in Threads : pc'[u] \in {"prepare", "send", "failed", "found"} => serial'[u] \notin Copies'
      BY <2>d, <3>3, <3>4 DEF OneCopy
    <3> QED
      BY <2>d, <3>2, <3>3, <3>5 DEF OneCopy
  <2>1. ASSUME NEW t \in Threads, Generate(t) PROVE ClearInv'
    <3>1. /\ requests' = requests + 1 /\ serial' = [serial EXCEPT ![t] = requests + 1]
          /\ pc[t] = "idle" /\ Goto(t, "prepare") /\ UNCHANGED <<responses, inbox, frames, late>>
          /\ \A u \in Threads \ {t} : tries'[u] = tries[u]
      BY <2>0, <2>1 DEF Generate, netVars
    <3>2. AtServer' = AtServer /\ Filed' = Filed /\ OnWire' = OnWire /\ Copies' = Copies
      BY <3>1 DEF AtServer, Filed, OnWire, Copies
    <3>3. \A u \in Threads : /\ serial'[u] = IF u = t THEN requests + 1 ELSE serial[u]
                             /\ pc'[u] = IF u = t THEN "prepare" ELSE pc[u]
      BY <2>0, <3>1 DEF Goto
    <3>4. SerialsDiffer'
      <4>1. \A n \in Copies : n <= requests /\ n \in Nat
        BY <2>0 DEF SerialsDiffer, Copies, AtServer, OnWire, Filed, Serials, Frames
      <4>2. \A u \in Threads : serial[u] \in Nat /\ serial[u] <= requests
        BY <2>0 DEF SerialsDiffer
      <4> QED
        BY <2>0, <3>1, <3>2, <3>3, <4>1, <4>2 DEF SerialsDiffer
    <3>5. requests + 1 \notin Copies
      BY <2>0 DEF SerialsDiffer
    <3>6. OneCopy'
      BY <3>1, <3>2, <3>3, <3>5 DEF OneCopy, OnceOnWire
    <3>7. ResponseHasReason'
      <4> SUFFICES ASSUME NEW q \in responses, q[2] \notin late
                   PROVE  \E u \in Threads : serial'[u] = q[2] /\ WillLook(u)'
        BY <3>1 DEF ResponseHasReason
      <4>1. PICK u \in Threads : serial[u] = q[2] /\ WillLook(u)
        BY DEF ResponseHasReason
      <4>2. u # t
        BY <3>1, <4>1 DEF WillLook
      <4> QED
        BY <3>1, <3>3, <4>1, <4>2 DEF WillLook
    <3> QED
      BY <3>4, <3>6, <3>7
  <2>2. ASSUME NEW t \in Threads, PrepareForResponse(t) \/ GiveUp(t) PROVE ClearInv'
    <3>1. PICK l \in {"send", "idle"} :
            /\ Goto(t, l) /\ pc[t] \in {"prepare", "failed"}
            /\ l = "send" => pc[t] = "prepare"
      BY <2>2 DEF PrepareForResponse, GiveUp
    <3>2. UNCHANGED <<serial, tries, requests, responses, inbox, frames, late>>
      BY <2>2 DEF PrepareForResponse, GiveUp, netVars
    <3>3. Copies' = Copies
      BY <3>2 DEF Copies, AtServer, OnWire, Filed
    <3>4. ResponseHasReason'
      BY <2>r, <3>1, <3>2 DEF WillLook
    <3> QED
      BY <2>d, <3>1, <3>2, <3>3, <3>4 DEF OneCopy, Pcs
  <2>3. ASSUME NEW t \in Threads, SafeSendToServer(t) PROVE ClearInv'
    <3>1. /\ pc[t] = "send" /\ UNCHANGED <<serial, tries, requests, responses, frames, late>>
      BY <2>3 DEF SafeSendToServer
    <3>2. PICK l \in {"check", "failed"} :
            /\ Goto(t, l)
            /\ \/ inbox' = inbox
               \/ l = "check" /\ inbox' = inbox \cup {<<id[t], serial[t]>>}
      BY <2>3 DEF SafeSendToServer, Transmit
    <3>3. ResponseHasReason'
      BY <2>r, <3>1, <3>2 DEF WillLook
    <3>4. CASE inbox' = inbox
      <4>1. Copies' = Copies
        BY <3>1, <3>4 DEF Copies, AtServer, OnWire, Filed
      <4> QED
        BY <2>d, <3>1, <3>2, <3>3, <3>4, <4>1 DEF OneCopy, Pcs
    <3>5. CASE l = "check" /\ inbox' = inbox \cup {<<id[t], serial[t]>>}
      <4>1. AtServer' = AtServer \cup {serial[t]} /\ OnWire' = OnWire /\ Filed' = Filed
        <5>1. <<id[t], serial[t]>>[2] = serial[t]
          OBVIOUS
        <5>2. AtServer' = AtServer \cup {serial[t]}
          BY <3>5, <5>1 DEF AtServer
        <5> QED
          BY <3>1, <5>2 DEF OnWire, Filed
      <4>2. serial[t] \notin Copies /\ serial[t] > 0
        BY <2>0, <3>1 DEF OneCopy
      <4>3. \A u \in Threads : pc'[u] = IF u = t THEN "check" ELSE pc[u]
        BY <2>0, <3>2, <3>5 DEF Goto
      <4>4. SerialsDiffer'
        BY <3>1, <4>1 DEF SerialsDiffer, Copies
      <4>5. OneCopy'
        BY <3>1, <4>1, <4>2, <4>3 DEF OneCopy, OnceOnWire, Copies, SerialsDiffer
      <4> QED
        BY <3>3, <4>4, <4>5
    <3> QED
      BY <3>2, <3>4, <3>5
  <2>4. ASSUME NEW t \in Threads, CheckForResponse(t) PROVE ClearInv'
    <3>1. PICK r \in responses : r[1] = id[t] /\ responses' = responses \ {r}
      BY <2>4 DEF CheckForResponse, Found
    <3>2. /\ pc[t] = "check" /\ Goto(t, "found")
          /\ UNCHANGED <<serial, tries, requests, inbox, frames, late>>
      BY <2>4 DEF CheckForResponse, netVars
    <3>3. \A q \in responses : q[2] = serial[t] <=> q = r
      <4>1. \A q \in responses : q[1] = r[1] => q = r
        BY DEF Inv, TypeOK
      <4> QED
        BY <2>i, <3>1, <3>2, <4>1
    <3>4. serial[t] \notin Copies'
      <4>1. serial[t] \in Filed
        BY <3>3 DEF Filed
      <4>2. AtServer' = AtServer /\ OnWire' = OnWire
        BY <3>2 DEF AtServer, OnWire
      <4>3. serial[t] \notin Filed'
        BY <3>1, <3>3 DEF Filed
      <4> QED
        BY <4>1, <4>2, <4>3 DEF OneCopy, Copies
    <3>5. ResponseHasReason'
      BY <2>r, <3>1, <3>2, <3>3
    <3> QED
      BY <2>d, <3>1, <3>2, <3>4, <3>5 DEF Pcs
  <2>5. ASSUME NEW t \in Threads, NothingYet(t) \/ RequestDone(t) PROVE ClearInv'
    <3>1. PICK l \in {"last", "sleep", "idle"} :
            /\ Goto(t, l) /\ pc[t] \in {"check", "found", "last"}
            /\ l = "idle" => pc[t] = "found"
            /\ pc[t] = "check" =>
                 Found(t) = {} /\ l = IF tries[t] = Tries - 1 THEN "last" ELSE "sleep"
      BY <2>5 DEF NothingYet, RequestDone
    <3>2. UNCHANGED <<serial, tries, requests, responses, inbox, frames, late>>
      BY <2>5 DEF NothingYet, RequestDone, netVars
    <3>3. \/ ~WillLook(t) \/ WillLook(t)' \/ \A r \in responses' : r[2] # serial[t]
      <4>1. CASE pc[t] # "check"
        BY <3>1, <4>1 DEF WillLook
      <4>2. CASE pc[t] = "check"
        BY <2>i, <3>1, <3>2, <4>2 DEF Found
      <4> QED
        BY <4>1, <4>2
    <3>4. ResponseHasReason'
      BY <2>r, <3>1, <3>2, <3>3
    <3> QED
      BY <2>d, <3>1, <3>2, <3>4 DEF Pcs
  <2>6. ASSUME NEW t \in Threads, Sleep(t) PROVE ClearInv'
    <3>1. PICK l \in {"check", "idle"} :
            /\ Goto(t, l) /\ pc[t] = "sleep"
            /\ l = IF tries[t] + 1 < Tries THEN "check" ELSE "idle"
      BY <2>6 DEF Sleep
    <3>2. /\ UNCHANGED <<serial, requests, responses, inbox, frames, late>>
          /\ \A u \in Threads \ {t} : tries'[u] = tries[u]
      BY <2>0, <2>6 DEF Sleep, netVars
    <3>3. ~WillLook(t) \/ WillLook(t)'
      BY <2>0, <3>1 DEF WillLook, Goto
    <3>4. ResponseHasReason'
      BY <2>r, <3>1, <3>2, <3>3
    <3> QED
      BY <2>d, <3>1, <3>2, <3>4 DEF Pcs
  <2>7. CASE \/ InitConnection \/ InitSocket \/ InitSocketFails \/ SendRegisterMessage
             \/ AcceptCommand \/ CommandEnds \/ Disconnect
    <3>1. UNCHANGED <<pc, serial, tries, requests, responses, late, inbox>>
      BY <2>7 DEF InitConnection, InitSocket, InitSocketFails, SendRegisterMessage, AcceptCommand,
        CommandEnds, Disconnect, callVars, netVars
    <3>2. \/ frames' = frames \/ frames' = <<>>
          \/ frames # <<>> /\ frames' = Tail(frames)
          \/ \E n \in 0..Len(frames) : frames' = SubSeq(frames, 1, n)
      BY <2>7 DEF InitConnection, InitSocket, InitSocketFails, SendRegisterMessage, AcceptCommand,
        CommandEnds, Disconnect, netVars
    <3>3. \E k \in {0, 1} :
            \A i \in 1..Len(frames') : i + k \in 1..Len(frames) /\ frames'[i] = frames[i + k]
      <4>1. CASE frames' = frames \/ frames' = <<>>
        BY <2>0, <4>1
      <4>2. CASE frames # <<>> /\ frames' = Tail(frames)
        BY <2>0, <4>2
      <4>3. ASSUME NEW n \in 0..Len(frames), frames' = SubSeq(frames, 1, n)
            PROVE  \A i \in 1..Len(frames') : i + 0 \in 1..Len(frames) /\ frames'[i] = frames[i + 0]
        BY <2>0, <4>3
      <4> QED
        BY <3>2, <4>1, <4>2, <4>3
    <3> QED
      BY <2>a, <2>c, <3>1, <3>3
  <2>8. CASE AcceptResponse
    <3> DEFINE f == Head(frames)
    <3>1. /\ frames # <<>> /\ f.kind = "response" /\ frames' = Tail(frames)
          /\ UNCHANGED <<pc, serial, requests, inbox, id, pending, tries>>
      BY <2>8 DEF AcceptResponse, callVars
    <3>2. /\ f = frames[1] /\ 1 \in 1..Len(frames) /\ f \in Frames
          /\ \A i \in 1..Len(frames') : i + 1 \in 1..Len(frames) /\ frames'[i] = frames[i + 1]
      BY <2>0, <3>1
    <3>3. OnceOnWire' /\ OnWire' \subseteq OnWire /\ AtServer' = AtServer
      BY <2>a, <3>1, <3>2 DEF AtServer
    <3>4. f.of \in OnWire /\ f.of \notin OnWire'
      <4>1. f.of \in OnWire
        BY <3>1, <3>2 DEF OnWire
      <4>2. ASSUME NEW i \in 1..Len(frames'), frames'[i].kind = "response" PROVE frames'[i].of # f.of
        BY <3>1, <3>2, <4>2 DEF OneCopy, OnceOnWire
      <4> QED
        BY <4>1, <4>2 DEF OnWire
    <3>5. CASE UNCHANGED <<responses, late>>
      BY <2>c, <3>1, <3>3, <3>5
    <3>6. CASE ~UNCHANGED <<responses, late>>
      <4>1. f.id \in pending /\ responses' = responses \cup {<<f.id, f.of>>}
        BY <2>8, <3>6 DEF AcceptResponse, File
      <4>a. late' = IF TooLate(f) THEN late \cup {f.of} ELSE late
        BY <2>8, <3>6 DEF AcceptResponse, File
      <4>2. f.id = current - requests + f.of - 1 /\ f.of \in Nat
        BY <3>1, <3>2 DEF IdsAgree, RightFrame, IdOf, Frames, Serials
      <4> HIDE DEF f
      <4>3. PICK t \in Threads : id[t] = f.id /\ Holds(t)
        BY <4>1 DEF PendingIsHeld
      <4>4. serial[t] = f.of
        <5>1. pc[t] # "idle" /\ serial[t] \in Nat /\ serial[t] > 0
          BY <2>0, <4>3 DEF Holds
        <5>2. id[t] = current - requests + serial[t] - 1
          BY <5>1 DEF IdsAgree, IdOf
        <5>3. current - requests \in Int
          BY <2>0 DEF Inv, TypeOK, Ids
        <5> QED
          BY <4>2, <4>3, <5>1, <5>2, <5>3
      <4>5. pc[t] = "last" \/ WillLook(t)
        BY <2>0, <3>4, <4>3, <4>4 DEF Holds, WillLook, OneCopy, Copies
      <4>6. Filed' = Filed \cup {f.of}
        <5>1. <<f.id, f.of>>[2] = f.of
          OBVIOUS
        <5> QED
          BY <4>1, <5>1 DEF Filed
      <4>7. Copies' \subseteq Copies
        BY <3>3, <3>4, <4>6 DEF Copies
      <4>8. SerialsDiffer'
        BY <3>1, <4>7 DEF SerialsDiffer
      <4>9. OneCopy'
        BY <3>1, <3>3, <3>4, <4>6, <4>7 DEF OneCopy, Copies
      <4>10. ResponseHasReason'
        <5>1. late \subseteq late' /\ \A u \in Threads : WillLook(u)' = WillLook(u)
          BY <3>1, <4>a DEF WillLook
        <5>2. f.of \in late' \/ WillLook(t)
          BY <4>4, <4>5, <4>a DEF TooLate
        <5>3. <<f.id, f.of>>[2] = f.of
          OBVIOUS
        <5> QED
          BY <3>1, <4>1, <4>4, <5>1, <5>2, <5>3 DEF ResponseHasReason
      <4> QED
        BY <4>8, <4>9, <4>10
    <3> QED
      BY <3>5, <3>6
  <2>9. CASE ServerAnswers
    <3>1. PICK r \in inbox :
            /\ inbox' = inbox \ {r}
            /\ frames' = Append(frames, [kind |-> "response", id |-> r[1], of |-> r[2]])
            /\ UNCHANGED <<pc, serial, tries, requests, responses, late>>
      BY <2>9 DEF ServerAnswers, callVars
    <3> DEFINE f == [kind |-> "response", id |-> r[1], of |-> r[2]]
    <3>2. /\ \A i \in 1..Len(frames') :
               IF i = Len(frames) + 1 THEN frames'[i] = f ELSE i \in 1..Len(frames) /\ frames'[i] = frames[i]
          /\ Len(frames') = Len(frames) + 1 /\ Len(frames) \in Nat
          /\ \A i \in 1..Len(frames) : i \in 1..Len(frames') /\ frames'[i] = frames[i]
      BY <2>0, <3>1
    <3>3. f.kind = "response" /\ f.of = r[2]
      OBVIOUS
    <3> HIDE DEF f
    <3>4. OnWire' = OnWire \cup {r[2]}
      BY <3>2, <3>3 DEF OnWire
    <3>5. AtServer' \subseteq AtServer /\ r[2] \in AtServer /\ r[2] \notin AtServer' /\ Filed' = Filed
      <4>1. \A q \in inbox : q[2] = r[2] => q = r
        <5>1. \A q \in inbox : q[1] = current - requests + q[2] - 1
          BY DEF IdsAgree, IdOf
        <5>2. \A q \in inbox : q = <<q[1], q[2]>>
          BY <2>0
        <5> QED
          BY <5>1, <5>2
      <4> QED
        BY <3>1, <4>1 DEF AtServer, Filed
    <3>6. \A i \in 1..Len(frames) : frames[i].kind = "response" => frames[i].of # r[2]
      BY <3>5 DEF OneCopy, OnWire
    <3>7. OnceOnWire'
      <4> SUFFICES ASSUME NEW i \in 1..Len(frames'), NEW j \in 1..Len(frames'),
                          frames'[i].kind = "response", frames'[j].kind = "response",
                          frames'[i].of = frames'[j].of
                   PROVE  i = j
        BY DEF OnceOnWire
      <4>1. CASE i = Len(frames) + 1
        BY <3>2, <3>3, <3>6, <4>1
      <4>2. CASE j = Len(frames) + 1
        BY <3>2, <3>3, <3>6, <4>2
      <4>3. CASE i # Len(frames) + 1 /\ j # Len(frames) + 1
        BY <3>2, <4>3 DEF OneCopy, OnceOnWire
      <4> QED
        BY <4>1, <4>2, <4>3
    <3>8. Copies' \subseteq Copies
      BY <3>4, <3>5 DEF Copies
    <3>9. SerialsDiffer' /\ ResponseHasReason'
      BY <3>1, <3>8 DEF SerialsDiffer, ResponseHasReason, WillLook
    <3>10. OneCopy'
      BY <3>1, <3>4, <3>5, <3>7, <3>8 DEF OneCopy
    <3> QED
      BY <3>9, <3>10
  <2>10. CASE ServerCommands
    <3>1. /\ frames' = Append(frames, [kind |-> "command"])
          /\ UNCHANGED <<pc, serial, tries, requests, responses, late, inbox>>
      BY <2>10 DEF ServerCommands, callVars
    <3> DEFINE f == [kind |-> "command"]
    <3>2. f.kind # "response"
      OBVIOUS
    <3>3. \A i \in 1..Len(frames') :
            IF i = Len(frames) + 1 THEN frames'[i] = f ELSE i \in 1..Len(frames) /\ frames'[i] = frames[i]
      BY <2>0, <3>1
    <3> HIDE DEF f
    <3>4. OnceOnWire' /\ OnWire' \subseteq OnWire
      BY <3>2, <3>3 DEF OneCopy, OnceOnWire, OnWire
    <3> QED
      BY <2>c, <3>1, <3>4
  <2>11. CASE UNCHANGED vars
    <3>1. OnceOnWire' /\ OnWire' \subseteq OnWire
      BY <2>11 DEF vars, OneCopy, OnceOnWire, OnWire
    <3> QED
      BY <2>c, <2>11, <3>1 DEF vars
  <2> QED
    BY <2>1, <2>2, <2>3, <2>4, <2>5, <2>6, <2>7, <2>8, <2>9, <2>10, <2>11
    DEF Next, SendToServer, Receiver
<1>3. ClearInv /\ PendingHasCaller => RequestsAreCleared
  BY DEF ClearInv, RequestsAreCleared
<1> QED
  BY <1>1, <1>2, <1>3, Registration, Agreement, PendingIsTakenOut, PTL DEF Spec
==============================================================================
