---------------------------- MODULE Services_proofs ----------------------------
(***************************************************************************)
(* Proofs about the models that MCServices puts side by side: each part    *)
(* keeps its invariant, for every value of its constants, and so does the  *)
(* whole, of which a behaviour runs one part and lets the others rest.     *)
(***************************************************************************)
EXTENDS MCServices, Sequences, FiniteSets, FiniteSetTheorems, SequenceTheorems, RecursionFacts, TLAPS

\* A behaviour of the whole is one of each part.
LEMMA PartsRun ==
  ServicesSpec =>
    /\ P!PanInit /\ [][P!PanNext]_P!panVars
    /\ J!ReadingsInit /\ [][J!ReadingsNext]_J!readingVars
    /\ W!BelkinInit /\ [][W!BelkinNext]_W!belkinVars
    /\ R!RouterInit /\ [][R!RouterNext]_R!routerVars
    /\ X!ExchangeInit /\ [][X!ExchangeNext]_X!exchangeVars
    /\ N!ScanInit /\ [][N!ScanNext]_N!scanVars
    /\ V!RequestsInit /\ [][V!RequestsNext]_V!requestVars
    /\ Init /\ [][Next]_vars
<1> DEFINE serviceVars ==
             <<exercised, panOf, readingsOf, switchOf, routerOf, exchangeOf, scanOf, requestsOf, vars>>
<1>1. ServicesInit => /\ P!PanInit /\ J!ReadingsInit /\ W!BelkinInit /\ R!RouterInit
                      /\ X!ExchangeInit /\ N!ScanInit /\ V!RequestsInit /\ Init
  BY DEF ServicesInit
<1>2. /\ UNCHANGED panOf => UNCHANGED P!panVars
      /\ UNCHANGED readingsOf => UNCHANGED J!readingVars
      /\ UNCHANGED switchOf => UNCHANGED W!belkinVars
      /\ UNCHANGED routerOf => UNCHANGED R!routerVars
      /\ UNCHANGED exchangeOf => UNCHANGED X!exchangeVars
      /\ UNCHANGED scanOf => UNCHANGED N!scanVars
      /\ UNCHANGED requestsOf => UNCHANGED V!requestVars
  BY DEF panOf, P!panVars, readingsOf, J!readingVars, switchOf, W!belkinVars, routerOf, R!routerVars,
    exchangeOf, X!exchangeVars, scanOf, N!scanVars, requestsOf, V!requestVars
<1>3. [ServicesNext]_serviceVars =>
        /\ [P!PanNext]_P!panVars /\ [J!ReadingsNext]_J!readingVars
        /\ [W!BelkinNext]_W!belkinVars /\ [R!RouterNext]_R!routerVars
        /\ [X!ExchangeNext]_X!exchangeVars /\ [N!ScanNext]_N!scanVars
        /\ [V!RequestsNext]_V!requestVars /\ [Next]_vars
  BY <1>2 DEF ServicesNext, OfPan, OfJablotron, OfBelkin, OfRouter, OfParameters, OfScan, OfVpt,
    OfBlackout
<1> QED
  BY <1>1, <1>3, PTL DEF ServicesSpec

-----------------------------------------------------------------------------
(* Questions and answers (ParameterExchange). *)

Calls ==
  [does : {"none", "ask", "reply", "list"}, id : Nat, object : X!Objects,
   at : {"none", "params", "state", "send", "wait", "return", "list"}, alone : BOOLEAN,
   told : {"none", "other", "getparameters", "parameters"}, about : Nat]
Contents == [id : Nat, state : {"getparameters", "parameters"}]

FillsIn(f) == f.at \in {"state", "send"}

\* What a call that nobody has disturbed has put into its object, and knows of its answer.
IsOwn(f, objects) ==
  /\ f.at \in {"params", "state", "send"} => f.does \in {"ask", "reply"}
  /\ f.alone =>
       /\ FillsIn(f) => objects[f.object].id = f.id
       /\ f.at = "send" => objects[f.object].state =
                             IF f.does = "ask" THEN "getparameters" ELSE "parameters"
       /\ f.does = "ask" /\ (f.at = "wait" \/ (f.at = "return" /\ f.told = "parameters")) =>
            f.about = f.id

\* Only the innermost call of a thread is not about to return, and only a list that came
\* as an answer is deeper than MaxDepth.
StackIsRight(s, objects) ==
  /\ \A i \in 1..Len(s) : IsOwn(s[i], objects) /\ (i < Len(s) => s[i].at = "return")
  /\ Len(s) <= MaxDepth \/ (Len(s) = MaxDepth + 1 /\ s[Len(s)].at = "list")

\* Nobody else fills in the object of a call that is alone.
AloneIsAlone ==
  \A t, u \in X!Users : t # u =>
    \A i \in 1..Len(calls[t]) : \A j \in 1..Len(calls[u]) :
      calls[t][i].alone /\ FillsIn(calls[t][i]) =>
        ~(FillsIn(calls[u][j]) /\ calls[u][j].object = calls[t][i].object)

XInv ==
  /\ shared \in [X!Objects -> Contents] /\ calls \in [X!Users -> Seq(Calls)]
  /\ ended \in BOOLEAN /\ asks \in 0 .. MaxAsks
  /\ \A t \in X!Users : StackIsRight(calls[t], shared)
  /\ AloneIsAlone /\ X!AnswersAreOwn

\* A thread that asks for parameters gets the answer to its own question, whatever threads
\* ask, and however deep the server's questions nest (Parameters.cpp:47-124).
THEOREM AnswersHold == ServicesSpec => [](X!ExchangeTypeOK /\ AnswersAreOwn)
<1>0. /\ AskIds \subseteq Nat /\ ServerIds \subseteq Nat /\ MaxAsks \in Nat
      /\ MaxDepth \in Nat /\ MaxDepth >= 1
  BY ExchangeAssumption, MoreBoundsAssumption
<1>a. \A s \in Seq(Calls) : s # <<>> =>
        /\ Len(s) \in Nat /\ Len(s) >= 1 /\ X!Last(s) = s[Len(s)] /\ s[Len(s)] \in Calls
        /\ X!Front(s) \in Seq(Calls) /\ Len(X!Front(s)) = Len(s) - 1
        /\ \A i \in 1..Len(s) - 1 : X!Front(s)[i] = s[i]
  BY DEF X!Last, X!Front
<1>b. \A s \in Seq(Calls), f \in Calls :
        /\ Append(s, f) \in Seq(Calls) /\ Len(Append(s, f)) = Len(s) + 1 /\ Len(s) \in Nat
        /\ Append(s, f)[Len(s) + 1] = f
        /\ \A i \in 1..Len(s) : Append(s, f)[i] = s[i]
  OBVIOUS
<1>c. X!NoFrame \in Calls /\ X!NoFrame.alone
  BY DEF X!NoFrame, Calls, X!Objects
\* The innermost call goes on.
<1>d. ASSUME NEW s \in Seq(Calls), s # <<>>, NEW f \in Calls
      PROVE  /\ Append(X!Front(s), f) \in Seq(Calls) /\ Len(Append(X!Front(s), f)) = Len(s)
             /\ Append(X!Front(s), f)[Len(s)] = f
             /\ \A i \in 1..Len(s) - 1 : Append(X!Front(s), f)[i] = s[i]
  <2>1. /\ Len(s) \in Nat /\ Len(s) >= 1
        /\ X!Front(s) \in Seq(Calls) /\ Len(X!Front(s)) = Len(s) - 1
        /\ \A i \in 1..Len(s) - 1 : X!Front(s)[i] = s[i]
    BY <1>a, <1>d
  <2> HIDE DEF X!Front
  <2> QED
    BY <1>b, <1>d, <2>1
<1>1. X!ExchangeInit => XInv
  <2> SUFFICES ASSUME X!ExchangeInit PROVE XInv
    OBVIOUS
  <2>1. <<>> \in Seq(Calls) /\ calls \in [X!Users -> Seq(Calls)]
        /\ \A t \in X!Users : calls[t] \in Seq(Calls) /\ Len(calls[t]) = 0
    BY DEF X!ExchangeInit
  <2>2. shared \in [X!Objects -> Contents]
    BY DEF X!ExchangeInit, Contents
  <2>3. \A t \in X!Users : StackIsRight(calls[t], shared)
    BY <1>0, <2>1 DEF StackIsRight
  <2>4. AloneIsAlone
    BY <2>1 DEF AloneIsAlone
  <2>5. X!AnswersAreOwn
    BY DEF X!ExchangeInit, X!AnswersAreOwn, X!NoFrame
  <2>6. ended \in BOOLEAN
    BY DEF X!ExchangeInit
  <2>7. asks \in 0 .. MaxAsks
    BY <1>0 DEF X!ExchangeInit
  <2> QED
    BY <2>1, <2>2, <2>3, <2>4, <2>5, <2>6, <2>7 DEF XInv
<1>2. XInv /\ [X!ExchangeNext]_X!exchangeVars => XInv'
  <2> SUFFICES ASSUME XInv, [X!ExchangeNext]_X!exchangeVars PROVE XInv'
    OBVIOUS
  <2>0. /\ shared \in [X!Objects -> Contents] /\ calls \in [X!Users -> Seq(Calls)]
        /\ ended \in BOOLEAN /\ asks \in 0 .. MaxAsks
        /\ \A t \in X!Users : StackIsRight(calls[t], shared)
        /\ AloneIsAlone /\ X!AnswersAreOwn
    BY DEF XInv
  \* A thread's own calls change, and an object only if it is filling that in.
  <2>a. ASSUME NEW t \in X!Users, NEW s \in Seq(Calls), calls' = [calls EXCEPT ![t] = s],
               shared' \in [X!Objects -> Contents],
               \A o \in X!Objects :
                 shared'[o] = shared[o]
                 \/ \E j \in 1..Len(calls[t]) : FillsIn(calls[t][j]) /\ calls[t][j].object = o,
               StackIsRight(s, shared'),
               \A i \in 1..Len(s) : FillsIn(s[i]) =>
                 \E j \in 1..Len(calls[t]) :
                   /\ FillsIn(calls[t][j]) /\ calls[t][j].object = s[i].object
                   /\ s[i].alone => calls[t][j].alone,
               ended' = ended, asks' \in 0 .. MaxAsks, X!AnswersAreOwn'
        PROVE  XInv'
    <3>1. /\ calls' \in [X!Users -> Seq(Calls)]
          /\ \A u \in X!Users : calls'[u] = IF u = t THEN s ELSE calls[u]
      BY <2>0, <2>a
    <3>2. ASSUME NEW u \in X!Users, u # t PROVE StackIsRight(calls[u], shared')
      <4>1. StackIsRight(calls[u], shared)
        BY <2>0
      <4>2. ASSUME NEW i \in 1..Len(calls[u]) PROVE IsOwn(calls[u][i], shared')
        <5>1. IsOwn(calls[u][i], shared) /\ calls[u][i] \in Calls
          BY <2>0, <4>1 DEF StackIsRight
        <5>2. calls[u][i].alone /\ FillsIn(calls[u][i]) =>
                shared'[calls[u][i].object] = shared[calls[u][i].object]
          <6> SUFFICES ASSUME calls[u][i].alone, FillsIn(calls[u][i])
                       PROVE  shared'[calls[u][i].object] = shared[calls[u][i].object]
            OBVIOUS
          <6>1. calls[u][i].object \in X!Objects
            BY <5>1 DEF Calls
          <6>2. ~\E j \in 1..Len(calls[t]) :
                   FillsIn(calls[t][j]) /\ calls[t][j].object = calls[u][i].object
            BY <2>0, <3>2 DEF AloneIsAlone
          <6> QED
            BY <2>a, <6>1, <6>2
        <5> QED
          BY <5>1, <5>2 DEF IsOwn, FillsIn
      <4> QED
        BY <4>1, <4>2 DEF StackIsRight
    <3>3. AloneIsAlone'
      <4> SUFFICES ASSUME NEW u \in X!Users, NEW v \in X!Users, u # v,
                          NEW i \in 1..Len(calls'[u]), NEW j \in 1..Len(calls'[v]),
                          calls'[u][i].alone, FillsIn(calls'[u][i]), FillsIn(calls'[v][j]),
                          calls'[v][j].object = calls'[u][i].object
                   PROVE  FALSE
        BY DEF AloneIsAlone, FillsIn
      <4>1. CASE u = t
        <5>1. calls'[u] = s /\ calls'[v] = calls[v]
          BY <3>1, <4>1
        <5>2. PICK k \in 1..Len(calls[t]) :
                /\ FillsIn(calls[t][k]) /\ calls[t][k].object = s[i].object
                /\ s[i].alone => calls[t][k].alone
          BY <2>a, <5>1
        <5> QED
          BY <2>0, <4>1, <5>1, <5>2 DEF AloneIsAlone
      <4>2. CASE v = t
        <5>1. calls'[v] = s /\ calls'[u] = calls[u]
          BY <3>1, <4>2
        <5>2. PICK k \in 1..Len(calls[t]) :
                FillsIn(calls[t][k]) /\ calls[t][k].object = s[j].object
          BY <2>a, <5>1
        <5> QED
          BY <2>0, <4>2, <5>1, <5>2 DEF AloneIsAlone
      <4>3. CASE u # t /\ v # t
        BY <2>0, <3>1, <4>3 DEF AloneIsAlone
      <4> QED
        BY <4>1, <4>2, <4>3
    <3>4. \A u \in X!Users : StackIsRight(calls'[u], shared')
      BY <2>a, <3>1, <3>2
    <3>5. ended' \in BOOLEAN
      BY <2>0, <2>a
    <3> QED
      BY <2>a, <3>1, <3>3, <3>4, <3>5 DEF XInv
  \* A call begins on top of calls that are about to return.
  <2>b. ASSUME NEW s \in Seq(Calls), NEW f \in Calls, StackIsRight(s, shared),
               ~FillsIn(f), IsOwn(f, shared), \A i \in 1..Len(s) : s[i].at = "return",
               Len(s) < MaxDepth \/ f.at = "list"
        PROVE  /\ StackIsRight(Append(s, f), shared) /\ Append(s, f) \in Seq(Calls)
               /\ \A i \in 1..Len(Append(s, f)) : ~FillsIn(Append(s, f)[i])
    <3> DEFINE a == Append(s, f)
    <3>1. /\ a \in Seq(Calls) /\ Len(a) = Len(s) + 1 /\ Len(s) \in Nat /\ a[Len(s) + 1] = f
          /\ \A i \in 1..Len(s) : a[i] = s[i]
      BY <1>b
    <3> HIDE DEF a
    <3>2. Len(s) <= MaxDepth
      <4>1. CASE Len(s) = MaxDepth + 1 /\ s[Len(s)].at = "list"
        <5>1. Len(s) \in 1..Len(s)
          BY <1>0, <4>1
        <5> QED
          BY <2>b, <4>1, <5>1
      <4> QED
        BY <2>b, <4>1 DEF StackIsRight
    <3>3. \A i \in 1..Len(a) : a[i] = (IF i = Len(s) + 1 THEN f ELSE s[i])
                               /\ (i # Len(s) + 1 => i \in 1..Len(s))
      BY <3>1
    <3>4. \A i \in 1..Len(a) : IsOwn(a[i], shared) /\ (i < Len(a) => a[i].at = "return")
      BY <2>b, <3>1, <3>3 DEF StackIsRight
    <3>5. Len(a) <= MaxDepth \/ (Len(a) = MaxDepth + 1 /\ a[Len(a)].at = "list")
      BY <1>0, <2>b, <3>1, <3>2
    <3>6. \A i \in 1..Len(a) : ~FillsIn(a[i])
      BY <2>b, <3>3 DEF FillsIn
    <3> QED
      BY <3>1, <3>4, <3>5, <3>6 DEF a, StackIsRight
  \* The innermost call goes on.
  <2>c. ASSUME NEW s \in Seq(Calls), s # <<>>, NEW f \in Calls, NEW objects,
               \A i \in 1..Len(s) - 1 : IsOwn(s[i], objects) /\ s[i].at = "return",
               IsOwn(f, objects), Len(s) <= MaxDepth
        PROVE  StackIsRight(Append(X!Front(s), f), objects)
    <3> DEFINE a == Append(X!Front(s), f)
    <3>1. /\ a \in Seq(Calls) /\ Len(a) = Len(s) /\ a[Len(s)] = f /\ Len(s) \in Nat
          /\ \A i \in 1..Len(s) - 1 : a[i] = s[i]
      BY <1>d, <2>c
    <3> HIDE DEF a
    <3>2. \A i \in 1..Len(a) : i = Len(s) \/ i \in 1..Len(s) - 1
      BY <3>1
    <3>3. \A i \in 1..Len(a) : IsOwn(a[i], objects) /\ (i < Len(a) => a[i].at = "return")
      BY <2>c, <3>1, <3>2
    <3> QED
      BY <2>c, <3>1, <3>3 DEF a, StackIsRight
  \* Of the thread that is in a call at some place.
  <2>d. ASSUME NEW t \in X!Users, NEW place, X!InCall(t, place), place # "list"
        PROVE  /\ calls[t] \in Seq(Calls) /\ calls[t] # <<>>
               /\ Len(calls[t]) \in Nat /\ Len(calls[t]) \in 1..Len(calls[t])
               /\ X!Last(calls[t]) = calls[t][Len(calls[t])] /\ X!Last(calls[t]) \in Calls
               /\ X!Last(calls[t]).at = place /\ IsOwn(X!Last(calls[t]), shared)
               /\ Len(calls[t]) <= MaxDepth
               /\ \A i \in 1..Len(calls[t]) - 1 :
                    /\ i \in 1..Len(calls[t])
                    /\ IsOwn(calls[t][i], shared) /\ calls[t][i].at = "return"
    <3>1. calls[t] \in Seq(Calls) /\ calls[t] # <<>> /\ X!Last(calls[t]).at = place
      BY <2>0, <2>d DEF X!InCall
    <3>2. Len(calls[t]) \in Nat /\ Len(calls[t]) >= 1
          /\ X!Last(calls[t]) = calls[t][Len(calls[t])] /\ X!Last(calls[t]) \in Calls
      BY <1>a, <3>1
    <3>3. StackIsRight(calls[t], shared)
      BY <2>0
    <3> QED
      BY <2>d, <3>1, <3>2, <3>3 DEF StackIsRight
  <2>1. ASSUME NEW t \in X!Users, X!Ask(t) PROVE XInv'
    <3>1. /\ calls[t] = <<>> /\ asks < MaxAsks /\ asks' = asks + 1
          /\ UNCHANGED <<shared, sent, ended>>
      BY <2>1 DEF X!Ask
    <3>2. asks' \in 0 .. MaxAsks
      BY <1>0, <2>0, <3>1
    <3>3. PICK id \in AskIds :
            LET o == IF t = "mqtt" THEN "aggregator" ELSE "module"
            IN  IF id < X!GW_PING \/ id > X!GW_END
                THEN /\ result' = [call |-> [X!NoFrame EXCEPT !.does = "ask", !.id = id],
                                   ok |-> FALSE, id |-> id]
                     /\ UNCHANGED calls
                ELSE calls' = X!Enter(t, "ask", id, o, "params") /\ UNCHANGED result
      BY <2>1 DEF X!Ask
    <3>4. CASE calls' = calls /\ result'.ok = FALSE
      <4>1. X!AnswersAreOwn'
        BY <2>0, <3>1, <3>4 DEF X!AnswersAreOwn
      <4> QED
        BY <2>0, <3>1, <3>2, <3>4, <4>1 DEF XInv, AloneIsAlone
    <3>5. ASSUME NEW o \in X!Objects, calls' = X!Enter(t, "ask", id, o, "params"), result' = result
          PROVE  XInv'
      <4> DEFINE f == [X!NoFrame EXCEPT !.does = "ask", !.id = id, !.object = o, !.at = "params"]
      <4>1. f \in Calls /\ f.does = "ask" /\ f.at = "params"
        BY <1>0 DEF X!NoFrame, Calls, X!Objects
      <4>2. IsOwn(f, shared) /\ ~FillsIn(f)
        BY <4>1 DEF IsOwn, FillsIn
      <4>3. calls' = [calls EXCEPT ![t] = Append(<<>>, f)]
        BY <2>0, <3>1, <3>5 DEF X!Enter
      <4> HIDE DEF f
      <4>4. /\ <<>> \in Seq(Calls) /\ Len(<<>>) < MaxDepth /\ StackIsRight(<<>>, shared)
            /\ \A i \in 1..Len(<<>>) : <<>>[i].at = "return"
        BY <1>0 DEF StackIsRight
      <4>5. /\ StackIsRight(Append(<<>>, f), shared) /\ Append(<<>>, f) \in Seq(Calls)
            /\ \A i \in 1..Len(Append(<<>>, f)) : ~FillsIn(Append(<<>>, f)[i])
        BY <1>0, <2>b, <4>1, <4>2, <4>4
      <4>6. X!AnswersAreOwn'
        BY <2>0, <3>1, <3>5 DEF X!AnswersAreOwn
      <4> QED
        BY <2>0, <2>a, <3>1, <3>2, <4>3, <4>5, <4>6
    <3>6. "aggregator" \in X!Objects /\ "module" \in X!Objects
      BY DEF X!Objects
    <3>7. CASE id < X!GW_PING \/ id > X!GW_END
      <4>1. calls' = calls
        BY <3>3, <3>7
      <4>2. result' = [call |-> [X!NoFrame EXCEPT !.does = "ask", !.id = id], ok |-> FALSE, id |-> id]
        BY <3>3, <3>7
      <4> QED
        BY <3>4, <4>1, <4>2
    <3>8. CASE ~(id < X!GW_PING \/ id > X!GW_END)
      BY <3>3, <3>5, <3>6, <3>8
    <3> QED
      BY <3>7, <3>8
  \* What parseCmd makes of a command begins a call, or nothing.
  <2>e. ASSUME NEW t \in X!Users, NEW s \in Seq(Calls), StackIsRight(s, shared),
               \A i \in 1..Len(s) : s[i].at = "return",
               NEW cs \in [X!Users -> Seq(Calls)], cs[t] = s,
               NEW st, NEW id \in Nat, st = "getparameters" => Len(s) < MaxDepth
        PROVE  \E z \in Seq(Calls) :
                 /\ X!Parsed(cs, t, st, id) = [cs EXCEPT ![t] = z]
                 /\ StackIsRight(z, shared) /\ \A i \in 1..Len(z) : ~FillsIn(z[i])
    <3>1. CASE st = "getparameters" /\ id \in X!SRV
      <4> DEFINE f == [X!NoFrame EXCEPT !.does = "reply", !.id = id, !.at = "params"]
      <4>1. f \in Calls /\ f.does = "reply" /\ f.at = "params"
        BY DEF X!NoFrame, Calls, X!Objects
      <4>2. IsOwn(f, shared) /\ ~FillsIn(f)
        BY <4>1 DEF IsOwn, FillsIn
      <4>3. X!Parsed(cs, t, st, id) = [cs EXCEPT ![t] = Append(s, f)]
        BY <2>e, <3>1 DEF X!Parsed
      <4> HIDE DEF f
      <4> QED
        BY <2>b, <2>e, <3>1, <4>1, <4>2, <4>3
    <3>2. CASE st = "parameters" /\ id = X!GW_GET_ALL_DEVS
      <4> DEFINE f == [X!NoFrame EXCEPT !.does = "list", !.id = id, !.at = "list"]
      <4>1. f \in Calls /\ f.does = "list" /\ f.at = "list"
        BY DEF X!NoFrame, Calls, X!Objects
      <4>2. IsOwn(f, shared) /\ ~FillsIn(f)
        BY <4>1 DEF IsOwn, FillsIn
      <4>3. X!Parsed(cs, t, st, id) = [cs EXCEPT ![t] = Append(s, f)]
        BY <2>e, <3>2 DEF X!Parsed
      <4> HIDE DEF f
      <4> QED
        BY <2>b, <2>e, <4>1, <4>2, <4>3
    <3>3. CASE /\ ~(st = "getparameters" /\ id \in X!SRV)
               /\ ~(st = "parameters" /\ id = X!GW_GET_ALL_DEVS)
      <4>1. X!Parsed(cs, t, st, id) = [cs EXCEPT ![t] = s]
        BY <2>e, <3>3 DEF X!Parsed
      <4> QED
        BY <2>e, <4>1 DEF FillsIn
    <3> QED
      BY <3>1, <3>2, <3>3
  <2>2. CASE X!FromServer
    <3>1. /\ calls["command"] = <<>> /\ asks < MaxAsks /\ asks' = asks + 1
          /\ UNCHANGED <<shared, sent, result, ended>> /\ "command" \in X!Users
      BY <2>2 DEF X!FromServer, X!Users
    <3>2. PICK id \in ServerIds \union {X!GW_GET_ALL_DEVS}, kind \in {"getparameters", "parameters"} :
            calls' = X!Parsed(calls, "command", kind, id)
      BY <2>2 DEF X!FromServer
    <3>3. asks' \in 0 .. MaxAsks
      BY <1>0, <2>0, <3>1
    <3> DEFINE s == <<>>
    <3>4. /\ s \in Seq(Calls) /\ Len(s) < MaxDepth /\ StackIsRight(s, shared)
          /\ \A i \in 1..Len(s) : s[i].at = "return"
      BY <1>0 DEF StackIsRight
    <3>s. calls["command"] = s
      BY <3>1
    <3>d. \A k : k = "getparameters" => Len(s) < MaxDepth
      BY <3>4
    <3>i. id \in Nat
      BY <1>0, <3>2 DEF X!GW_GET_ALL_DEVS
    <3> HIDE DEF s
    <3>5. PICK z \in Seq(Calls) :
            /\ calls' = [calls EXCEPT !["command"] = z]
            /\ StackIsRight(z, shared) /\ \A i \in 1..Len(z) : ~FillsIn(z[i])
      <4>1. \E z \in Seq(Calls) :
               /\ X!Parsed(calls, "command", kind, id) = [calls EXCEPT !["command"] = z]
               /\ StackIsRight(z, shared) /\ \A i \in 1..Len(z) : ~FillsIn(z[i])
        BY <2>0, <2>e, <3>1, <3>4, <3>d, <3>s, <3>i
      <4> QED
        BY <3>2, <4>1
    <3>6. X!AnswersAreOwn'
      BY <2>0, <3>1 DEF X!AnswersAreOwn
    <3> QED
      BY <2>0, <2>a, <3>1, <3>3, <3>5, <3>6
  <2>3. ASSUME NEW t \in X!Users, X!SetState(t) PROVE XInv'
    <3> DEFINE s == calls[t]
    <3> DEFINE f == X!Last(s)
    <3> DEFINE g == [f EXCEPT !.at = "send"]
    <3>1. /\ X!InCall(t, "state") /\ calls' = [calls EXCEPT ![t] = Append(X!Front(s), g)]
          /\ shared' = [shared EXCEPT ![f.object].state =
                          IF f.does = "ask" THEN "getparameters" ELSE "parameters"]
          /\ UNCHANGED <<sent, result, ended, asks>>
      BY <2>0, <2>3 DEF X!SetState, X!At
    <3>2. /\ s \in Seq(Calls) /\ s # <<>> /\ Len(s) \in Nat /\ Len(s) \in 1..Len(s)
          /\ f = s[Len(s)] /\ f \in Calls /\ f.at = "state" /\ IsOwn(f, shared)
          /\ Len(s) <= MaxDepth
          /\ \A i \in 1..Len(s) - 1 :
               i \in 1..Len(s) /\ IsOwn(s[i], shared) /\ s[i].at = "return"
      BY <2>d, <3>1
    <3> HIDE DEF s, f
    <3>3. /\ g \in Calls /\ g.at = "send" /\ g.alone = f.alone /\ g.object = f.object
          /\ g.does = f.does /\ g.id = f.id
      BY <3>2 DEF Calls
    <3>4. /\ shared' \in [X!Objects -> Contents]
          /\ \A o \in X!Objects : o # f.object => shared'[o] = shared[o]
          /\ shared'[f.object].id = shared[f.object].id
          /\ shared'[f.object].state = IF f.does = "ask" THEN "getparameters" ELSE "parameters"
      <4>1. f.object \in X!Objects
        BY <3>2 DEF Calls
      <4> QED
        BY <2>0, <3>1, <4>1 DEF Contents
    <3>5. IsOwn(g, shared')
      BY <3>2, <3>3, <3>4 DEF IsOwn, FillsIn
    <3> HIDE DEF g
    <3>6. \A i \in 1..Len(s) - 1 : IsOwn(s[i], shared') /\ s[i].at = "return"
      BY <3>2 DEF IsOwn, FillsIn
    <3>7. StackIsRight(Append(X!Front(s), g), shared')
      BY <2>c, <3>2, <3>3, <3>5, <3>6
    <3>8. /\ Append(X!Front(s), g) \in Seq(Calls) /\ Len(Append(X!Front(s), g)) = Len(s)
          /\ Append(X!Front(s), g)[Len(s)] = g
          /\ \A i \in 1..Len(s) - 1 : Append(X!Front(s), g)[i] = s[i]
      BY <1>d, <3>2, <3>3
    <3> DEFINE a == Append(X!Front(s), g)
    <3> HIDE DEF a
    <3>9. \A i \in 1..Len(a) : FillsIn(a[i]) =>
            \E j \in 1..Len(s) : /\ FillsIn(s[j]) /\ s[j].object = a[i].object
                                 /\ a[i].alone => s[j].alone
      <4>1. \A i \in 1..Len(a) : i = Len(s) \/ (i \in 1..Len(s) - 1 /\ a[i].at = "return")
        BY <3>2, <3>8 DEF a
      <4>2. \A i \in 1..Len(a) : FillsIn(a[i]) => i = Len(s)
        BY <4>1 DEF FillsIn
      <4>3. FillsIn(s[Len(s)]) /\ s[Len(s)].object = a[Len(s)].object
            /\ a[Len(s)].alone = s[Len(s)].alone
        BY <3>2, <3>3, <3>8 DEF a, FillsIn
      <4> QED
        BY <3>2, <4>2, <4>3
    <3>10. \A o \in X!Objects :
             shared'[o] = shared[o] \/ \E j \in 1..Len(s) : FillsIn(s[j]) /\ s[j].object = o
      BY <3>2, <3>4 DEF FillsIn
    <3>11. X!AnswersAreOwn'
      BY <2>0, <3>1 DEF X!AnswersAreOwn
    <3>12. calls' = [calls EXCEPT ![t] = a] /\ a \in Seq(Calls) /\ StackIsRight(a, shared')
      BY <3>1, <3>7, <3>8 DEF a, s
    <3>13. asks' \in 0 .. MaxAsks /\ ended' = ended /\ shared' \in [X!Objects -> Contents]
      BY <2>0, <3>1, <3>4
    <3>14. \A i \in 1..Len(a) : FillsIn(a[i]) =>
             \E j \in 1..Len(calls[t]) :
               /\ FillsIn(calls[t][j]) /\ calls[t][j].object = a[i].object
               /\ a[i].alone => calls[t][j].alone
      BY <3>9 DEF s
    <3>15. \A o \in X!Objects :
             \/ shared'[o] = shared[o]
             \/ \E j \in 1..Len(calls[t]) : FillsIn(calls[t][j]) /\ calls[t][j].object = o
      BY <3>10 DEF s
    <3> QED
      BY <2>a, <3>11, <3>12, <3>13, <3>14, <3>15
  \* No call is filled in behind a thread's innermost one.
  <2>f. ASSUME NEW t \in X!Users, NEW place, X!InCall(t, place), place # "list", NEW f \in Calls,
               IsOwn(f, shared), ~FillsIn(f)
        PROVE  LET a == Append(X!Front(calls[t]), f)
               IN  /\ a \in Seq(Calls) /\ StackIsRight(a, shared) /\ Len(a) = Len(calls[t])
                   /\ \A i \in 1..Len(a) : ~FillsIn(a[i])
                   /\ f.at = "return" => \A i \in 1..Len(a) : a[i].at = "return"
    <3> DEFINE s == calls[t]
    <3> DEFINE a == Append(X!Front(s), f)
    <3>1. /\ s \in Seq(Calls) /\ s # <<>> /\ Len(s) \in Nat /\ Len(s) \in 1..Len(s)
          /\ Len(s) <= MaxDepth
          /\ \A i \in 1..Len(s) - 1 :
               i \in 1..Len(s) /\ IsOwn(s[i], shared) /\ s[i].at = "return"
      BY <2>d, <2>f
    <3> HIDE DEF s
    <3>2. /\ a \in Seq(Calls) /\ Len(a) = Len(s) /\ a[Len(s)] = f
          /\ \A i \in 1..Len(s) - 1 : a[i] = s[i]
      BY <1>d, <2>f, <3>1
    <3>3. StackIsRight(a, shared)
      BY <2>c, <2>f, <3>1
    <3> HIDE DEF a
    <3>4. \A i \in 1..Len(a) : i = Len(s) \/ i \in 1..Len(s) - 1
      BY <3>1, <3>2
    <3>5. /\ \A i \in 1..Len(a) : ~FillsIn(a[i])
          /\ f.at = "return" => \A i \in 1..Len(a) : a[i].at = "return"
      BY <2>f, <3>1, <3>2, <3>4 DEF FillsIn
    <3> QED
      BY <3>2, <3>3, <3>5 DEF a, s
  <2>4. ASSUME NEW t \in X!Users, X!SendData(t) PROVE XInv'
    <3> DEFINE f == X!Last(calls[t])
    <3> DEFINE g == [f EXCEPT !.at = "wait", !.told = shared[f.object].state,
                              !.about = shared[f.object].id]
    <3>1. /\ X!InCall(t, "send") /\ calls' = [calls EXCEPT ![t] = Append(X!Front(calls[t]), g)]
          /\ sent' = [call |-> f, id |-> shared[f.object].id, state |-> shared[f.object].state]
          /\ UNCHANGED <<shared, result, ended, asks>>
      BY <2>0, <2>4 DEF X!SendData
    <3>2. f \in Calls /\ f.at = "send" /\ IsOwn(f, shared)
      BY <2>d, <3>1
    <3> HIDE DEF f
    <3>3. shared[f.object] \in Contents
      BY <2>0, <3>2 DEF Calls
    <3>4. /\ g \in Calls /\ g.at = "wait" /\ g.about = shared[f.object].id
          /\ g.alone = f.alone /\ g.does = f.does /\ g.id = f.id
      BY <3>2, <3>3 DEF Calls, Contents
    <3>5. IsOwn(g, shared) /\ ~FillsIn(g)
      BY <3>2, <3>4 DEF IsOwn, FillsIn
    <3>6. f.alone => /\ shared[f.object].id = f.id
                     /\ shared[f.object].state =
                          IF f.does = "reply" THEN "parameters" ELSE "getparameters"
      BY <3>2 DEF IsOwn, FillsIn
    <3>7. X!AnswersAreOwn'
      BY <2>0, <3>1, <3>6 DEF X!AnswersAreOwn
    <3> HIDE DEF g
    <3> DEFINE a == Append(X!Front(calls[t]), g)
    <3>8. /\ a \in Seq(Calls) /\ StackIsRight(a, shared) /\ \A i \in 1..Len(a) : ~FillsIn(a[i])
      BY <2>f, <3>1, <3>4, <3>5
    <3> QED
      BY <2>0, <2>a, <3>1, <3>7, <3>8
  <2>5. ASSUME NEW t \in X!Users, X!Answer(t) PROVE XInv'
    <3> DEFINE f == X!Last(calls[t])
    <3>1. X!InCall(t, "wait") /\ UNCHANGED <<shared, sent, result, ended, asks>>
      BY <2>5 DEF X!Answer
    <3>2. f \in Calls /\ f.at = "wait" /\ IsOwn(f, shared)
      BY <2>d, <3>1
    <3> DEFINE g(x) == [f EXCEPT !.at = "return", !.told = x.state, !.about = x.id]
    <3> DEFINE back(x) == [calls EXCEPT ![t] = Append(X!Front(calls[t]), g(x))]
    <3>3. PICK x \in X!Answers(f) :
            /\ OverTCP /\ x.state = "getparameters" => Len(calls[t]) < MaxDepth
            /\ calls' = back(x) \/ (OverTCP /\ calls' = X!Parsed(back(x), t, x.state, x.id))
      BY <2>0, <2>5 DEF X!Answer
    <3> HIDE DEF f
    <3>4. /\ x.state \in {"none", "other", "getparameters", "parameters"} /\ x.id \in Nat
          /\ x.state = "parameters" => x.id = f.about
      BY <1>0, <3>2 DEF X!Answers, Calls
    <3>5. /\ g(x) \in Calls /\ g(x).at = "return" /\ g(x).told = x.state /\ g(x).about = x.id
          /\ g(x).alone = f.alone /\ g(x).does = f.does /\ g(x).id = f.id
      BY <3>2, <3>4 DEF Calls
    <3>6. IsOwn(g(x), shared) /\ ~FillsIn(g(x))
      <4>1. f.alone /\ f.does = "ask" => f.about = f.id
        BY <3>2 DEF IsOwn
      <4> HIDE DEF g
      <4> QED
        BY <3>4, <3>5, <4>1 DEF IsOwn, FillsIn
    <3> DEFINE a == Append(X!Front(calls[t]), g(x))
    <3> HIDE DEF g
    <3>7. /\ a \in Seq(Calls) /\ StackIsRight(a, shared) /\ Len(a) = Len(calls[t])
          /\ \A i \in 1..Len(a) : ~FillsIn(a[i]) /\ a[i].at = "return"
      BY <2>f, <3>1, <3>5, <3>6
    <3>8. back(x) \in [X!Users -> Seq(Calls)] /\ back(x)[t] = a
      BY <2>0, <3>7
    <3>9. PICK z \in Seq(Calls) :
            /\ calls' = [calls EXCEPT ![t] = z]
            /\ StackIsRight(z, shared) /\ \A i \in 1..Len(z) : ~FillsIn(z[i])
      <4>1. CASE OverTCP /\ calls' = X!Parsed(back(x), t, x.state, x.id)
        <5>1. x.state = "getparameters" => Len(a) < MaxDepth
          BY <3>3, <3>7, <4>1
        <5>2. PICK z \in Seq(Calls) :
                /\ X!Parsed(back(x), t, x.state, x.id) = [back(x) EXCEPT ![t] = z]
                /\ StackIsRight(z, shared) /\ \A i \in 1..Len(z) : ~FillsIn(z[i])
          BY <2>e, <3>4, <3>7, <3>8, <5>1
        <5>3. [back(x) EXCEPT ![t] = z] = [calls EXCEPT ![t] = z]
          BY <2>0
        <5> QED
          BY <3>3, <4>1, <5>2, <5>3
      <4>2. CASE calls' = back(x)
        BY <3>7, <4>2
      <4> QED
        BY <3>3, <4>1, <4>2
    <3>10. X!AnswersAreOwn'
      BY <2>0, <3>1 DEF X!AnswersAreOwn
    <3> QED
      BY <2>0, <2>a, <3>1, <3>9, <3>10
  \* The innermost call is over.
  <2>g. ASSUME NEW t \in X!Users, calls[t] # <<>>, X!Last(calls[t]).at \in {"return", "list"},
               calls' = [calls EXCEPT ![t] = X!Front(@)],
               UNCHANGED <<shared, ended, asks>>, X!AnswersAreOwn'
        PROVE  XInv'
    <3> DEFINE s == calls[t]
    <3>1. /\ s \in Seq(Calls) /\ Len(s) \in Nat /\ Len(s) >= 1 /\ X!Front(s) \in Seq(Calls)
          /\ Len(X!Front(s)) = Len(s) - 1 /\ \A i \in 1..Len(s) - 1 : X!Front(s)[i] = s[i]
      BY <1>a, <2>0, <2>g
    <3>2. /\ StackIsRight(s, shared)
          /\ calls' = [calls EXCEPT ![t] = X!Front(s)]
      BY <2>0, <2>g
    <3> HIDE DEF s
    <3>3. \A i \in 1..Len(s) - 1 : i \in 1..Len(s) /\ i < Len(s)
      BY <3>1
    <3> DEFINE r == X!Front(s)
    <3> HIDE DEF r
    <3>4. \A i \in 1..Len(r) : i \in 1..Len(s) /\ i < Len(s) /\ r[i] = s[i]
      BY <3>1, <3>3 DEF r
    <3>5. \A i \in 1..Len(r) : IsOwn(r[i], shared) /\ r[i].at = "return"
      BY <3>2, <3>4 DEF StackIsRight
    <3>6. Len(r) <= MaxDepth
      BY <1>0, <3>1, <3>2 DEF r, StackIsRight
    <3>7. StackIsRight(r, shared) /\ \A i \in 1..Len(r) : ~FillsIn(r[i])
      BY <3>5, <3>6 DEF StackIsRight, FillsIn
    <3> QED
      BY <2>0, <2>a, <2>g, <3>1, <3>2, <3>7 DEF r, s
  <2>6. ASSUME NEW t \in X!Users, X!Return(t) PROVE XInv'
    <3> DEFINE f == X!Last(calls[t])
    <3>1. /\ X!InCall(t, "return") /\ calls' = [calls EXCEPT ![t] = X!Front(@)]
          /\ UNCHANGED <<shared, sent, ended, asks>>
          /\ result' = IF f.does = "ask"
                       THEN [call |-> f, ok |-> X!Accepts(f),
                             id |-> IF X!Accepts(f) THEN f.about ELSE f.id]
                       ELSE result
      BY <2>6 DEF X!Return
    <3>2. f \in Calls /\ f.at = "return" /\ IsOwn(f, shared) /\ calls[t] # <<>>
      BY <2>d, <3>1
    <3>3. X!AnswersAreOwn'
      <4>1. f.does = "ask" /\ f.alone /\ X!Accepts(f) => f.about = f.id
        BY <3>2 DEF IsOwn, X!Accepts
      <4> HIDE DEF f
      <4> QED
        BY <2>0, <3>1, <4>1 DEF X!AnswersAreOwn
    <3> QED
      BY <2>g, <3>1, <3>2, <3>3
  <2>7. ASSUME NEW t \in X!Users, X!AllSensors(t) PROVE XInv'
    <3>1. X!AnswersAreOwn'
      BY <2>0, <2>7 DEF X!AllSensors, X!AnswersAreOwn
    <3> QED
      BY <2>7, <2>g, <3>1 DEF X!AllSensors, X!InCall
  <2>8. CASE X!EuidesCollide
    <3>1. /\ ended' = TRUE /\ asks' = MaxAsks /\ UNCHANGED <<shared, sent, result>>
          /\ calls' = [t \in X!Users |-> <<>>]
      BY <2>8 DEF X!EuidesCollide
    <3>2. <<>> \in Seq(Calls) /\ calls' \in [X!Users -> Seq(Calls)]
          /\ \A t \in X!Users : Len(calls'[t]) = 0
      BY <3>1
    <3>3. \A t \in X!Users : StackIsRight(calls'[t], shared)
      BY <1>0, <3>2 DEF StackIsRight
    <3>4. AloneIsAlone' /\ X!AnswersAreOwn'
      BY <2>0, <3>1, <3>2 DEF AloneIsAlone, X!AnswersAreOwn
    <3>5. asks' \in 0 .. MaxAsks
      BY <1>0, <3>1
    <3>6. ended' \in BOOLEAN
      BY <3>1
    <3> QED
      BY <2>0, <3>1, <3>2, <3>3, <3>4, <3>5, <3>6 DEF XInv
  <2>9. ASSUME NEW t \in X!Users, X!SetParams(t) PROVE XInv'
    <3> DEFINE s == calls[t]
    <3> DEFINE f == X!Last(s)
    <3> DEFINE met == \E u \in X!Users \ {t} : X!Uses(u, f.object)
    <3> DEFINE g == [f EXCEPT !.at = "state", !.alone = f.alone /\ ~met]
    <3> DEFINE touched(h) == h.object = f.object /\ FillsIn(h)
    <3>1. X!InCall(t, "params") /\ UNCHANGED <<sent, result, ended, asks>>
          /\ shared' = [shared EXCEPT ![f.object].id = f.id]
      BY <2>9 DEF X!SetParams
    <3>2. /\ s \in Seq(Calls) /\ s # <<>> /\ Len(s) \in Nat /\ Len(s) \in 1..Len(s)
          /\ f = s[Len(s)] /\ f \in Calls /\ f.at = "params" /\ IsOwn(f, shared)
          /\ Len(s) <= MaxDepth
          /\ \A i \in 1..Len(s) - 1 :
               i \in 1..Len(s) /\ IsOwn(s[i], shared) /\ s[i].at = "return"
      BY <2>d, <3>1
    <3>3. calls'[t] = Append(X!Front(s), g)
      <4> DEFINE h == [f EXCEPT !.at = "state"]
      <4> DEFINE a == Append(X!Front(s), h)
      <4> DEFINE cs == X!Disturb(X!At(t, "state"), t, f.object)
      <4>1. X!At(t, "state")[t] = a
        BY <2>0 DEF X!At
      <4>2. cs[t] = a /\ cs = [u \in X!Users |-> cs[u]]
        BY <4>1 DEF X!Disturb
      <4>3. calls' = IF met THEN [cs EXCEPT ![t] = Append(X!Front(@), [X!Last(@) EXCEPT !.alone = FALSE])]
                     ELSE cs
        BY <2>9 DEF X!SetParams
      <4>4. h \in Calls
        BY <3>2 DEF Calls
      <4> HIDE DEF h, cs, f, s, met
      <4>5. /\ a \in Seq(Calls) /\ Len(a) = Len(s) /\ a[Len(s)] = h
            /\ \A i \in 1..Len(s) - 1 : a[i] = s[i]
        BY <1>d, <3>2, <4>4
      <4>6. X!Front(s) \in Seq(Calls) /\ Len(X!Front(s)) = Len(s) - 1
            /\ \A i \in 1..Len(s) - 1 : X!Front(s)[i] = s[i]
        BY <1>a, <3>2
      <4> HIDE DEF a
      <4>7. X!Last(a) = h /\ X!Front(a) = X!Front(s)
        <5>1. a # <<>>
          BY <3>2, <4>5
        <5>2. /\ X!Last(a) = a[Len(a)] /\ X!Front(a) \in Seq(Calls)
              /\ Len(X!Front(a)) = Len(a) - 1 /\ \A i \in 1..Len(a) - 1 : X!Front(a)[i] = a[i]
          BY <1>a, <4>5, <5>1
        <5> HIDE DEF X!Front
        <5>3. Len(X!Front(a)) = Len(X!Front(s))
              /\ \A i \in 1..Len(X!Front(a)) : X!Front(a)[i] = X!Front(s)[i]
          BY <3>2, <4>5, <4>6, <5>2
        <5>4. X!Front(a) = X!Front(s)
          BY <4>6, <5>2, <5>3, SeqEqual
        <5> QED
          BY <4>5, <5>2, <5>4
      <4>8. CASE met
        <5>1. g = [h EXCEPT !.alone = FALSE]
          BY <3>2, <4>8 DEF h, Calls
        <5>2. calls'[t] = Append(X!Front(a), [X!Last(a) EXCEPT !.alone = FALSE])
          BY <4>2, <4>3, <4>8
        <5> QED
          BY <4>7, <5>1, <5>2
      <4>9. CASE ~met
        <5>1. g = h
          BY <3>2, <4>9 DEF h, Calls
        <5> QED
          BY <4>2, <4>3, <4>9, <5>1 DEF a
      <4> QED
        BY <4>8, <4>9
    <3>4. ASSUME NEW u \in X!Users, u # t
          PROVE  /\ calls'[u] \in Seq(Calls) /\ Len(calls'[u]) = Len(calls[u])
                 /\ \A i \in 1..Len(calls[u]) :
                      calls'[u][i] = IF touched(calls[u][i])
                                     THEN [calls[u][i] EXCEPT !.alone = FALSE] ELSE calls[u][i]
      <4> DEFINE z == [i \in 1..Len(calls[u]) |->
                        IF touched(calls[u][i]) THEN [calls[u][i] EXCEPT !.alone = FALSE]
                        ELSE calls[u][i]]
      <4>1. calls[u] \in Seq(Calls) /\ DOMAIN calls[u] = 1..Len(calls[u]) /\ Len(calls[u]) \in Nat
        BY <2>0
      <4>2. X!At(t, "state")[u] = calls[u]
        BY <2>0, <3>4 DEF X!At
      <4>3. X!Disturb(X!At(t, "state"), t, f.object)[u] = z
        BY <3>4, <4>1, <4>2 DEF X!Disturb, FillsIn
      <4>4. calls'[u] = z
        BY <2>9, <3>4, <4>3 DEF X!SetParams, X!Disturb
      <4> HIDE DEF f
      <4>5. \A i \in 1..Len(calls[u]) : z[i] \in Calls
        <5>1. \A h \in Calls : [h EXCEPT !.alone = FALSE] \in Calls
          BY DEF Calls
        <5> HIDE DEF touched
        <5> QED
          BY <4>1, <5>1
      <4> DEFINE n == Len(calls[u])
      <4>6. z \in Seq(Calls) /\ Len(z) = Len(calls[u])
        <5>1. n \in Nat /\ DOMAIN z = 1..n
          BY <4>1
        <5>2. z = [i \in 1..n |-> z[i]]
          OBVIOUS
        <5> HIDE DEF z, n
        <5>3. z \in [1..n -> Calls]
          BY <4>5, <5>1, <5>2 DEF n
        <5> QED
          BY <5>1, <5>3 DEF n
      <4> QED
        BY <4>4, <4>6
    <3>5. calls' \in [X!Users -> Seq(Calls)]
      <4>1. calls' = [u \in X!Users |-> calls'[u]]
        BY <2>9 DEF X!SetParams, X!Disturb
      <4>2. g \in Calls
        BY <3>2 DEF Calls
      <4> HIDE DEF g, f, s
      <4>3. calls'[t] \in Seq(Calls)
        BY <1>d, <3>2, <3>3, <4>2
      <4>4. \A u \in X!Users : calls'[u] \in Seq(Calls)
        BY <3>4, <4>3
      <4> QED
        BY <4>1, <4>4
    <3>6. /\ g \in Calls /\ g.at = "state" /\ g.object = f.object /\ g.does = f.does
          /\ g.id = f.id /\ g.alone = (f.alone /\ ~met)
      BY <3>2 DEF Calls
    <3> HIDE DEF s, f, g
    <3>7. /\ shared' \in [X!Objects -> Contents] /\ shared'[f.object].id = f.id
          /\ \A o \in X!Objects : o # f.object => shared'[o] = shared[o]
      <4>1. f.object \in X!Objects /\ f.id \in Nat
        BY <3>2 DEF Calls
      <4> QED
        BY <2>0, <3>1, <4>1 DEF Contents
    <3>8. IsOwn(g, shared')
      BY <3>2, <3>6, <3>7 DEF IsOwn, FillsIn
    <3>9. \A i \in 1..Len(s) - 1 : IsOwn(s[i], shared') /\ s[i].at = "return"
      BY <3>2 DEF IsOwn, FillsIn
    <3>10. StackIsRight(calls'[t], shared')
      BY <2>c, <3>2, <3>3, <3>6, <3>8, <3>9
    <3>11. /\ Len(calls'[t]) = Len(s) /\ calls'[t][Len(s)] = g
           /\ \A i \in 1..Len(s) - 1 : calls'[t][i] = s[i]
      BY <1>d, <3>2, <3>3, <3>6
    <3>12. \A i \in 1..Len(calls'[t]) : FillsIn(calls'[t][i]) => calls'[t][i] = g
      <4>1. \A i \in 1..Len(calls'[t]) : i = Len(s) \/ i \in 1..Len(s) - 1
        BY <3>2, <3>11
      <4> QED
        BY <3>2, <3>11, <4>1 DEF FillsIn
    \* What becomes of another thread's calls.
    <3>13. ASSUME NEW u \in X!Users, u # t, NEW i \in 1..Len(calls'[u])
           PROVE  /\ i \in 1..Len(calls[u]) /\ calls[u][i] \in Calls
                  /\ calls'[u][i].at = calls[u][i].at /\ calls'[u][i].object = calls[u][i].object
                  /\ calls'[u][i].does = calls[u][i].does /\ calls'[u][i].id = calls[u][i].id
                  /\ calls'[u][i].told = calls[u][i].told
                  /\ calls'[u][i].about = calls[u][i].about
                  /\ calls'[u][i].alone => calls[u][i].alone /\ ~touched(calls[u][i])
      <4>1. i \in 1..Len(calls[u]) /\ calls[u][i] \in Calls
        BY <2>0, <3>4, <3>13
      <4>2. calls'[u][i] = IF touched(calls[u][i])
                           THEN [calls[u][i] EXCEPT !.alone = FALSE] ELSE calls[u][i]
        BY <3>4, <3>13, <4>1
      <4> QED
        BY <4>1, <4>2 DEF Calls
    <3>14. ASSUME NEW u \in X!Users, u # t PROVE StackIsRight(calls'[u], shared')
      <4>1. StackIsRight(calls[u], shared)
        BY <2>0
      <4>2. ASSUME NEW i \in 1..Len(calls'[u]) PROVE IsOwn(calls'[u][i], shared')
        <5>1. IsOwn(calls[u][i], shared) /\ calls[u][i].object \in X!Objects
          BY <3>13, <3>14, <4>1 DEF StackIsRight, Calls
        <5>2. calls'[u][i].alone /\ FillsIn(calls'[u][i]) =>
                shared'[calls'[u][i].object] = shared[calls[u][i].object]
          BY <3>7, <3>13, <3>14, <5>1 DEF FillsIn
        <5> QED
          BY <3>13, <3>14, <5>1, <5>2 DEF IsOwn, FillsIn
      <4>3. \A i \in 1..Len(calls'[u]) : i \in 1..Len(calls[u])
                                         /\ calls'[u][i].at = calls[u][i].at
        BY <3>13, <3>14
      <4>4. Len(calls'[u]) = Len(calls[u]) /\ Len(calls[u]) \in Nat
        BY <2>0, <3>4, <3>14
      <4>5. Len(calls[u]) = MaxDepth + 1 => Len(calls[u]) \in 1..Len(calls'[u])
        BY <1>0, <4>4
      <4> QED
        BY <4>1, <4>2, <4>3, <4>4, <4>5 DEF StackIsRight
    <3>15. AloneIsAlone'
      <4> SUFFICES ASSUME NEW u \in X!Users, NEW v \in X!Users, u # v,
                          NEW i \in 1..Len(calls'[u]), NEW j \in 1..Len(calls'[v]),
                          calls'[u][i].alone, FillsIn(calls'[u][i]), FillsIn(calls'[v][j]),
                          calls'[v][j].object = calls'[u][i].object
                   PROVE  FALSE
        BY DEF AloneIsAlone, FillsIn
      <4>1. CASE u = t
        <5>1. calls'[u][i] = g /\ ~met
          BY <3>6, <3>12, <4>1
        <5>2. /\ j \in 1..Len(calls[v]) /\ FillsIn(calls[v][j])
              /\ calls[v][j].object = f.object
          BY <3>6, <3>13, <4>1, <5>1 DEF FillsIn
        <5>3. DOMAIN calls[v] = 1..Len(calls[v])
          BY <2>0
        <5>4. X!Uses(v, f.object)
          BY <5>2, <5>3 DEF X!Uses, FillsIn
        <5> QED
          BY <4>1, <5>1, <5>4
      <4>2. CASE v = t
        <5>1. calls'[v][j].object = f.object
          BY <3>6, <3>12, <4>2
        <5>2. touched(calls[u][i])
          BY <3>13, <4>2, <5>1 DEF FillsIn
        <5> QED
          BY <3>13, <4>2, <5>2
      <4>3. CASE u # t /\ v # t
        <5>1. /\ i \in 1..Len(calls[u]) /\ calls[u][i].alone /\ FillsIn(calls[u][i])
              /\ calls[u][i].object = calls'[u][i].object
          BY <3>13, <4>3 DEF FillsIn
        <5>2. /\ j \in 1..Len(calls[v]) /\ FillsIn(calls[v][j])
              /\ calls[v][j].object = calls'[v][j].object
          BY <3>13, <4>3 DEF FillsIn
        <5> QED
          BY <2>0, <5>1, <5>2 DEF AloneIsAlone
      <4> QED
        BY <4>1, <4>2, <4>3
    <3>16. X!AnswersAreOwn'
      BY <2>0, <3>1 DEF X!AnswersAreOwn
    <3> QED
      BY <2>0, <3>1, <3>5, <3>7, <3>10, <3>14, <3>15, <3>16 DEF XInv
  <2>10. CASE UNCHANGED X!exchangeVars
    BY <2>0, <2>10 DEF X!exchangeVars, XInv, AloneIsAlone, X!AnswersAreOwn
  <2> QED
    BY <2>1, <2>2, <2>3, <2>4, <2>5, <2>6, <2>7, <2>8, <2>9, <2>10 DEF X!ExchangeNext
<1>3. XInv => X!ExchangeTypeOK /\ X!AnswersAreOwn
  <2> SUFFICES ASSUME XInv PROVE X!ExchangeTypeOK
    BY DEF XInv
  <2>1. \A o \in X!Objects : shared[o].id \in Nat /\ shared[o].state \in {"getparameters", "parameters"}
    BY DEF XInv, Contents
  <2>2. \A t \in X!Users : Len(calls[t]) <= MaxDepth + 1
    <3> SUFFICES ASSUME NEW t \in X!Users PROVE Len(calls[t]) <= MaxDepth + 1
      OBVIOUS
    <3>1. calls[t] \in Seq(Calls) /\ StackIsRight(calls[t], shared)
      BY DEF XInv
    <3> QED
      BY <1>0, <3>1 DEF StackIsRight
  <2> QED
    BY <2>1, <2>2 DEF XInv, X!ExchangeTypeOK
<1> QED
  BY <1>1, <1>2, <1>3, PartsRun, PTL DEF AnswersAreOwn

-----------------------------------------------------------------------------
(* The page of a regulator and its orders (VptRequests). *)

Readers == {"module", "command"}
Pages == [{"mode", "pressure"} -> PageValues]

\* The page shows a value.
Displayed(v, n) == IF v = "mode" THEN V!Text(V!Word(v, n), 0) ELSE V!Text("", n)

\* What is asked of the regulator is a value that it can have.
IsRequest(r) ==
  /\ DOMAIN r = {"kind", "variable", "text", "hash"}
  /\ r.kind = "set" =>
       r.variable \in {"mode", "pressure"} /\ V!Meant(r.variable, r.text) \in PageValues

\* What came from the regulator shows the page that it had.
IsContent(c) ==
  /\ DOMAIN c = {"kind", "shown", "of", "fresh"}
  /\ c.kind \in {"none", "login", "json"}
  /\ c.kind = "json" =>
       /\ c.of \in Pages
       /\ \A v \in {"mode", "pressure"} : c.shown[v] = Displayed(v, c.of[v])

\* The types of all but the flags.
VPlain ==
  /\ page \in Pages /\ guarded \in {"no", "right", "wrong"}
  /\ hash \in {"none", "right", "stale"} /\ orderTries \in [Readers -> 0 .. SEND_RETRY]
  /\ vrpc \in [Readers -> {"rest", "prepare", "exchange", "judge"}] /\ vrCalls \in 0 .. MaxCalls
  /\ request = [t \in Readers |-> request[t]] /\ content = [t \in Readers |-> content[t]]
  /\ \A t \in Readers : IsRequest(request[t]) /\ IsContent(content[t])
  /\ IsRequest(client) /\ request["module"].kind # "set"
VFlags == carried \in BOOLEAN /\ setterEnded \in BOOLEAN /\ alone \in [Readers -> BOOLEAN]

\* A thread that is alone sends its own request, and consent comes of what was carried out.
VLinks ==
  /\ vrpc["command"] = "exchange" /\ alone["command"] => client = request["command"]
  /\ request["command"].kind = "set" /\ alone["command"] /\ content["command"].kind = "json" =>
       carried

VInv == VPlain /\ VFlags /\ VLinks /\ V!RegulatorIsRight

\* A regulator has done what it agreed to, and the server is told what its page shows, for
\* every set of values and number of tries (VPT.cpp:400-530, JSON.cpp:76-190).
THEOREM RegulatorHolds == ServicesSpec => [](V!RequestsTypeOK /\ RegulatorIsRight)
<1> DEFINE off == [word |-> "off", number |-> 0]
<1> DEFINE on == [word |-> "on", number |-> 1]
<1>0. SEND_RETRY \in Nat /\ SEND_RETRY >= 1 /\ MaxCalls \in Nat
  BY MoreBoundsAssumption
\* The words of the file stand for what they show.
<1>a. DOMAIN Modes = {"mode"} /\ Modes["mode"] = <<off, on>>
  BY DEF Modes
<1>b. DOMAIN <<off, on>> = {1, 2} /\ <<off, on>>[1] = off /\ <<off, on>>[2] = on
  OBVIOUS
<1>c. V!ToSet(Modes["mode"]) = {off, on}
  BY <1>a, <1>b DEF V!ToSet
<1>d. \A n : V!HasOption("mode", n) <=> n = 0 \/ n = 1
  BY <1>a, <1>b DEF V!HasOption
<1>e. /\ V!Word("mode", 0) = "off" /\ V!Word("mode", 1) = "on"
      /\ \A n : n # 0 /\ n # 1 => V!Word("mode", n) = "?"
  <2>1. (CHOOSE o \in {off, on} : o.number = 0) = off
    OBVIOUS
  <2>2. (CHOOSE o \in {off, on} : o.number = 1) = on
    OBVIOUS
  <2> QED
    BY <1>c, <1>d, <2>1, <2>2 DEF V!Word
<1>f. /\ \A text : text.word = "off" => V!Meant("mode", text) = 0
      /\ \A text : text.word = "on" => V!Meant("mode", text) = 1
      /\ \A text : V!Meant("pressure", text) = text.number
  <2>1. (CHOOSE o \in {off, on} : o.word = "off") = off
    OBVIOUS
  <2>2. (CHOOSE o \in {off, on} : o.word = "on") = on
    OBVIOUS
  <2> QED
    BY <1>a, <1>c, <2>1, <2>2 DEF V!Meant
<1>g. \A n : n = 0 \/ n = 1 => V!Meant("mode", V!Text(V!Word("mode", n), 0)) = n
  BY <1>e, <1>f DEF V!Text
<1>h. \A n : V!Meant("pressure", V!Text("", n)) = n
  <2>1. \A n : V!Text("", n).number = n
    BY DEF V!Text
  <2> QED
    BY <1>f, <2>1
<1>i. \A v \in {"mode", "pressure"} : \A n :
        V!Value(v, Displayed(v, n)) =
          IF v # "mode" \/ V!HasOption(v, n) THEN [number |-> n, status |-> TRUE]
          ELSE [number |-> 0, status |-> FALSE]
  <2>1. \A n : V!Value("pressure", Displayed("pressure", n)) = [number |-> n, status |-> TRUE]
    BY <1>a DEF V!Value, Displayed, V!Text
  <2>2. \A n : V!Value("mode", Displayed("mode", n)) =
                 IF n = 0 \/ n = 1 THEN [number |-> n, status |-> TRUE]
                 ELSE [number |-> 0, status |-> FALSE]
    <3> SUFFICES ASSUME NEW n
                 PROVE  V!Value("mode", Displayed("mode", n)) =
                          IF n = 0 \/ n = 1 THEN [number |-> n, status |-> TRUE]
                          ELSE [number |-> 0, status |-> FALSE]
      OBVIOUS
    <3> DEFINE text == Displayed("mode", n)
    <3>1. text.word = V!Word("mode", n)
      BY DEF Displayed, V!Text
    <3>2. (\E o \in {off, on} : o.word = text.word) <=> n = 0 \/ n = 1
      BY <1>e, <3>1
    <3>3. n = 0 \/ n = 1 => V!Meant("mode", text) = n
      BY <1>e, <1>f, <3>1
    <3> HIDE DEF text
    <3> QED
      BY <1>a, <1>c, <3>2, <3>3 DEF V!Value, text
  <2> QED
    BY <1>d, <2>1, <2>2
<1> HIDE DEF off, on
<1>1. V!RequestsInit => VInv
  <2> SUFFICES ASSUME V!RequestsInit PROVE VInv
    OBVIOUS
  <2>1. VFlags /\ vrCalls \in 0 .. MaxCalls /\ 0 \in 0 .. SEND_RETRY
    <3>1. carried \in BOOLEAN /\ setterEnded \in BOOLEAN /\ alone \in [Readers -> BOOLEAN]
      BY DEF V!RequestsInit, Readers, V!Readers
    <3>2. vrCalls \in 0 .. MaxCalls /\ 0 \in 0 .. SEND_RETRY
      BY <1>0 DEF V!RequestsInit
    <3> QED
      BY <3>1, <3>2 DEF VFlags
  <2>2. IsRequest(V!NoRequest) /\ V!NoRequest.kind = "page"
    BY DEF V!NoRequest, IsRequest
  <2>3. IsContent(V!Nothing) /\ V!Nothing.kind = "none"
    BY DEF V!Nothing, IsContent
  <2>4. V!RegulatorIsRight
    BY DEF V!RequestsInit, V!RegulatorIsRight, V!NoResult, V!NoReading
  <2>5. VPlain
    BY <2>1, <2>2, <2>3 DEF V!RequestsInit, VPlain, Readers, V!Readers, Pages
  <2>6. VLinks
    BY <2>2 DEF V!RequestsInit, VLinks, V!Readers
  <2> QED
    BY <2>1, <2>4, <2>5, <2>6 DEF VInv
<1>2. VInv /\ [V!RequestsNext]_V!requestVars => VInv'
  <2> SUFFICES ASSUME VInv, [V!RequestsNext]_V!requestVars PROVE VInv'
    OBVIOUS
  <2>0. /\ page \in Pages /\ guarded \in {"no", "right", "wrong"}
        /\ hash \in {"none", "right", "stale"} /\ orderTries \in [Readers -> 0 .. SEND_RETRY]
        /\ vrpc \in [Readers -> {"rest", "prepare", "exchange", "judge"}]
        /\ carried \in BOOLEAN /\ setterEnded \in BOOLEAN /\ vrCalls \in 0 .. MaxCalls
        /\ alone \in [Readers -> BOOLEAN]
        /\ request = [t \in Readers |-> request[t]] /\ content = [t \in Readers |-> content[t]]
        /\ \A t \in Readers : IsRequest(request[t]) /\ IsContent(content[t])
        /\ IsRequest(client) /\ request["module"].kind # "set"
    BY DEF VInv, VPlain, VFlags
  <2>1. /\ vrpc["command"] = "exchange" /\ alone["command"] => client = request["command"]
        /\ request["command"].kind = "set" /\ alone["command"] /\ content["command"].kind = "json" =>
             carried
        /\ V!RegulatorIsRight
    BY DEF VInv, VLinks
  <2>r. "command" \in Readers /\ "module" \in Readers
        /\ \A t \in Readers : t = "command" \/ t = "module"
    BY DEF Readers
  <2>n. /\ IsRequest(V!NoRequest) /\ V!NoRequest.kind = "page"
        /\ IsContent(V!Nothing) /\ V!Nothing.kind = "none"
    BY DEF V!NoRequest, IsRequest, V!Nothing, IsContent
  <2>m. IsContent(V!Login) /\ V!Login.kind = "login"
    <3>1. DOMAIN V!Login = {"kind", "shown", "of", "fresh"} /\ V!Login.kind = "login"
      BY DEF V!Login, V!Nothing
    <3> QED
      BY <3>1 DEF IsContent
  <2>k. UNCHANGED <<returned, reading>> => V!RegulatorIsRight'
    BY <2>1 DEF V!RegulatorIsRight
  <2>2. CASE V!Turn
    <3>1. /\ UNCHANGED <<guarded, hash, vrpc, request, client, content, orderTries, carried, alone,
                         returned, reading, setterEnded>>
          /\ vrCalls < MaxCalls /\ vrCalls' = vrCalls + 1
      BY <2>2 DEF V!Turn
    <3>2. page' \in Pages
      BY <2>0, <2>2 DEF V!Turn, Pages
    <3>3. vrCalls' \in 0 .. MaxCalls
      BY <1>0, <2>0, <3>1
    <3>p. VPlain'
      BY <2>0, <2>1, <3>1, <3>2, <3>3 DEF VPlain
    <3>f. VFlags'
      BY <2>0, <2>1, <3>1, <3>2, <3>3 DEF VFlags
    <3>l. VLinks'
      BY <2>0, <2>1, <3>1, <3>2, <3>3 DEF VLinks
    <3> QED
      BY <2>k, <3>1, <3>p, <3>f, <3>l DEF VInv
  <2>3. CASE V!Renew
    <3>1. /\ UNCHANGED <<page, guarded, vrpc, orderTries, carried, alone, returned, reading,
                         setterEnded>>
          /\ vrCalls < MaxCalls /\ vrCalls' = vrCalls + 1 /\ hash' = V!Stale(hash)
          /\ request' = [t \in Readers |-> [request[t] EXCEPT !.hash = V!Stale(@)]]
          /\ client' = [client EXCEPT !.hash = V!Stale(@)]
          /\ content' = [t \in Readers |-> [content[t] EXCEPT !.fresh = FALSE]]
      BY <2>3 DEF V!Renew, Readers, V!Readers
    <3>2. hash' \in {"none", "right", "stale"}
      BY <2>0, <3>1 DEF V!Stale
    <3>3. vrCalls' \in 0 .. MaxCalls
      BY <1>0, <2>0, <3>1
    <3>5. ASSUME NEW r, IsRequest(r)
          PROVE  /\ IsRequest([r EXCEPT !.hash = V!Stale(@)])
                 /\ [r EXCEPT !.hash = V!Stale(@)].kind = r.kind
      BY <3>5 DEF IsRequest
    <3>6. ASSUME NEW c, IsContent(c)
          PROVE  /\ IsContent([c EXCEPT !.fresh = FALSE])
                 /\ [c EXCEPT !.fresh = FALSE].kind = c.kind
      <4> DEFINE d == [c EXCEPT !.fresh = FALSE]
      <4>1. /\ d.kind = c.kind /\ d.shown = c.shown /\ d.of = c.of
            /\ DOMAIN d = {"kind", "shown", "of", "fresh"}
        BY <3>6 DEF IsContent
      <4> HIDE DEF d
      <4>2. IsContent(d)
        BY <3>6, <4>1 DEF IsContent
      <4> QED
        BY <4>1, <4>2 DEF d
    <3>7. /\ \A t \in Readers : IsRequest(request'[t]) /\ request'[t].kind = request[t].kind
          /\ IsRequest(client')
      BY <2>0, <3>1, <3>5
    <3>8. \A t \in Readers : IsContent(content'[t]) /\ content'[t].kind = content[t].kind
      BY <2>0, <3>1, <3>6
    <3>9. client = request["command"] => client' = request'["command"]
      BY <2>r, <3>1
    <3>p. VPlain'
      BY <2>0, <2>1, <2>r, <3>1, <3>2, <3>3, <3>7, <3>8, <3>9 DEF VPlain
    <3>f. VFlags'
      BY <2>0, <2>1, <2>r, <3>1, <3>2, <3>3, <3>7, <3>8, <3>9 DEF VFlags
    <3>l. VLinks'
      BY <2>0, <2>1, <2>r, <3>1, <3>2, <3>3, <3>7, <3>8, <3>9 DEF VLinks
    <3> QED
      BY <2>k, <3>1, <3>p, <3>f, <3>l DEF VInv
  <2>4. ASSUME NEW t \in Readers, V!Prepare(t) PROVE VInv'
    <3>1. /\ vrpc[t] = "prepare" /\ vrpc' = [vrpc EXCEPT ![t] = "exchange"]
          /\ client' = request[t]
          /\ alone' = IF vrpc[V!OtherReader(t)] = "exchange" THEN [u \in Readers |-> FALSE] ELSE alone
          /\ UNCHANGED <<page, guarded, hash, request, content, orderTries, carried, returned,
                         reading, setterEnded, vrCalls>>
      BY <2>4 DEF V!Prepare, Readers, V!Readers
    <3>2. alone' \in [Readers -> BOOLEAN] /\ (alone'["command"] => alone["command"])
      BY <2>0, <2>r, <3>1
    <3>3. vrpc'["command"] = "exchange" /\ alone'["command"] => client' = request'["command"]
      BY <2>0, <2>r, <3>1 DEF V!OtherReader
    <3>4. vrpc' \in [Readers -> {"rest", "prepare", "exchange", "judge"}]
      BY <2>0, <3>1
    <3>p. VPlain'
      BY <2>0, <2>1, <3>1, <3>2, <3>3, <3>4 DEF VPlain
    <3>f. VFlags'
      BY <2>0, <2>1, <3>1, <3>2, <3>3, <3>4 DEF VFlags
    <3>l. VLinks'
      BY <2>0, <2>1, <3>1, <3>2, <3>3, <3>4 DEF VLinks
    <3> QED
      BY <2>k, <3>1, <3>p, <3>f, <3>l DEF VInv
  <2>5. ASSUME NEW t \in Readers, V!Exchange(t) PROVE VInv'
    <3> DEFINE r == client
    <3> DEFINE ok == r.kind = "set" /\ V!Grants(r)
    <3> DEFINE json == [kind |-> "json", shown |-> [v \in {"mode", "pressure"} |-> V!Shown(v)],
                        of |-> page, fresh |-> FALSE]
    <3> DEFINE reply == IF r.kind # "page" /\ ~V!Grants(r) THEN V!Login ELSE json
    <3>1. /\ vrpc[t] = "exchange" /\ vrpc' = [vrpc EXCEPT ![t] = "judge"]
          /\ client' = IF vrpc[V!OtherReader(t)] = "exchange" THEN client ELSE V!NoRequest
          /\ UNCHANGED <<guarded, hash, request, orderTries, alone, returned, reading,
                         setterEnded, vrCalls>>
          /\ \/ UNCHANGED <<page, carried, content>>
             \/ /\ page' = IF ok THEN [page EXCEPT ![r.variable] = V!Meant(r.variable, r.text)] ELSE page
                /\ carried' = (carried \/ ok)
                /\ content' = content \/ content' = [content EXCEPT ![t] = reply]
      BY <2>5 DEF V!Exchange
    <3>2. IsContent(json) /\ json.kind = "json"
      <4>1. \A v \in {"mode", "pressure"} : V!Shown(v) = Displayed(v, page[v])
        BY <1>a DEF V!Shown, Displayed
      <4> QED
        BY <2>0, <4>1 DEF IsContent
    <3>3. IsContent(reply) /\ (reply.kind = "json" /\ r.kind = "set" => ok)
      <4> HIDE DEF json
      <4> QED
        BY <2>m, <3>2
    <3> HIDE DEF reply
    <3>4. /\ content' = [u \in Readers |-> content'[u]]
          /\ \A u \in Readers : IsContent(content'[u])
          /\ content'["command"] = content["command"] \/ (t = "command" /\ content'["command"] = reply)
      BY <2>0, <2>r, <3>1, <3>3
    <3>5. page' \in Pages
      BY <2>0, <3>1 DEF Pages, IsRequest
    <3>b. carried' \in BOOLEAN /\ (carried => carried') /\ (content' # content /\ ok => carried')
      <4> HIDE DEF ok
      <4>1. CASE carried' = carried /\ content' = content
        BY <2>0, <4>1
      <4>2. CASE carried' = (carried \/ ok)
        BY <4>2
      <4> QED
        BY <3>1, <4>1, <4>2
    <3>6. ASSUME request'["command"].kind = "set", alone'["command"],
                 content'["command"].kind = "json"
          PROVE  carried'
      <4>0. request' = request /\ alone' = alone
        BY <3>1
      <4>3. request["command"].kind = "set" /\ alone["command"]
        BY <3>6, <4>0
      <4> HIDE DEF ok, r
      <4>1. CASE content'["command"] = content["command"]
        BY <2>1, <3>6, <3>b, <4>1, <4>3
      <4>2. CASE content'["command"] # content["command"]
        <5>1. t = "command" /\ content'["command"] = reply /\ content' # content
          BY <3>4, <4>2
        <5>2. r.kind = "set"
          BY <2>1, <3>1, <4>3, <5>1 DEF r
        <5> QED
          BY <3>3, <3>6, <3>b, <5>1, <5>2
      <4> QED
        BY <4>1, <4>2
    <3>7. vrpc' \in [Readers -> {"rest", "prepare", "exchange", "judge"}] /\ IsRequest(client')
      BY <2>0, <2>n, <3>1
    <3>8. vrpc'["command"] = "exchange" /\ alone'["command"] => client' = request'["command"]
      BY <2>0, <2>1, <2>r, <3>1 DEF V!OtherReader
    <3>p. VPlain'
      BY <2>0, <3>1, <3>4, <3>5, <3>b, <3>6, <3>7, <3>8 DEF VPlain
    <3>f. VFlags'
      BY <2>0, <3>1, <3>4, <3>5, <3>b, <3>6, <3>7, <3>8 DEF VFlags
    <3>l. VLinks'
      BY <2>0, <3>1, <3>4, <3>5, <3>b, <3>6, <3>7, <3>8 DEF VLinks
    <3> QED
      BY <2>k, <3>1, <3>p, <3>f, <3>l DEF VInv
  <2>6. ASSUME NEW id \in {5, 6, 0}, NEW n \in PageValues, V!Unknowns(id, n) PROVE VInv'
    <3>1. /\ UNCHANGED <<page, guarded, hash, vrpc, request, client, content, orderTries, carried,
                         alone, returned, reading>>
          /\ vrCalls < MaxCalls /\ vrCalls' = vrCalls + 1
          /\ setterEnded' = setterEnded \/ setterEnded' = TRUE
      BY <2>6 DEF V!Unknowns
    <3>2. vrCalls' \in 0 .. MaxCalls
      BY <1>0, <2>0, <3>1
    <3>3. setterEnded' \in BOOLEAN
      BY <2>0, <3>1
    <3>p. VPlain'
      BY <2>0, <2>1, <3>1, <3>2, <3>3 DEF VPlain
    <3>f. VFlags'
      BY <2>0, <2>1, <3>1, <3>2, <3>3 DEF VFlags
    <3>l. VLinks'
      BY <2>0, <2>1, <3>1, <3>2, <3>3 DEF VLinks
    <3> QED
      BY <2>k, <3>1, <3>p, <3>f, <3>l DEF VInv
  <2>7. ASSUME NEW id \in {5, 6, 0}, NEW n \in PageValues, V!Set(id, n) PROVE VInv'
    <3> DEFINE v == IF id = 5 THEN "mode" ELSE "pressure"
    <3> DEFINE r == [kind |-> "set", variable |-> v, hash |-> hash,
                     text |-> IF v \in DOMAIN Modes THEN V!Text(V!Word(v, n), 0) ELSE V!Text("", n)]
    <3>0. id \in {5, 6}
      BY <2>7 DEF V!Set
    <3>1. /\ UNCHANGED <<page, guarded, hash, client, reading, setterEnded>>
          /\ vrCalls < MaxCalls /\ vrCalls' = vrCalls + 1
          /\ v \in DOMAIN Modes => V!HasOption(v, n)
          /\ request' = [request EXCEPT !["command"] = r]
          /\ vrpc' = [vrpc EXCEPT !["command"] = "prepare"]
          /\ content' = [content EXCEPT !["command"] = V!Nothing]
          /\ orderTries' = [orderTries EXCEPT !["command"] = 0]
          /\ carried' = FALSE /\ alone' = [alone EXCEPT !["command"] = TRUE]
          /\ returned' = V!NoResult
      BY <2>7, <3>0 DEF V!Set
    <3>2. vrCalls' \in 0 .. MaxCalls /\ orderTries' \in [Readers -> 0 .. SEND_RETRY]
      <4>0. vrCalls < MaxCalls /\ vrCalls' = vrCalls + 1
        BY <3>1
      <4>1. vrCalls' \in 0 .. MaxCalls
        BY <1>0, <2>0, <4>0
      <4>2. 0 \in 0 .. SEND_RETRY
        BY <1>0
      <4> HIDE DEF r
      <4> QED
        BY <2>0, <3>1, <4>1, <4>2
    <3>3. v \in {"mode", "pressure"} /\ V!Meant(v, r.text) \in PageValues
      <4>1. CASE id = 5
        BY <1>a, <1>d, <1>g, <3>1, <4>1
      <4>2. CASE id # 5
        BY <1>a, <1>h, <4>2
      <4> QED
        BY <4>1, <4>2
    <3>4. IsRequest(r)
      <4> HIDE DEF v
      <4> QED
        BY <3>3 DEF IsRequest
    <3> HIDE DEF r
    <3>p. VPlain'
      BY <2>0, <2>n, <2>r, <3>1, <3>2, <3>4 DEF VPlain
    <3>f. VFlags'
      BY <2>0, <3>1 DEF VFlags
    <3>l. VLinks'
      BY <2>0, <2>n, <2>r, <3>1 DEF VLinks
    <3>k. V!RegulatorIsRight'
      <4>1. ~returned'.ok
        BY <3>1 DEF V!NoResult
      <4> QED
        BY <2>1, <3>1, <4>1 DEF V!RegulatorIsRight
    <3> QED
      BY <3>p, <3>f, <3>l, <3>k DEF VInv
  <2>s. ASSUME NEW ofDevice
        PROVE  LET r == [V!NoRequest EXCEPT !.kind = "stamp", !.hash = ofDevice]
               IN  IsRequest(r) /\ r.kind = "stamp"
    <3> DEFINE r == [V!NoRequest EXCEPT !.kind = "stamp", !.hash = ofDevice]
    <3>1. DOMAIN r = {"kind", "variable", "text", "hash"} /\ r.kind = "stamp"
      BY DEF V!NoRequest
    <3> HIDE DEF r
    <3>2. IsRequest(r) /\ r.kind = "stamp"
      BY <3>1 DEF IsRequest
    <3> QED
      BY <3>2 DEF r
  \* A thread's order or stamp is over, and a stamp follows, or nothing.
  <2>t. ASSUME NEW t \in Readers, NEW r, IsRequest(r), r.kind \in {"stamp", "page"},
               NEW place \in {"rest", "prepare"},
               request' = [request EXCEPT ![t] = r], vrpc' = [vrpc EXCEPT ![t] = place],
               content' = [content EXCEPT ![t] = V!Nothing],
               orderTries' = [orderTries EXCEPT ![t] = 0],
               hash' \in {"none", "right", "stale"},
               UNCHANGED <<page, guarded, client, carried, alone, setterEnded, vrCalls>>,
               V!RegulatorIsRight'
        PROVE  VInv'
    <3>1. orderTries' \in [Readers -> 0 .. SEND_RETRY]
      BY <1>0, <2>0, <2>t
    <3>2. VPlain'
      BY <2>0, <2>n, <2>r, <2>t, <3>1 DEF VPlain
    <3>3. VFlags'
      BY <2>0, <2>t DEF VFlags
    <3>4. VLinks'
      BY <2>0, <2>1, <2>n, <2>r, <2>t DEF VLinks
    <3> QED
      BY <2>t, <3>2, <3>3, <3>4 DEF VInv
  <2>u. ASSUME NEW t \in Readers, NEW ok, V!Return(t, ok), hash' \in {"none", "right", "stale"},
               request[t].kind # "page",
               UNCHANGED <<page, guarded, client, carried, alone, reading, setterEnded, vrCalls>>,
               ok /\ request[t].kind = "set" => content[t].kind = "json"
        PROVE  VInv'
    <3>1. returned' = IF request[t].kind = "set"
                      THEN [ok |-> ok, carried |-> carried, alone |-> alone[t]] ELSE returned
      BY <2>u DEF V!Return
    <3>2. V!RegulatorIsRight'
      <4>1. returned'.ok /\ returned'.alone => returned'.carried
        <5>1. CASE request[t].kind = "set"
          <6>1. t = "command"
            BY <2>0, <2>r, <5>1
          <6>2. ok /\ alone["command"] => carried
            BY <2>1, <2>u, <5>1, <6>1
          <6>3. returned'.ok = ok /\ returned'.carried = carried /\ returned'.alone = alone[t]
            BY <3>1, <5>1
          <6> QED
            BY <6>1, <6>2, <6>3
        <5>2. CASE request[t].kind # "set"
          BY <2>1, <3>1, <5>2 DEF V!RegulatorIsRight
        <5> QED
          BY <5>1, <5>2
      <4> QED
        BY <2>1, <2>u, <4>1 DEF V!RegulatorIsRight
    <3>3. CASE ok /\ request[t].kind = "set"
      <4>1. V!Stamp(t, hash)
        BY <2>u, <3>3 DEF V!Return
      <4> DEFINE r == [V!NoRequest EXCEPT !.kind = "stamp", !.hash = hash]
      <4>2. IsRequest(r) /\ r.kind = "stamp"
        BY <2>s
      <4>3. /\ request' = [request EXCEPT ![t] = r] /\ vrpc' = [vrpc EXCEPT ![t] = "prepare"]
            /\ content' = [content EXCEPT ![t] = V!Nothing]
            /\ orderTries' = [orderTries EXCEPT ![t] = 0]
        BY <4>1 DEF V!Stamp
      <4> HIDE DEF r
      <4> QED
        BY <2>t, <2>u, <3>2, <4>2, <4>3
    <3>4. CASE ~(ok /\ request[t].kind = "set")
      <4>1. /\ request' = [request EXCEPT ![t] = V!NoRequest] /\ vrpc' = [vrpc EXCEPT ![t] = "rest"]
            /\ content' = [content EXCEPT ![t] = V!Nothing]
            /\ orderTries' = [orderTries EXCEPT ![t] = 0]
        BY <2>u, <3>4 DEF V!Return
      <4> QED
        BY <2>n, <2>t, <2>u, <3>2, <4>1
    <3> QED
      BY <3>3, <3>4
  <2>8. ASSUME NEW t \in Readers, V!JudgeSet(t) PROVE VInv'
    <3> DEFINE c == content[t]
    <3> DEFINE built == IF c.kind # "login" THEN "none"
                        ELSE IF guarded = "right" /\ c.fresh THEN "right" ELSE "stale"
    <3>1. /\ vrpc[t] = "judge" /\ request[t].kind # "page"
          /\ UNCHANGED <<page, guarded, client, carried, alone, reading, setterEnded, vrCalls>>
          /\ \/ V!Consents(c) /\ V!Return(t, TRUE) /\ UNCHANGED hash
             \/ /\ hash' = built
                /\ \/ V!Return(t, FALSE)
                   \/ /\ orderTries[t] + 1 < SEND_RETRY
                      /\ orderTries' = [orderTries EXCEPT ![t] = @ + 1]
                      /\ request' = IF built = "none" THEN request
                                    ELSE [request EXCEPT ![t].hash = built]
                      /\ vrpc' = [vrpc EXCEPT ![t] = "prepare"] /\ UNCHANGED <<returned, content>>
      BY <2>8 DEF V!JudgeSet
    <3>2. built \in {"none", "right", "stale"}
      OBVIOUS
    <3> HIDE DEF built
    <3>3. CASE V!Consents(c) /\ V!Return(t, TRUE) /\ UNCHANGED hash
      BY <2>0, <2>u, <3>1, <3>3 DEF V!Consents
    <3>4. CASE hash' = built /\ V!Return(t, FALSE)
      BY <2>u, <3>1, <3>2, <3>4
    <3>5. CASE /\ orderTries[t] + 1 < SEND_RETRY /\ hash' = built
               /\ orderTries' = [orderTries EXCEPT ![t] = @ + 1]
               /\ request' = IF built = "none" THEN request
                             ELSE [request EXCEPT ![t].hash = built]
               /\ vrpc' = [vrpc EXCEPT ![t] = "prepare"] /\ UNCHANGED <<returned, content>>
      <4>1. orderTries' \in [Readers -> 0 .. SEND_RETRY]
        BY <1>0, <2>0, <3>5
      <4>2. ASSUME NEW r, IsRequest(r)
            PROVE  IsRequest([r EXCEPT !.hash = built]) /\ [r EXCEPT !.hash = built].kind = r.kind
        BY <4>2 DEF IsRequest
      <4>3. /\ request' = [u \in Readers |-> request'[u]]
            /\ \A u \in Readers : IsRequest(request'[u]) /\ request'[u].kind = request[u].kind
        BY <2>0, <3>5, <4>2
      <4>4. VPlain'
        BY <2>0, <2>r, <3>1, <3>2, <3>5, <4>1, <4>3 DEF VPlain
      <4>5. VFlags'
        BY <2>0, <3>1 DEF VFlags
      <4>6. VLinks'
        <5>1. vrpc'["command"] = "exchange" => t # "command" /\ vrpc["command"] = "exchange"
          BY <2>0, <2>r, <3>5
        <5>2. t # "command" => request'["command"] = request["command"]
          BY <2>0, <2>r, <3>5
        <5>3. request'["command"].kind = request["command"].kind
          BY <2>r, <4>3
        <5> QED
          BY <2>1, <3>1, <3>5, <5>1, <5>2, <5>3 DEF VLinks
      <4> QED
        BY <2>k, <3>1, <3>5, <4>4, <4>5, <4>6 DEF VInv
    <3> QED
      BY <3>1, <3>3, <3>4, <3>5
  <2>9. CASE V!Read
    <3>1. /\ UNCHANGED <<page, guarded, hash, client, orderTries, carried, returned, setterEnded>>
          /\ vrCalls < MaxCalls /\ vrCalls' = vrCalls + 1
          /\ vrpc' = [vrpc EXCEPT !["module"] = "prepare"]
          /\ request' = [request EXCEPT !["module"] = V!NoRequest]
          /\ content' = [content EXCEPT !["module"] = V!Nothing]
          /\ alone' = [alone EXCEPT !["module"] = TRUE] /\ reading' = V!NoReading
      BY <2>9 DEF V!Read
    <3>2. vrCalls' \in 0 .. MaxCalls
      BY <1>0, <2>0, <3>1
    <3>p. VPlain'
      BY <2>0, <2>n, <2>r, <3>1, <3>2 DEF VPlain
    <3>f. VFlags'
      BY <2>0, <3>1 DEF VFlags
    <3>l. VLinks'
      BY <2>0, <2>1, <2>r, <3>1 DEF VLinks
    <3>k. V!RegulatorIsRight'
      BY <2>1, <3>1 DEF V!RegulatorIsRight, V!NoReading
    <3> QED
      BY <3>p, <3>f, <3>l, <3>k DEF VInv
  <2>10. CASE V!JudgePage
    <3> DEFINE c == content["module"]
    <3>1. /\ request["module"].kind = "page" /\ vrpc["module"] = "judge"
          /\ UNCHANGED <<page, guarded, hash, client, carried, alone, returned, setterEnded, vrCalls>>
          /\ \/ /\ c.kind = "json" /\ V!Stamp("module", hash)
                /\ reading' = [values |-> V!ValuesOf(c.shown), of |-> c.of, alone |-> alone["module"]]
             \/ /\ vrpc' = [vrpc EXCEPT !["module"] = "rest"]
                /\ UNCHANGED <<request, content, orderTries, reading>>
      BY <2>10 DEF V!JudgePage
    <3> HIDE DEF c
    <3>2. CASE /\ c.kind = "json" /\ V!Stamp("module", hash)
               /\ reading' = [values |-> V!ValuesOf(c.shown), of |-> c.of, alone |-> alone["module"]]
      <4>1. \A v \in {"mode", "pressure"} : c.shown[v] = Displayed(v, c.of[v])
        BY <2>0, <2>r, <3>2 DEF IsContent, c
      <4>2. DOMAIN V!ValuesOf(c.shown) = {1, 62}
        BY DEF V!ValuesOf
      <4>3. V!ValuesOf(c.shown)[1] = V!Value("mode", Displayed("mode", c.of["mode"]))
        BY <4>1 DEF V!ValuesOf, V!Converted, V!PRESSURE_MODULE_ID
      <4>4. V!ValuesOf(c.shown)[62] =
              [V!Value("pressure", Displayed("pressure", c.of["pressure"])) EXCEPT
                !.number = 1000 * @]
        BY <4>1 DEF V!ValuesOf, V!Converted, V!PRESSURE_MODULE_ID, V!CONVERT_VALUE
      <4>5. /\ reading'.values = V!ValuesOf(c.shown) /\ reading'.of = c.of
            /\ returned' = returned
        BY <3>1, <3>2
      <4>6. V!RegulatorIsRight'
        <5>1. V!ValuesOf(c.shown)[1] = IF V!HasOption("mode", c.of["mode"])
                                       THEN [number |-> c.of["mode"], status |-> TRUE]
                                       ELSE [number |-> 0, status |-> FALSE]
          BY <1>i, <4>3
        <5>2. V!ValuesOf(c.shown)[62] = [number |-> 1000 * c.of["pressure"], status |-> TRUE]
          <6>1. ASSUME NEW m, NEW n, NEW a
                PROVE  [[number |-> n, status |-> a] EXCEPT !.number = m] =
                         [number |-> m, status |-> a]
            OBVIOUS
          <6>2. V!Value("pressure", Displayed("pressure", c.of["pressure"])) =
                  [number |-> c.of["pressure"], status |-> TRUE]
            BY <1>i
          <6>3. V!Value("pressure", Displayed("pressure", c.of["pressure"])).number = c.of["pressure"]
            BY <6>2
          <6>4. V!ValuesOf(c.shown)[62] = [V!Value("pressure", Displayed("pressure", c.of["pressure"]))
                                             EXCEPT !.number = 1000 * c.of["pressure"]]
            BY <4>4, <6>3
          <6> DEFINE n == c.of["pressure"]
          <6> DEFINE m == 1000 * n
          <6> HIDE DEF n, m
          <6>5. [[number |-> n, status |-> TRUE] EXCEPT !.number = m] = [number |-> m, status |-> TRUE]
            BY <6>1
          <6>6. V!Value("pressure", Displayed("pressure", n)) = [number |-> n, status |-> TRUE]
            BY <6>2 DEF n
          <6>7. V!ValuesOf(c.shown)[62] =
                  [V!Value("pressure", Displayed("pressure", n)) EXCEPT !.number = m]
            BY <6>4 DEF n, m
          <6>8. V!ValuesOf(c.shown)[62] = [number |-> m, status |-> TRUE]
            BY <6>5, <6>6, <6>7
          <6> QED
            BY <6>8 DEF m, n
        <5> QED
          <6> DEFINE variable(id) == [i \in {1, 62} |-> IF i = 1 THEN "mode" ELSE "pressure"][id]
          <6> DEFINE good(id, z, of) ==
                z[id] =
                  IF variable(id) \notin DOMAIN Modes \/ V!HasOption(variable(id), of[variable(id)])
                  THEN [number |-> IF id = V!PRESSURE_MODULE_ID THEN 1000 * of[variable(id)]
                                   ELSE of[variable(id)], status |-> TRUE]
                  ELSE [number |-> 0, status |-> FALSE]
          <6>1. good(1, V!ValuesOf(c.shown), c.of)
            BY <1>a, <5>1 DEF V!PRESSURE_MODULE_ID
          <6>2. good(62, V!ValuesOf(c.shown), c.of)
            BY <1>a, <5>2 DEF V!PRESSURE_MODULE_ID
          <6>3. V!RegulatorIsRight' <=>
                  /\ returned'.ok /\ returned'.alone => returned'.carried
                  /\ reading'.alone => \A id \in DOMAIN reading'.values : good(id, reading'.values, reading'.of)
            BY DEF V!RegulatorIsRight
          <6> HIDE DEF good
          <6>4. \A id \in DOMAIN reading'.values : good(id, reading'.values, reading'.of)
            BY <4>2, <4>5, <6>1, <6>2
          <6>5. returned'.ok /\ returned'.alone => returned'.carried
            BY <2>1, <4>5 DEF V!RegulatorIsRight
          <6> QED
            BY <6>3, <6>4, <6>5
      <4> DEFINE r == [V!NoRequest EXCEPT !.kind = "stamp", !.hash = hash]
      <4>7. IsRequest(r) /\ r.kind = "stamp"
        BY <2>s
      <4>8. /\ request' = [request EXCEPT !["module"] = r]
            /\ vrpc' = [vrpc EXCEPT !["module"] = "prepare"]
            /\ content' = [content EXCEPT !["module"] = V!Nothing]
            /\ orderTries' = [orderTries EXCEPT !["module"] = 0]
        BY <3>2 DEF V!Stamp
      <4>9. hash' \in {"none", "right", "stale"}
        BY <2>0, <3>1
      <4> HIDE DEF r
      <4> QED
        BY <2>r, <2>t, <3>1, <4>6, <4>7, <4>8, <4>9
    <3>3. CASE /\ vrpc' = [vrpc EXCEPT !["module"] = "rest"]
               /\ UNCHANGED <<request, content, orderTries, reading>>
      <4>1. VPlain'
        BY <2>0, <2>r, <3>1, <3>3 DEF VPlain
      <4>2. VFlags'
        BY <2>0, <3>1 DEF VFlags
      <4>3. VLinks'
        BY <2>0, <2>1, <2>r, <3>1, <3>3 DEF VLinks
      <4> QED
        BY <2>k, <3>1, <3>3, <4>1, <4>2, <4>3 DEF VInv
    <3> QED
      BY <3>1, <3>2, <3>3
  <2>11. CASE UNCHANGED V!requestVars
    <3>1. VPlain'
      BY <2>0, <2>11 DEF VPlain, V!requestVars
    <3>2. VFlags'
      BY <2>0, <2>11 DEF VFlags, V!requestVars
    <3>3. VLinks'
      BY <2>1, <2>11 DEF VLinks, V!requestVars
    <3> QED
      BY <2>k, <2>11, <3>1, <3>2, <3>3 DEF VInv, V!requestVars
  <2>12. DOMAIN [id \in {5, 6} |-> IF id = 5 THEN "mode" ELSE "pressure"] \union {0} = {5, 6, 0}
    OBVIOUS
  <2> QED
    BY <2>2, <2>3, <2>4, <2>5, <2>6, <2>7, <2>8, <2>9, <2>10, <2>11, <2>12
    DEF V!RequestsNext, Readers, V!Readers
<1>3. VInv => V!RequestsTypeOK /\ V!RegulatorIsRight
  BY DEF VInv, VPlain, VFlags, V!RequestsTypeOK, V!Readers, Readers, Pages, IsContent
<1> QED
  BY <1>1, <1>2, <1>3, PartsRun, PTL DEF RegulatorIsRight

-----------------------------------------------------------------------------
(* Routing of the commands (CommandRouter). *)

Present == {"psm", "led", "vsm", "vpt", "jablotron", "belkin", "pan", "mqttdata", "bluetooth"}


-----------------------------------------------------------------------------
(* Packets of the Jablotron dongle and the events (JablotronReadings). *)

\* What the server has last of an event, and by which time.
NewestIsRight(t) ==
  LET e == J!EventOf(t)
  IN  /\ newest[t].value # e.off =>
           /\ newest[t].time <= seconds /\ (jrpc = "reset" => newest[t].time <= readTime)
           /\ \/ t = "JA85ST" /\ began[t][2] < newest[t].time
              \/ jrpc = "reset" /\ J!IsEvent(packet) /\ packet.type = t
      /\ began[t][2] <= newest[t].time /\ began[t][2] <= seconds
      /\ newest[t].value # e.on => newest[t].time <= began[t][2] + 2

\* Before the end of an event is sent.
ResetIsRight ==
  jrpc = "reset" =>
    /\ readTime <= seconds /\ sensorEvent = J!SensorEvent(packet) /\ packet # <<>>
    /\ J!IsEvent(packet) => began[packet.type][2] = readTime

JInv ==
  /\ J!ReadingsTypeOK /\ began \in [J!EventTypes -> Int \X Int]
  /\ \A t \in J!EventTypes : NewestIsRight(t)
  /\ ResetIsRight /\ (packet = <<>> => dongleToServer = <<>>)
  /\ J!EventIsSeen /\ J!ReadingIsSent


-----------------------------------------------------------------------------
(* The search of the networks (NetworkScan). *)

\* The addresses from the range's first one to h, modulo the size.
Dist(h) == LET f == N!First(network) IN IF h >= f THEN h - f ELSE h - f + N!Size
Found(h) == {k \in DOMAIN devices : devices[k] = h}

\* After tries: the first address twice, then one after the other.
ScanGoesOn ==
  LET f == N!First(network)
      past(n) == IF f + n < N!Size THEN f + n ELSE f + n - N!Size
  IN  /\ mask = past(tries) /\ testIP = IF tries = 0 THEN f ELSE past(tries - 1)
      /\ N!Broadcast(network) < N!Size - 1 => tries <= N!Broadcast(network) - f + 2
      /\ \A k \in DOMAIN devices :
           \/ N!Broadcast(network) = N!Size - 1
           \/ f <= devices[k] /\ devices[k] <= N!Broadcast(network)
      /\ \A h \in up : Cardinality(Found(h)) = (IF h = f /\ tries >= 1 THEN 1 ELSE 0)
                                               + (IF Dist(h) + 1 < tries THEN 1 ELSE 0)

NInv == N!ScanTypeOK /\ ScanGoesOn

RangeBegins ==
  /\ network \in Interfaces /\ up \subseteq Hosts /\ tries = 0
  /\ testIP = N!First(network) /\ mask = N!First(network) /\ devices = <<>>

\* The search finds every host that it is to find, but for the one at the end of the byte,
\* whatever the addresses of the gateway and whichever hosts answer, for a byte of 1 to 8
\* bits (HTTP.cpp:118-190).
THEOREM SearchHolds == ServicesSpec => [](N!ScanTypeOK /\ FindsHosts)
<1>0. /\ Bits \in 1 .. 8 /\ Hosts \subseteq 0 .. 2^Bits - 1
      /\ Interfaces \subseteq [octet : 0 .. 2^Bits - 1, prefix : 1 .. 32]
  BY ScanAssumption
<1> DEFINE pow(n) == 2^n
<1>p. /\ pow(0) = 1 /\ pow(1) = 2 /\ pow(2) = 4 /\ pow(3) = 8 /\ pow(4) = 16 /\ pow(5) = 32
      /\ pow(6) = 64 /\ pow(7) = 128 /\ pow(8) = 256
  OBVIOUS
<1>a. N!Size = pow(Bits) /\ N!Size \in {2, 4, 8, 16, 32, 64, 128, 256}
  <2>1. N!Size = pow(Bits)
    BY DEF N!Size
  <2>2. Bits \in {1, 2, 3, 4, 5, 6, 7, 8}
    BY <1>0
  <2> HIDE DEF pow
  <2> QED
    BY <1>p, <2>1, <2>2
<1>b. ASSUME NEW i \in Interfaces
      PROVE  /\ pow(N!HostBits(i)) \in {1, 2, 4, 8, 16, 32, 64, 128, 256}
             /\ pow(N!HostBits(i)) <= N!Size
  <2>1. N!HostBits(i) \in Int /\ 0 <= N!HostBits(i) /\ N!HostBits(i) <= Bits
    BY <1>0 DEF N!HostBits
  <2>2. Bits \in {1, 2, 3, 4, 5, 6, 7, 8} /\ N!HostBits(i) \in {0, 1, 2, 3, 4, 5, 6, 7, 8}
    BY <1>0, <2>1
  <2> HIDE DEF N!HostBits, pow
  <2> QED
    BY <1>p, <1>a, <2>1, <2>2
\* A range is an interval that holds the addresses with its prefix.
<1>c. ASSUME NEW s \in {2, 4, 8, 16, 32, 64, 128, 256},
             NEW w \in {1, 2, 4, 8, 16, 32, 64, 128, 256}, w <= s, NEW o \in 0 .. s - 1
      PROVE  /\ o % w \in Int /\ 0 <= o - (o % w) /\ o - (o % w) + w <= s
             /\ \A h \in 0 .. s - 1 :
                  (h \div w) = (o \div w) <=> o - (o % w) <= h /\ h < o - (o % w) + w
  <2>1. CASE w = 1
    BY <1>c, <2>1
  <2>2. CASE w = 2
    BY <1>c, <2>2
  <2>3. CASE w = 4
    BY <1>c, <2>3
  <2>4. CASE w = 8
    BY <1>c, <2>4
  <2>5. CASE w = 16
    BY <1>c, <2>5
  <2>6. CASE w = 32
    BY <1>c, <2>6
  <2>7. CASE w = 64
    BY <1>c, <2>7
  <2>8. CASE w = 128
    BY <1>c, <2>8
  <2>9. CASE w = 256
    BY <1>c, <2>9
  <2> QED
    BY <2>1, <2>2, <2>3, <2>4, <2>5, <2>6, <2>7, <2>8, <2>9
<1>d. ASSUME NEW i \in Interfaces
      PROVE  /\ N!First(i) \in Int /\ N!Broadcast(i) \in Int /\ 0 <= N!First(i)
             /\ N!First(i) <= N!Broadcast(i) /\ N!Broadcast(i) < N!Size
             /\ \A h \in 0 .. N!Size - 1 :
                  (h \div (2^N!HostBits(i))) = (i.octet \div (2^N!HostBits(i)))
                    <=> N!First(i) <= h /\ h <= N!Broadcast(i)
  <2>1. i.octet \in 0 .. N!Size - 1
    BY <1>0 DEF N!Size
  <2> DEFINE w == pow(N!HostBits(i))
  <2> DEFINE s == N!Size
  <2>2. s \in {2, 4, 8, 16, 32, 64, 128, 256} /\ w \in {1, 2, 4, 8, 16, 32, 64, 128, 256} /\ w <= s
    BY <1>a, <1>b
  <2>3. N!First(i) = i.octet - (i.octet % w) /\ N!Broadcast(i) = N!First(i) + w - 1
    BY DEF N!First, N!Broadcast
  <2> HIDE DEF w, s
  <2>4. i.octet \in 0 .. s - 1
    BY <2>1 DEF s
  <2> DEFINE o == i.octet
  <2> HIDE DEF o
  <2>o. o \in 0 .. s - 1
    BY <2>4 DEF o
  <2>5. /\ o % w \in Int /\ 0 <= o - (o % w) /\ o - (o % w) + w <= s
        /\ \A h \in 0 .. s - 1 :
             (h \div w) = (o \div w)
               <=> o - (o % w) <= h /\ h < o - (o % w) + w
    BY <1>c, <2>2, <2>o
  <2> DEFINE f == o - (o % w)
  <2>6. f \in Int /\ w \in Int /\ w >= 1 /\ s \in Int
    BY <2>2, <2>o, <2>5
  <2>7. \A h \in 0 .. s - 1 : (h \div w) = (o \div w) <=> f <= h /\ h < f + w
    BY <2>5
  <2>8. N!First(i) = f /\ N!Broadcast(i) = f + w - 1 /\ 0 <= f /\ f + w <= s
    BY <2>3, <2>5 DEF o
  <2> HIDE DEF f
  <2>9. \A h \in 0 .. s - 1 : (h \div w) = (o \div w) <=> N!First(i) <= h /\ h <= N!Broadcast(i)
    BY SMTT(30), <2>6, <2>7, <2>8
  <2> QED
    BY <2>6, <2>8, <2>9 DEF w, s, o
<1>e. \A x \in 0 .. N!Size - 1 : (x + 1) % N!Size = IF x + 1 < N!Size THEN x + 1 ELSE 0
  <2> DEFINE s == N!Size
  <2>1. s \in {2, 4, 8, 16, 32, 64, 128, 256}
    BY <1>a
  <2> HIDE DEF s
  <2>2. \A x \in 0 .. s - 1 : (x + 1) % s = IF x + 1 < s THEN x + 1 ELSE 0
    BY <2>1
  <2> QED
    BY <2>2 DEF s
<1>f. N!Size \in Int /\ N!Size >= 2 /\ \A h \in Hosts : h \in Int /\ 0 <= h /\ h < N!Size
  BY <1>0, <1>a DEF N!Size
<1> HIDE DEF pow
\* A range begins.
<1>1. RangeBegins => NInv
  <2> SUFFICES ASSUME RangeBegins PROVE NInv
    OBVIOUS
  <2>0. /\ network \in Interfaces /\ up \subseteq Hosts /\ tries = 0
        /\ testIP = N!First(network) /\ mask = N!First(network) /\ devices = <<>>
    BY DEF RangeBegins
  <2>1. /\ N!First(network) \in Int /\ 0 <= N!First(network) /\ N!First(network) < N!Size
        /\ N!First(network) <= N!Broadcast(network) /\ N!Broadcast(network) \in Int
    BY <2>0, <1>d, <1>f
  <2>2. N!ScanTypeOK
    BY <2>0, <1>f, <2>1 DEF N!ScanTypeOK
  <2>3. \A h \in up : Cardinality(Found(h)) = 0 /\ Dist(h) >= 0 /\ Dist(h) \in Int
    <3>1. \A h : Found(h) = {}
      BY <2>0 DEF Found
    <3>2. Cardinality({}) = 0
      BY FS_EmptySet
    <3>3. ASSUME NEW h \in up PROVE Dist(h) >= 0 /\ Dist(h) \in Int
      <4>1. h \in Int /\ 0 <= h
        BY <1>f, <2>0
      <4> QED
        BY <1>f, <2>1, <4>1 DEF Dist
    <3> QED
      BY <3>1, <3>2, <3>3
  <2>4. ScanGoesOn
    BY <2>0, <1>f, <2>1, <2>3 DEF ScanGoesOn
  <2> QED
    BY <2>2, <2>4 DEF NInv
<1>g. (RangeBegins => NInv)'
  BY <1>1, PTL
<1>2. NInv /\ [N!ScanNext]_N!scanVars => NInv'
  <2> SUFFICES ASSUME NInv, [N!ScanNext]_N!scanVars PROVE NInv'
    OBVIOUS
  <2> DEFINE f == N!First(network)
  <2> DEFINE b == N!Broadcast(network)
  <2> DEFINE s == N!Size
  <2>0. /\ network \in Interfaces /\ up \subseteq Hosts /\ tries \in Int /\ 0 <= tries /\ tries <= s
        /\ testIP \in 0 .. s - 1 /\ mask \in 0 .. s - 1 /\ devices \in Seq(Hosts)
    BY <1>f DEF NInv, N!ScanTypeOK
  <2>f. /\ f \in Int /\ 0 <= f /\ f < s /\ f <= b /\ b < s /\ b \in Int /\ s \in Int /\ s >= 2
    BY <1>d, <1>f, <2>0
  <2>1. CASE N!Try
    <3>1. /\ testIP <= b /\ tries < s /\ tries' = tries + 1 /\ testIP' = mask
          /\ mask' = (mask + 1) % s
          /\ devices' = IF testIP \in up THEN Append(devices, testIP) ELSE devices
          /\ network' = network /\ up' = up
      BY <2>1 DEF N!Try, N!More
    <3>2. mask' = IF mask + 1 < s THEN mask + 1 ELSE 0
      BY <1>e, <2>0, <3>1
    <3>3. devices' \in Seq(Hosts)
      BY <2>0, <3>1
    <3>4. /\ mask = (IF f + tries < s THEN f + tries ELSE f + tries - s)
          /\ testIP = IF tries = 0 THEN f
                      ELSE IF f + (tries - 1) < s THEN f + (tries - 1) ELSE f + (tries - 1) - s
          /\ b < s - 1 => tries <= b - f + 2
      BY DEF NInv, ScanGoesOn
    <3>5. N!ScanTypeOK'
      BY <1>f, <2>0, <2>f, <3>1, <3>2, <3>3 DEF N!ScanTypeOK
    <3>6. f' = f /\ b' = b /\ s' = s
      BY <3>1 DEF N!First, N!Broadcast, N!HostBits, N!Size
    <3> HIDE DEF f, b, s
    <3>7. b < s - 1 => f + tries - 1 <= b /\ (tries = 0 \/ testIP = f + tries - 1)
      BY <2>0, <2>f, <3>1, <3>4
    <3>8. /\ mask' = (IF f + tries' < s THEN f + tries' ELSE f + tries' - s)
          /\ testIP' = IF tries' = 0 THEN f
                       ELSE IF f + (tries' - 1) < s THEN f + (tries' - 1) ELSE f + (tries' - 1) - s
          /\ b < s - 1 => tries' <= b - f + 2
      BY <2>0, <2>f, <3>1, <3>2, <3>4, <3>7
    <3>9. \A k \in DOMAIN devices' : b = s - 1 \/ (f <= devices'[k] /\ devices'[k] <= b)
      <4>1. \A k \in DOMAIN devices : b = s - 1 \/ (f <= devices[k] /\ devices[k] <= b)
        BY DEF NInv, ScanGoesOn, f, b, s
      <4>2. b < s - 1 => f <= testIP /\ testIP <= b
        BY <2>0, <2>f, <3>1, <3>4, <3>7
      <4>3. b = s - 1 \/ b < s - 1
        BY <2>f
      <4>4. CASE testIP \in up
        BY <2>0, <3>1, <4>1, <4>2, <4>3, <4>4
      <4> QED
        BY <3>1, <4>1, <4>4
    <3>10. ASSUME NEW h \in up
           PROVE  Cardinality(Found(h)') = Cardinality(Found(h)) + (IF h = testIP THEN 1 ELSE 0)
      <4>1. /\ Len(devices) \in Nat /\ DOMAIN devices = 1 .. Len(devices)
            /\ Found(h) \subseteq 1 .. Len(devices)
        BY <2>0 DEF Found
      <4>2. IsFiniteSet(Found(h)) /\ Cardinality(Found(h)) \in Nat
        <5>1. IsFiniteSet(1 .. Len(devices))
          BY <4>1, FS_Interval
        <5>2. IsFiniteSet(Found(h))
          BY <4>1, <5>1, FS_Subset
        <5> QED
          BY <5>2, FS_CardinalityType
      <4>3. CASE h = testIP
        <5>1. /\ DOMAIN devices' = 1 .. (Len(devices) + 1)
              /\ \A k \in 1 .. Len(devices) : devices'[k] = devices[k]
              /\ devices'[Len(devices) + 1] = h
          BY <2>0, <3>1, <4>3
        <5>2. Found(h)' = Found(h) \cup {Len(devices) + 1}
          BY <4>1, <5>1 DEF Found
        <5>3. Len(devices) + 1 \notin Found(h)
          BY <4>1
        <5>4. Cardinality(Found(h) \cup {Len(devices) + 1}) = Cardinality(Found(h)) + 1
          BY <4>2, <5>3, FS_AddElement
        <5> QED
          BY <4>3, <5>2, <5>4
      <4>4. CASE h # testIP
        <5>1. Found(h)' = Found(h)
          <6>1. CASE testIP \in up
            <7>1. /\ DOMAIN devices' = 1 .. (Len(devices) + 1)
                  /\ \A k \in 1 .. Len(devices) : devices'[k] = devices[k]
                  /\ devices'[Len(devices) + 1] # h
              BY <2>0, <3>1, <4>4, <6>1
            <7> QED
              BY <4>1, <7>1 DEF Found
          <6> QED
            BY <3>1, <6>1 DEF Found
        <5> QED
          BY <4>2, <4>4, <5>1
      <4> QED
        BY <4>3, <4>4
    <3>11. ASSUME NEW h \in up
           PROVE  Cardinality(Found(h)') = (IF h = f /\ tries' >= 1 THEN 1 ELSE 0)
                                           + (IF Dist(h) + 1 < tries' THEN 1 ELSE 0)
      <4>1. Cardinality(Found(h)) = (IF h = f /\ tries >= 1 THEN 1 ELSE 0)
                                    + (IF Dist(h) + 1 < tries THEN 1 ELSE 0)
        BY DEF NInv, ScanGoesOn, f
      <4>2. Dist(h) = IF h >= f THEN h - f ELSE h - f + s
        BY DEF Dist, f, s
      <4>3. h \in Int /\ 0 <= h /\ h < s
        BY <1>f, <2>0 DEF s
      <4> HIDE DEF Dist
      <4>4. Dist(h) \in Int /\ 0 <= Dist(h) /\ Dist(h) < s /\ (Dist(h) = 0 <=> h = f)
            /\ (tries >= 1 => (h = testIP <=> Dist(h) = tries - 1))
        <5>1. CASE h >= f
          BY <2>0, <2>f, <3>1, <3>4, <4>2, <4>3, <5>1
        <5>2. CASE h < f
          BY <2>0, <2>f, <3>1, <3>4, <4>2, <4>3, <5>2
        <5> QED
          BY <2>f, <4>3, <5>1, <5>2
      <4>5. CASE tries = 0
        BY <2>f, <3>1, <3>4, <3>10, <4>1, <4>3, <4>4, <4>5
      <4>6. CASE tries >= 1
        BY <2>0, <2>f, <3>1, <3>4, <3>10, <4>1, <4>3, <4>4, <4>6
      <4> QED
        BY <2>0, <4>5, <4>6
    <3>12. \A h : Dist(h)' = Dist(h)
      BY <3>1 DEF Dist, N!First, N!HostBits, N!Size
    <3>13. ScanGoesOn'
      BY <3>1, <3>6, <3>8, <3>9, <3>11, <3>12 DEF ScanGoesOn, f, b, s
    <3> QED
      BY <3>5, <3>13 DEF NInv
  <2>2. CASE N!NextRange
    BY <1>g, <2>2 DEF N!NextRange, RangeBegins
  <2>3. CASE UNCHANGED N!scanVars
    BY <2>3 DEF N!scanVars, NInv, N!ScanTypeOK, ScanGoesOn, Found, Dist, N!First, N!Broadcast,
                N!HostBits
  <2> QED
    BY <2>1, <2>2, <2>3 DEF N!ScanNext
<1>3. NInv => N!ScanTypeOK /\ N!FindsHosts
  <2> SUFFICES ASSUME NInv PROVE N!FindsHosts
    BY DEF NInv
  <2> SUFFICES ASSUME ~N!More PROVE N!FindsHosts
    BY DEF N!FindsHosts
  <2> DEFINE f == N!First(network)
  <2> DEFINE b == N!Broadcast(network)
  <2> DEFINE s == N!Size
  <2>0. /\ network \in Interfaces /\ up \subseteq Hosts /\ tries \in Int /\ 0 <= tries /\ tries <= s
        /\ testIP \in 0 .. s - 1 /\ devices \in Seq(Hosts)
    BY <1>f DEF NInv, N!ScanTypeOK
  <2>f. /\ f \in Int /\ 0 <= f /\ f < s /\ f <= b /\ b < s /\ b \in Int /\ s \in Int /\ s >= 2
    BY <1>d, <1>f, <2>0
  <2>1. \A h \in 0 .. s - 1 : N!InRange(h) <=> f <= h /\ h <= b
    BY <1>d, <2>0 DEF N!InRange
  <2>2. /\ testIP = IF tries = 0 THEN f
                    ELSE IF f + (tries - 1) < s THEN f + (tries - 1) ELSE f + (tries - 1) - s
        /\ b < s - 1 => tries <= b - f + 2
        /\ \A k \in DOMAIN devices : b = s - 1 \/ (f <= devices[k] /\ devices[k] <= b)
    BY DEF NInv, ScanGoesOn
  <2>3. testIP > b \/ tries = s
    BY <2>0, <2>f DEF N!More
  <2> HIDE DEF f, b, s
  <2>4. \A k \in DOMAIN devices : N!InRange(devices[k]) \/ N!InRange(s - 1)
    <3>1. b = s - 1 => N!InRange(s - 1)
      BY <2>1, <2>f
    <3>2. \A k \in DOMAIN devices : devices[k] \in 0 .. s - 1
      BY <1>f, <2>0 DEF s
    <3> QED
      BY <2>1, <2>2, <3>1, <3>2
  <2>5. ASSUME NEW h \in up, N!InRange(h), h # s - 1
        PROVE  Cardinality(Found(h)) = IF h = f THEN 2 ELSE 1
    <3>1. h \in Int /\ 0 <= h /\ h < s
      BY <1>f, <2>0 DEF s
    <3>2. f <= h /\ h <= b
      BY <2>1, <2>5, <3>1, <2>f
    <3>3. Cardinality(Found(h)) = (IF h = f /\ tries >= 1 THEN 1 ELSE 0)
                                  + (IF Dist(h) + 1 < tries THEN 1 ELSE 0)
      BY DEF NInv, ScanGoesOn, f
    <3>4. Dist(h) = h - f
      BY <2>f, <3>1, <3>2 DEF Dist, f
    <3>5. tries = s \/ (b < s - 1 /\ tries = b - f + 2)
      BY <2>0, <2>2, <2>3, <2>f
    <3>6. h - f + 1 < tries /\ tries >= 1
      BY <2>0, <2>5, <2>f, <3>1, <3>2, <3>5
    <3> QED
      BY <2>f, <3>1, <3>3, <3>4, <3>6
  <2>6. \A h \in up : N!InRange(h) /\ h # N!Size - 1 =>
          Cardinality({k \in DOMAIN devices : devices[k] = h}) =
            IF h = N!First(network) THEN 2 ELSE 1
    <3> SUFFICES ASSUME NEW h \in up, N!InRange(h), h # N!Size - 1
                 PROVE  Cardinality(Found(h)) = IF h = N!First(network) THEN 2 ELSE 1
      BY DEF Found
    <3> QED
      BY <2>5 DEF f, s
  <2>7. \A S : N!Cardinality(S) = Cardinality(S)
    BY DEF N!Cardinality, Cardinality
  <2> QED
    BY <2>4, <2>6, <2>7 DEF N!FindsHosts, s
<1>4. N!ScanInit => NInv
  BY <1>1 DEF N!ScanInit, RangeBegins
<1> QED
  BY <1>2, <1>3, <1>4, PartsRun, PTL DEF FindsHosts

-----------------------------------------------------------------------------
(* The WeMo switch under two threads (BelkinSwitch). *)

\* Threads that have pushed and not yet sent.
Unsent == (IF bkpc["module"] = "send" THEN 1 ELSE 0) + (IF bkpc["command"] = "send" THEN 1 ELSE 0)

\* The vector grows with what is sent.
LengthIsRight ==
  /\ tells \in Nat /\ view \in {0, 1, W!Unknown}
  /\ Len(values) <= tells + Unsent
  /\ \A t \in W!Askers : length[t] <= tells + Unsent /\ (bkpc[t] = "send" => values # <<>>)

SwitchTypes ==
  /\ wemo \in {0, 1} /\ values \in Seq({0, 1}) /\ clean \subseteq W!Askers
  /\ bkpc \in [W!Askers -> {"rest", "ask", "push", "write", "send", "gone"}]
  /\ answer \in [W!Askers -> {0, 1}] /\ length \in [W!Askers -> Nat]

\* In a round that is not disturbed, the other thread is at rest, the answer is what the
\* switch shows, and what is sent is the last of the vector.
RoundIsOwn(t) ==
  t \in clean =>
    /\ bkpc[W!OtherAsker(t)] \in {"rest", "gone"}
    /\ bkpc[t] \in {"push", "write", "send"} => answer[t] = wemo
    /\ bkpc[t] = "send" => W!Last(values) = answer[t]

WBase == SwitchTypes /\ W!ServerKnowsSwitch /\ \A t \in W!Askers : RoundIsOwn(t)

\* What is Boolean is kept apart from what is counted.
WFlags == terminated \in BOOLEAN /\ settled \in BOOLEAN
WInv == WBase /\ WFlags /\ LengthIsRight


-----------------------------------------------------------------------------
(* Messages of the coordinator (PanMessages). *)

\* q is the quotient and r the rest of x and p.
Divided(x, p, q, r) ==
  x \in Int /\ p \in Nat \ {0} /\ q \in Int /\ r \in 0..(p - 1) /\ x = p * q + r

\* The division of the language, for numbers below 0 too, is the only one
\* (the shifts and masks of PanInterface.cpp:81-139, 215-258).
LEMMA Quotient ==
  ASSUME NEW x \in Int, NEW p \in Nat \ {0}
  PROVE  /\ Divided(x, p, x \div p, x % p)
         /\ \A q, r : Divided(x, p, q, r) => x \div p = q /\ x % p = r
<1> DEFINE a == x \div p
           b == x % p
<1>1. x = p * a + b /\ b \in 0..(p - 1) /\ a \in Int
  BY SMT
<1>0. Divided(x, p, x \div p, x % p)
  BY <1>1 DEF Divided
<1> HIDE DEF a, b
<1>2. SUFFICES ASSUME NEW q \in Int, NEW r \in 0..(p - 1), x = p * q + r PROVE a = q /\ b = r
  BY <1>0 DEF Divided, a, b
<1> DEFINE d == q - a
<1>3. d \in Int /\ p * d = b - r /\ -p < b - r /\ b - r < p
  BY <1>1, <1>2
<1> HIDE DEF d
<1>4. ~(d >= 1)
  <2> SUFFICES ASSUME d >= 1 PROVE FALSE
    OBVIOUS
  <2>1. p * (d - 1) >= 0
    BY <1>3
  <2> QED
    BY <1>3, <2>1
<1>5. ~(d <= -1)
  <2> SUFFICES ASSUME d <= -1 PROVE FALSE
    OBVIOUS
  <2>1. p * (-d - 1) >= 0
    BY <1>3
  <2> QED
    BY <1>3, <2>1
<1>6. d = 0
  BY <1>3, <1>4, <1>5
<1>7. q = a
  BY <1>1, <1>6 DEF d
<1> QED
  BY <1>1, <1>2, <1>7

\* The identifiers of modules are small, the sizes and the factors a few
\* (device_table.h).
LEMMA Table ==
  /\ \A d : P!Modules(d) \subseteq 0..300
  /\ \A t : P!Size(t) \in {1, 2, 4} /\ P!Scale(t) \in {1, 100, 1000}
<1>1. ASSUME NEW d \in P!Known PROVE DOMAIN P!TT[d] \subseteq 0..300
  <2> DEFINE Small(f) == DOMAIN f \subseteq 0..300
  <2>r. ASSUME NEW s, Len(s) \in 0..300 PROVE Small(P!Row(s))
    <3> DEFINE n == Len(s)
    <3>1. DOMAIN P!Row(s) = 0..(n - 1)
      BY DEF P!Row
    <3>2. n \in 0..300
      BY <2>r
    <3> HIDE DEF n
    <3>3. 0..(n - 1) \subseteq 0..300
      BY <3>2
    <3> QED
      BY <3>1, <3>3
  <2>1. CASE d = 1
    <3>1. P!TT[d] = P!Boiler
      BY <1>1, <2>1 DEF P!TT
    <3>2. DOMAIN P!Boiler = 0..25
      BY DEF P!Boiler
    <3> QED
      BY <3>1, <3>2
  <2>2. CASE d = 6
    <3>1. P!TT[d] = P!Heating
      BY <1>1, <2>2 DEF P!TT
    <3>2. DOMAIN P!Heating = P!InZone \cup (56..63) \cup {300}
      BY DEF P!Heating
    <3> QED
      BY <3>1, <3>2 DEF P!InZone
  <2> HIDE DEF Small
  <2>3. CASE d \in {0} \cup (2..5) \cup (7..13)
    <3>0. DOMAIN P!Sensors = {0} \cup (2..5) \cup (7..13)
      BY DEF P!Sensors
    <3>1. P!TT[d] = P!Sensors[d]
      BY <1>1, <2>3, <3>0 DEF P!TT
    <3>2. \E s : Len(s) \in 0..300 /\ P!Sensors[d] = P!Row(s)
      BY <2>3 DEF P!Sensors, P!Battery, P!Rssi, P!Refresh, P!OnOff
    <3> QED
      BY <3>1, <3>2, <2>r DEF Small
  <2>4. CASE d \in (14..36) \ {23}
    <3>0. DOMAIN P!Sensors = {0} \cup (2..5) \cup (7..13)
      BY DEF P!Sensors
    <3>1. P!TT[d] = P!Others[d]
      BY <1>1, <2>4, <3>0 DEF P!TT
    <3>2. \E s : Len(s) \in 0..300 /\ P!Others[d] = P!Row(s)
      BY <2>4 DEF P!Others, P!Battery, P!Rssi, P!Refresh, P!OnOff
    <3> QED
      BY <3>1, <3>2, <2>r DEF Small
  <2>5. \/ d = 1 \/ d = 6 \/ d \in {0} \cup (2..5) \cup (7..13) \/ d \in (14..36) \ {23}
    BY <1>1 DEF P!Known
  <2> QED
    BY <2>1, <2>2, <2>3, <2>4, <2>5 DEF Small
<1> QED
  BY <1>1 DEF P!Modules, P!Size, P!Scale, P!Battery

\* k bytes can say Pow[k] numbers, each byte Base of them (PanInterface.cpp:123-137).
LEMMA Powers ==
  /\ P!Pow[0] = 1
  /\ \A k \in Nat : P!Pow[k] \in Nat \ {0} /\ P!Pow[k + 1] = Base * P!Pow[k]
<1> USE PanAssumption
<1> DEFINE T == Nat \ {0}
           h == [n \in Nat |-> [x \in T |-> Base * x]]
           Whole(g) == g = [k \in Nat |-> IF k = 0 THEN 1 ELSE Base * g[k - 1]]
<1>1. h \in [Nat -> [T -> T]] /\ 1 \in T
  OBVIOUS
<1>2. PICK f \in [Nat -> T] : f[0] = 1 /\ \A n \in Nat : f[n + 1] = h[n][f[n]]
  <2> HIDE DEF h, T
  <2>1. \E f \in [Nat -> T] : Recurs(f, 1, h)
    BY <1>1, Recursion
  <2> QED
    BY <2>1 DEF Recurs
<1>3. Whole(f)
  <2> DEFINE g == [k \in Nat |-> IF k = 0 THEN 1 ELSE Base * f[k - 1]]
  <2>1. ASSUME NEW k \in Nat PROVE f[k] = g[k]
    <3>1. CASE k = 0
      BY <1>2, <3>1
    <3>2. CASE k # 0
      <4>1. k - 1 \in Nat /\ (k - 1) + 1 = k
        BY <3>2
      <4>2. f[k] = h[k - 1][f[k - 1]]
        BY <1>2, <4>1
      <4>3. f[k - 1] \in T
        BY <1>2, <4>1
      <4> HIDE DEF T
      <4>4. f[k] = Base * f[k - 1]
        BY <4>1, <4>2, <4>3
      <4> QED
        BY <4>4, <3>2
    <3> QED
      BY <3>1, <3>2
  <2> HIDE DEF g, h, T
  <2>2. f = [k \in Nat |-> f[k]]
    BY <1>2
  <2>3. f = g
    BY <2>1, <2>2 DEF g
  <2> QED
    BY <2>3 DEF g
<1>4. P!Pow = CHOOSE g : Whole(g)
  BY DEF P!Pow
<1>5. Whole(P!Pow)
  <2> HIDE DEF Whole
  <2> QED
    BY <1>3, <1>4
<1>6. P!Pow[0] = 1
  BY <1>5
<1>7. \A k \in Nat : P!Pow[k + 1] = Base * P!Pow[k]
  <2> SUFFICES ASSUME NEW k \in Nat PROVE P!Pow[k + 1] = Base * P!Pow[k]
    OBVIOUS
  <2>1. k + 1 \in Nat /\ k + 1 # 0 /\ (k + 1) - 1 = k
    OBVIOUS
  <2> QED
    BY <1>5, <2>1
<1>8. ASSUME NEW k \in Nat PROVE P!Pow[k] \in T
  <2> DEFINE S == {i \in 0..k : P!Pow[i] \in T}
  <2>1. 0 \in S
    BY <1>6
  <2>2. ASSUME NEW i \in 1..k, i - 1 \in S PROVE i \in S
    <3>1. i - 1 \in Nat /\ (i - 1) + 1 = i /\ i \in 0..k
      OBVIOUS
    <3>2. P!Pow[i] = Base * P!Pow[i - 1] /\ P!Pow[i - 1] \in Nat \ {0}
      BY <1>7, <2>2, <3>1
    <3> QED
      BY <3>1, <3>2
  <2>3. k \in 0..k
    OBVIOUS
  <2> HIDE DEF S
  <2>4. k \in S
    BY <2>1, <2>2, <2>3, Counting
  <2> QED
    BY <2>4 DEF S
<1> QED
  BY <1>6, <1>7, <1>8

\* A number in k bytes is the number up to a multiple of the power
\* (PanInterface.cpp:123-137, 215-227).
LEMMA Digits ==
  ASSUME NEW n \in Int, NEW k \in Nat
  PROVE  /\ P!Bytes(n, k) \in Seq(Int) /\ Len(P!Bytes(n, k)) = k
         /\ \A i \in 1..k : P!Bytes(n, k)[i] \in Int
         /\ P!Number(P!Bytes(n, k)) = n % P!Pow[k]
<1>s. ASSUME NEW x, NEW B, NEW Q, NEW a, NEW b, NEW c, NEW d, Divided(x, B, a, b), Divided(a, Q, c, d)
      PROVE  Divided(x, B * Q, c, B * d + b)
  <2>1. x = B * a + b /\ a = Q * c + d /\ B \in Nat \ {0} /\ Q \in Nat \ {0}
        /\ b \in 0..(B - 1) /\ d \in 0..(Q - 1) /\ a \in Int /\ c \in Int /\ x \in Int
    BY <1>s DEF Divided
  <2>2. x = (B * Q) * c + (B * d + b)
    BY <2>1
  <2>3. B * d + b \in 0..(B * Q - 1) /\ B * Q \in Nat \ {0}
    <3>1. B * d <= B * (Q - 1)
      BY <2>1
    <3> QED
      BY <2>1, <3>1
  <2> QED
    BY <2>1, <2>2, <2>3 DEF Divided
<1> USE PanAssumption
<1> DEFINE bytes == P!Bytes(n, k)
           Whole(g) == g = [i \in 0..Len(bytes) |-> IF i = 0 THEN 0 ELSE Base * g[i - 1] + bytes[i]]
           c == [i \in 0..k |-> (n \div P!Pow[k - i]) % P!Pow[i]]
           upTo == CHOOSE g : Whole(g)
<1>1. bytes = [i \in 1..k |-> (n \div P!Pow[k - i]) % Base]
  BY DEF P!Bytes
<1>2. ASSUME NEW i \in 0..k PROVE P!Pow[k - i] \in Nat \ {0} /\ P!Pow[i] \in Nat \ {0}
  <2>1. k - i \in Nat /\ i \in Nat
    OBVIOUS
  <2> QED
    BY <2>1, Powers
<1>3. \A i \in 1..k : bytes[i] \in Int
  <2> SUFFICES ASSUME NEW i \in 1..k PROVE (n \div P!Pow[k - i]) % Base \in Int
    BY <1>1
  <2>1. P!Pow[k - i] \in Nat \ {0}
    BY <1>2
  <2>2. n \div P!Pow[k - i] \in Int
    BY <2>1
  <2> QED
    BY <2>2
<1>4. bytes \in Seq(Int) /\ Len(bytes) = k
  <2>1. bytes \in [1..k -> Int]
    BY <1>1, <1>3
  <2> HIDE DEF bytes
  <2> QED
    BY <2>1
<1>5. ASSUME NEW i \in 1..k PROVE c[i] = Base * c[i - 1] + bytes[i]
  <2>1. i - 1 \in Nat /\ i - 1 \in 0..k /\ i \in 0..k /\ (i - 1) + 1 = i /\ k - i \in Nat
        /\ k - (i - 1) = (k - i) + 1
    OBVIOUS
  <2> DEFINE x == n \div P!Pow[k - i]
             Q == P!Pow[i - 1]
             u == x \div Base
             v == u % Q
             w == x % Base
  <2>2. P!Pow[k - i] \in Nat \ {0} /\ Q \in Nat \ {0} /\ P!Pow[i] = Base * Q
        /\ P!Pow[k - (i - 1)] = Base * P!Pow[k - i]
    BY <2>1, Powers
  <2>3. x \in Int /\ u \in Int
    BY <2>2
  <2>4. n \div P!Pow[k - (i - 1)] = u
    <3> DEFINE p == P!Pow[k - i]
    <3>1. p \in Nat \ {0} /\ P!Pow[k - (i - 1)] = p * Base /\ x = n \div p /\ p * Base \in Nat \ {0}
      BY <2>2
    <3> DEFINE b == n % p
    <3> HIDE DEF p, x, u, w
    <3>2. Divided(n, p, x, b) /\ Divided(x, Base, u, w)
      BY <2>3, <3>1, Quotient DEF b, u, w
    <3> HIDE DEF b
    <3>3. Divided(n, p * Base, u, p * w + b)
      BY <3>2, <1>s
    <3> QED
      BY <3>1, <3>3, Quotient
  <2>5. Base * v + w = x % (Base * Q)
    <3> DEFINE z == u \div Q
    <3> HIDE DEF x, Q, u
    <3>1. Divided(x, Base, u, w) /\ Divided(u, Q, z, v)
      BY <2>2, <2>3, Quotient DEF u
    <3> HIDE DEF v, w, z
    <3>2. Divided(x, Base * Q, z, Base * v + w)
      BY <3>1, <1>s
    <3>3. Base * Q \in Nat \ {0}
      BY <2>2
    <3> QED
      BY <2>3, <3>2, <3>3, Quotient
  <2>6. c[i - 1] = v
    BY <2>1, <2>4
  <2>7. c[i] = x % (Base * Q)
    BY <2>1, <2>2
  <2>8. bytes[i] = w
    BY <1>1
  <2> HIDE DEF x, Q, c, bytes, u, v, w
  <2> QED
    BY <2>5, <2>6, <2>7, <2>8
<1>6. c[0] = 0
  <2>1. k - 0 = k /\ 0 \in 0..k
    OBVIOUS
  <2>2. n \div P!Pow[k] \in Int
    BY <1>2, Powers
  <2> QED
    BY <2>1, <2>2, Powers
<1> HIDE DEF bytes
<1>7. Whole(c)
  <2> DEFINE w == [i \in 0..k |-> IF i = 0 THEN 0 ELSE Base * c[i - 1] + bytes[i]]
  <2>1. ASSUME NEW i \in 0..k PROVE c[i] = w[i]
    <3>1. i = 0 \/ i \in 1..k
      OBVIOUS
    <3> HIDE DEF c
    <3> QED
      BY <1>5, <1>6, <3>1
  <2>2. c = [i \in 0..k |-> c[i]]
    OBVIOUS
  <2> HIDE DEF c, w
  <2>3. c = w
    BY <2>1, <2>2 DEF w
  <2> QED
    BY <1>4, <2>3 DEF w
<1>8. Whole(upTo)
  <2> HIDE DEF Whole, c
  <2> QED
    BY <1>7
<1>9. P!Number(bytes) = upTo[Len(bytes)]
  BY DEF P!Number
<1> HIDE DEF upTo
<1>10. upTo[k] = c[k]
  <2> DEFINE S == {i \in 0..k : upTo[i] = c[i]}
  <2> HIDE DEF c
  <2>1. 0 \in S
    BY <1>4, <1>6, <1>8
  <2>2. ASSUME NEW i \in 1..k, i - 1 \in S PROVE i \in S
    <3>1. upTo[i] = Base * upTo[i - 1] + bytes[i]
      BY <1>4, <1>8
    <3> QED
      BY <1>5, <2>2, <3>1
  <2>3. k \in 0..k
    OBVIOUS
  <2> HIDE DEF S
  <2>4. k \in S
    BY <2>1, <2>2, <2>3, Counting
  <2> QED
    BY <2>4 DEF S
<1>11. c[k] = n % P!Pow[k]
  <2>1. k - k = 0 /\ k \in 0..k /\ n \div 1 = n
    OBVIOUS
  <2> QED
    BY <2>1, Powers
<1> QED
  BY <1>3, <1>4, <1>9, <1>10, <1>11 DEF bytes

\* A list of readings or orders has integers, and is empty if it has no element: the loops
\* over it go by its length (PanInterface.cpp:111-137, 208-262).
LEMMA ListFacts ==
  ASSUME NEW d, NEW numbers \in SUBSET Int, NEW rs \in P!Lists(d, numbers)
  PROVE  /\ Len(rs) \in Nat /\ DOMAIN rs = 1..Len(rs)
         /\ \A i \in 1..Len(rs) : rs[i].number \in Int
         /\ rs = <<>> <=> Len(rs) = 0
<1> DEFINE one == {[module |-> m, number |-> n] : m \in (P!Modules(d) \cap Chosen) \cup {99}, n \in numbers}
<1>1. PICK n \in 0..MaxReadings : rs \in [1..n -> one]
  BY DEF P!Lists
<1>2. n \in Nat /\ Len(rs) = n /\ DOMAIN rs = 1..n
  BY <1>1, PanAssumption
<1>3. ASSUME NEW x \in one PROVE x.number \in Int
  <2>1. PICK k \in (P!Modules(d) \cap Chosen) \cup {99}, z \in numbers : x = [module |-> k, number |-> z]
    OBVIOUS
  <2>2. x.number = z
    BY <2>1
  <2>3. z \in Int
    OBVIOUS
  <2> QED
    BY <2>2, <2>3
<1> HIDE DEF one
<1>4. rs = <<>> <=> n = 0
  BY <1>1, <1>2
<1> QED
  BY <1>1, <1>2, <1>3, <1>4

\* The strength of the signal, as the server is told it, and the modules that have it.
SignalOf(m, st) == [module |-> m, number |-> 1000 * st, status |-> TRUE]
WithSignal(d) == {m \in P!Modules(d) : P!TT[d][m] = P!Rssi}

\* What the server is told of a reading that came whole.
ValueOf(d, r) ==
  P!ServerValue(d, r.module, P!OriginalValue(P!Size(P!TT[d][r.module]),
                                             P!Bytes(r.number, P!Size(P!TT[d][r.module]))))

\* A report of the coordinator's, and what the gateway makes of its bytes.
ReportOf(d, st, c, rs) ==
  [address |-> 7, device |-> d, strength |-> st, readings |-> rs, closed |-> c]

ParsedOf(m) ==
  P!Parsed(m.device, SubSeq(P!Received(m), 6, Len(P!Received(m))), P!Received(m)[5])

\* The loop over the bytes is in step with the readings that were written, each as long as
\* its type says; without the last byte it ends at the last reading, whose bytes are too few
\* (PanInterface.cpp:195-262, MosqClient.cpp:56-80).
LEMMA ParsedFacts ==
  ASSUME NEW d \in P!Known, NEW c \in BOOLEAN, NEW n \in Nat, NEW rs, DOMAIN rs = 1..n, Len(rs) = n,
         \A i \in 1..n : rs[i].module \in P!Modules(d) /\ rs[i].module < 256 /\ rs[i].number \in Int,
         NEW st \in Int, c \/ n > 0
  PROVE  LET m == ReportOf(d, st, c, rs)
         IN  /\ Len(P!Received(m)) \in Nat /\ Len(P!Received(m)) >= 5
             /\ P!Received(m)[2] = 7 /\ P!Received(m)[3] = st
             /\ ParsedOf(m).ok = c
             /\ c => ParsedOf(m).values = [i \in 1..n |-> ValueOf(d, rs[i])]
<1> DEFINE m == ReportOf(d, st, c, rs)
           one(i) == P!SentReading(d, rs[i])
           k(i) == P!Size(P!TT[d][rs[i].module])
           number(i) == P!Bytes(rs[i].number, k(i))
           written == [i \in 1..n |-> one(i)]
           flat == FlattenSeq(written)
           head == <<1, 7, st, d, n>>
           bytes == P!Received(m)
           body == SubSeq(bytes, 6, Len(bytes))
<1>c. ASSUME NEW p \in Seq(Int), NEW q \in Seq(Int)
      PROVE  /\ p \o q \in Seq(Int) /\ Len(p \o q) = Len(p) + Len(q)
             /\ \A j \in 1..Len(p) : (p \o q)[j] = p[j]
             /\ \A j \in 1..Len(q) : (p \o q)[Len(p) + j] = q[j]
  OBVIOUS
<1>1. ASSUME NEW i \in 1..n
      PROVE  /\ k(i) \in Nat /\ k(i) >= 1 /\ rs[i].module \in Int
             /\ one(i) \in Seq(Int) /\ Len(one(i)) = 1 + k(i) /\ one(i)[1] = rs[i].module
             /\ \A j \in 1..k(i) : one(i)[1 + j] = number(i)[j]
             /\ number(i) \in Seq(Int) /\ Len(number(i)) = k(i)
  <2>1. k(i) \in Nat /\ k(i) >= 1
    BY Table
  <2>2. rs[i].module \in Nat /\ rs[i].module % 256 = rs[i].module
    <3>1. rs[i].module \in 0..300 /\ rs[i].module < 256
      BY Table
    <3> DEFINE x == rs[i].module
    <3> HIDE DEF x
    <3>2. x \in 0..300 /\ x < 256
      BY <3>1 DEF x
    <3>3. x \in Nat /\ x % 256 = x
      BY <3>2
    <3> QED
      BY <3>3 DEF x
  <2>3. one(i) = <<rs[i].module>> \o number(i)
    BY <2>2 DEF P!SentReading
  <2>4. number(i) \in Seq(Int) /\ Len(number(i)) = k(i)
    <3> DEFINE z == k(i)
    <3> HIDE DEF z
    <3>1. P!Bytes(rs[i].number, z) \in Seq(Int) /\ Len(P!Bytes(rs[i].number, z)) = z
      BY <2>1, Digits DEF z
    <3> QED
      BY <3>1 DEF z
  <2> HIDE DEF one, number, k
  <2>5. <<rs[i].module>> \in Seq(Int) /\ Len(<<rs[i].module>>) = 1
    BY <2>2
  <2>6. /\ one(i) \in Seq(Int) /\ Len(one(i)) = 1 + k(i) /\ one(i)[1] = rs[i].module
        /\ \A j \in 1..k(i) : one(i)[1 + j] = number(i)[j]
    BY <2>1, <2>2, <2>3, <2>4, <2>5
  <2> QED
    BY <2>1, <2>2, <2>4, <2>6
<1>2. written \in Seq(Seq(Int)) /\ Len(written) = n /\ \A i \in 1..n : written[i] = one(i)
  <2> HIDE DEF one
  <2> QED
    BY <1>1
<1>3. flat \in Seq(Int) /\ \E upTo \in [0..n -> Nat] : Ends(written, upTo)
  <2> HIDE DEF written
  <2> QED
    BY <1>2, FlattenFacts
<1>4. PICK upTo \in [0..n -> Nat] : Ends(written, upTo)
  BY <1>3
<1>5. /\ upTo[0] = 0 /\ upTo[n] = Len(flat)
      /\ \A i \in 1..n :
           /\ upTo[i] = upTo[i - 1] + 1 + k(i) /\ \A j \in i..n : upTo[i] <= upTo[j]
           /\ flat[upTo[i - 1] + 1] = rs[i].module
           /\ \A j \in 1..k(i) : flat[upTo[i - 1] + 1 + j] = number(i)[j]
  <2> HIDE DEF written, one, k, number
  <2>1. upTo[0] = 0 /\ upTo[n] = Len(flat)
    BY <1>2, <1>4 DEF Ends
  <2>2. ASSUME NEW i \in 1..n
        PROVE  /\ upTo[i] = upTo[i - 1] + 1 + k(i) /\ \A j \in i..n : upTo[i] <= upTo[j]
               /\ flat[upTo[i - 1] + 1] = rs[i].module
               /\ \A j \in 1..k(i) : flat[upTo[i - 1] + 1 + j] = number(i)[j]
    <3>1. /\ upTo[i] = upTo[i - 1] + Len(one(i)) /\ \A j \in i..n : upTo[i] <= upTo[j]
          /\ \A j \in 1..Len(one(i)) : flat[upTo[i - 1] + j] = one(i)[j]
      BY SMTT(30), <1>2, <1>4 DEF Ends
    <3>2. upTo[i - 1] \in Nat
      OBVIOUS
    <3> HIDE DEF flat
    <3> DEFINE x == k(i)
               y == Len(one(i))
               u == upTo[i - 1]
    <3>7. x \in Nat /\ y = 1 + x /\ u \in Nat /\ upTo[i] = u + y
      BY <1>1, <3>1, <3>2
    <3> HIDE DEF x, y, u
    <3>8. \A j \in 1..x : 1 + j \in 1..y /\ u + (1 + j) = u + 1 + j
      BY <3>7
    <3>9. upTo[i] = u + 1 + x
      BY <3>7
    <3>3. \A j \in 1..k(i) : 1 + j \in 1..Len(one(i)) /\ upTo[i - 1] + (1 + j) = upTo[i - 1] + 1 + j
      BY <3>8 DEF x, y, u
    <3>4. \A j \in 1..k(i) : flat[upTo[i - 1] + 1 + j] = number(i)[j]
      BY <1>1, <3>1, <3>3
    <3>5. 1 \in 1..Len(one(i))
      BY SMTT(30), <1>1
    <3>6. upTo[i] = upTo[i - 1] + 1 + k(i)
      BY <3>9 DEF x, u
    <3> QED
      BY <1>1, <3>1, <3>4, <3>5, <3>6
  <2> QED
    BY <2>1, <2>2
<1> DEFINE long == Len(flat) - (IF c THEN 0 ELSE 1)
<1>6. /\ Len(bytes) = 5 + long /\ long \in Nat /\ bytes[2] = 7 /\ bytes[3] = st /\ bytes[5] = n
      /\ body \in Seq(Int) /\ Len(body) = long /\ \A j \in 1..long : body[j] = flat[j]
  <2>1. P!SentBytes(m) = head \o flat
    BY DEF P!SentBytes, P!FlattenSeq, FlattenSeq, ReportOf
  <2>2. bytes = IF c THEN head \o flat ELSE P!Front(head \o flat)
    BY <2>1 DEF P!Received, ReportOf
  <2>3. head \in Seq(Int) /\ Len(head) = 5 /\ head[2] = 7 /\ head[3] = st /\ head[5] = n
    BY DEF P!Known
  <2>4. Len(flat) \in Nat /\ (c \/ Len(flat) >= 2)
    <3>1. ASSUME ~c PROVE Len(flat) >= 2
      <4>1. n \in 1..n /\ n - 1 \in 0..n
        BY <3>1
      <4>2. upTo[n] = upTo[n - 1] + 1 + k(n) /\ upTo[n - 1] \in Nat /\ k(n) \in Nat /\ k(n) >= 1
        BY <1>1, <1>5, <4>1
      <4> HIDE DEF k, flat
      <4> QED
        BY <1>5, <4>2
    <3> QED
      BY <1>3, <3>1
  <2> DEFINE all == head \o flat
  <2> HIDE DEF flat, head
  <2>5. /\ all \in Seq(Int) /\ Len(all) = 5 + Len(flat) /\ all[2] = 7 /\ all[3] = st /\ all[5] = n
        /\ \A j \in 1..Len(flat) : all[5 + j] = flat[j]
    <3>1. head \in Seq(Int) /\ flat \in Seq(Int)
      BY <1>3, <2>3
    <3>2. /\ all \in Seq(Int) /\ Len(all) = 5 + Len(flat)
          /\ \A j \in 1..5 : all[j] = head[j]
          /\ \A j \in 1..Len(flat) : all[5 + j] = flat[j]
      <4>1. /\ head \o flat \in Seq(Int) /\ Len(head \o flat) = Len(head) + Len(flat)
            /\ \A j \in 1..Len(head) : (head \o flat)[j] = head[j]
            /\ \A j \in 1..Len(flat) : (head \o flat)[Len(head) + j] = flat[j]
        BY <1>c, <3>1
      <4> QED
        BY <2>3, <4>1 DEF all
    <3>3. 2 \in 1..5 /\ 3 \in 1..5 /\ 5 \in 1..5
      OBVIOUS
    <3> QED
      BY <2>3, <3>2, <3>3
  <2> HIDE DEF all
  <2>6. bytes \in Seq(Int) /\ Len(bytes) = 5 + long /\ \A j \in 1..(5 + long) : bytes[j] = all[j]
    <3>1. CASE c
      <4>2. long = Len(flat)
        BY <2>4, <3>1
      <4> HIDE DEF bytes, long
      <4>1. bytes = all
        BY <2>2, <3>1 DEF all
      <4> QED
        BY <2>5, <4>1, <4>2
    <3>2. CASE ~c
      <4>1. bytes = SubSeq(all, 1, Len(all) - 1)
        BY <2>2, <3>2 DEF P!Front, all
      <4> HIDE DEF bytes
      <4> QED
        BY <2>4, <2>5, <3>2, <4>1
    <3> QED
      BY <3>1, <3>2
  <2>7. long \in Nat
    BY <2>4
  <2> HIDE DEF long, bytes
  <2>8. /\ body \in Seq(Int) /\ Len(body) = long /\ \A j \in 1..long : body[j] = bytes[5 + j]
    BY <2>6, <2>7
  <2>9. \A j \in 1..long : j \in 1..Len(flat) /\ 5 + j \in 1..(5 + long)
    BY <2>4, <2>7 DEF long
  <2>10. 2 \in 1..(5 + long) /\ 3 \in 1..(5 + long) /\ 5 \in 1..(5 + long)
    BY <2>7
  <2> HIDE DEF body
  <2> QED
    BY <2>5, <2>6, <2>7, <2>8, <2>9, <2>10
<1> DEFINE toldOf(i) == [j \in 1..i |-> ValueOf(d, rs[j])]
           begun == [pos |-> 1, values |-> <<>>, last |-> -1, ok |-> TRUE]
           id(q) == body[q.pos]
           size(q) == P!Size(P!TT[d][id(q)])
           wrong(q) == ~q.ok \/ q.pos > Len(body) \/ id(q) \notin P!Modules(d)
                       \/ q.pos + size(q) > Len(body)
           next(q) == [pos |-> q.pos + size(q) + 1, last |-> id(q), ok |-> TRUE,
                       values |-> Append(q.values, P!ServerValue(d, id(q),
                         P!OriginalValue(size(q), SubSeq(body, q.pos + 1, q.pos + size(q)))))]
           step(q) == IF wrong(q) THEN [q EXCEPT !.ok = FALSE] ELSE next(q)
           Whole(g) == g = [i \in 0..n |-> IF i = 0 THEN begun ELSE step(g[i - 1])]
           go == CHOOSE g : Whole(g)
           good == IF c THEN n ELSE n - 1
           at(i) == [pos |-> 1 + upTo[i], values |-> toldOf(i),
                     last |-> IF i = 0 THEN -1 ELSE rs[i].module, ok |-> TRUE]
           closed == [i \in 0..n |-> IF i <= good THEN at(i) ELSE [at(good) EXCEPT !.ok = FALSE]]
<1>7. P!Parsed(d, body, n) = go[n]
  <2> HIDE DEF body
  <2> QED
    BY DEF P!Parsed
<1> HIDE DEF bytes, body, long
<1>8. good \in 0..n /\ (c => good = n) /\ (~c => good = n - 1)
  OBVIOUS
<1> HIDE DEF good
<1>9. ASSUME NEW i \in 1..n
      PROVE  /\ upTo[i - 1] \in Nat /\ upTo[i - 1] + 1 <= long
             /\ body[1 + upTo[i - 1]] = rs[i].module
             /\ upTo[i] \in Nat /\ upTo[i] = upTo[i - 1] + 1 + k(i) /\ k(i) \in Nat
             /\ i <= good => /\ upTo[i] <= long
                             /\ SubSeq(body, upTo[i - 1] + 2, upTo[i]) = number(i)
             /\ i > good => upTo[i] > long
  <2> DEFINE x == upTo[i - 1]
             y == upTo[i]
             z == k(i)
  <2>1. /\ x \in Nat /\ y \in Nat /\ z \in Nat /\ z >= 1 /\ y = x + 1 + z
        /\ flat[x + 1] = rs[i].module
        /\ \A j \in 1..z : flat[x + 1 + j] = number(i)[j]
    <3>1. i - 1 \in 0..n /\ i \in 0..n
      OBVIOUS
    <3> HIDE DEF flat, k, number
    <3> QED
      BY <1>1, <1>5, <3>1
  <2>2. y <= Len(flat) /\ (~c /\ i <= good => y + 2 <= Len(flat)) /\ (i > good => i = n /\ ~c)
    <3> HIDE DEF flat, k, number
    <3>1. n \in i..n
      OBVIOUS
    <3>2. y <= upTo[n]
      BY <1>5, <3>1
    <3>3. ASSUME ~c, i <= good PROVE y + 2 <= Len(flat)
      <4>1. n \in 1..n /\ n - 1 \in i..n /\ n - 1 \in 0..n
        BY <1>8, <3>3
      <4>2. y <= upTo[n - 1] /\ upTo[n] = upTo[n - 1] + 1 + k(n) /\ k(n) \in Nat /\ k(n) >= 1
            /\ upTo[n - 1] \in Nat
        BY <1>1, <1>5, <4>1
      <4> DEFINE u == upTo[n - 1]
                 w == k(n)
      <4>3. y <= u /\ Len(flat) = u + 1 + w /\ w \in Nat /\ w >= 1 /\ u \in Nat
        BY <1>5, <4>2
      <4> HIDE DEF u, w, y
      <4> QED
        BY <2>1, <4>3
    <3>4. i > good => i = n /\ ~c
      BY <1>8
    <3> QED
      BY <1>5, <3>2, <3>3, <3>4
  <2>3. long = Len(flat) - (IF c THEN 0 ELSE 1) /\ Len(flat) \in Nat /\ long \in Nat
    BY <1>3, <1>6 DEF long
  <2>4. i > good => Len(flat) = y
    BY <1>5, <2>2
  <2>5. number(i) \in Seq(Int) /\ Len(number(i)) = z
    BY <1>1
  <2> HIDE DEF x, y, z, flat, number
  <2>6. x + 1 <= long /\ (i <= good => y <= long) /\ (i > good => y > long)
    BY SMTT(30), <1>8, <2>1, <2>2, <2>3, <2>4
  <2>7. body[1 + x] = rs[i].module
    <3>1. 1 + x \in 1..long /\ 1 + x = x + 1
      BY SMTT(30), <2>1, <2>3, <2>6
    <3> QED
      BY <1>6, <2>1, <3>1
  <2>8. ASSUME i <= good PROVE SubSeq(body, x + 2, y) = number(i)
    <3> DEFINE t == SubSeq(body, x + 2, y)
    <3>1. \A j \in (x + 2)..y : j \in 1..long
      BY <2>1, <2>3, <2>6, <2>8
    <3>2. \A j \in (x + 2)..y : body[j] \in Int
      BY <1>6, <3>1
    <3>3. t \in Seq(Int) /\ Len(t) = z /\ \A j \in 1..z : t[j] = body[x + 2 + j - 1]
      <4>1. x + 2 \in Int /\ y \in Int /\ x + 2 <= y /\ y - (x + 2) + 1 = z
        BY <2>1
      <4> QED
        BY <3>2, <4>1, SubSeqProperties
    <3>4. ASSUME NEW j \in 1..z PROVE t[j] = number(i)[j]
      <4>2. x \in Nat /\ y = x + 1 + z /\ z \in Nat
        BY <2>1
      <4>1. x + 2 + j - 1 = x + 1 + j /\ x + 1 + j \in (x + 2)..y
        BY <4>2
      <4> QED
        BY <1>6, <2>1, <3>1, <3>3, <4>1
    <3> HIDE DEF t
    <3>5. t = number(i)
      BY <2>5, <3>3, <3>4, SeqEqual
    <3> QED
      BY <3>5 DEF t
  <2> QED
    BY <2>1, <2>6, <2>7, <2>8 DEF x, y, z
<1>10. Whole(closed)
  <2> DEFINE w == [i \in 0..n |-> IF i = 0 THEN begun ELSE step(closed[i - 1])]
  <2>1. closed[0] = begun
    <3>1. 0 <= good /\ 0 \in 0..n
      BY <1>8
    <3>2. closed[0] = at(0)
      BY <3>1
    <3>3. toldOf(0) = <<>>
      OBVIOUS
    <3>4. 1 + upTo[0] = 1
      BY <1>5
    <3> HIDE DEF toldOf, closed
    <3>5. at(0) = [pos |-> 1 + upTo[0], values |-> toldOf(0), last |-> -1, ok |-> TRUE]
      OBVIOUS
    <3> HIDE DEF at
    <3> QED
      BY <3>2, <3>3, <3>4, <3>5
  <2>2. ASSUME NEW i \in 1..n PROVE closed[i] = step(closed[i - 1])
    <3>1. i - 1 \in 0..n /\ i \in 0..n /\ i - 1 <= good
      BY <1>8
    <3>2. closed[i - 1] = at(i - 1)
      BY <3>1
    <3> DEFINE q == at(i - 1)
    <3>3. q.ok /\ q.pos = 1 + upTo[i - 1] /\ q.values = toldOf(i - 1)
      OBVIOUS
    <3>4. id(q) = rs[i].module /\ size(q) = k(i) /\ id(q) \in P!Modules(d)
      <4> HIDE DEF q
      <4> QED
        BY <1>9, <3>3
    <3> DEFINE x == upTo[i - 1]
               y == upTo[i]
               z == k(i)
    <3>5. /\ x \in Nat /\ y \in Nat /\ z \in Nat /\ y = x + 1 + z
          /\ x + 1 <= long /\ (i <= good => y <= long) /\ (i > good => y > long)
      <4> HIDE DEF k
      <4> QED
        BY <1>9
    <3> HIDE DEF q, k
    <3>6. Len(body) = long /\ long \in Nat /\ q.pos = 1 + x /\ size(q) = z
      BY <1>6, <3>3, <3>4
    <3> HIDE DEF id, size, x, y, z
    <3>7. CASE i <= good
      <4>1. ~wrong(q)
        <5>1. ~(q.pos > Len(body)) /\ ~(q.pos + size(q) > Len(body))
          BY <3>5, <3>6, <3>7
        <5> QED
          BY <3>3, <3>4, <5>1
      <4>2. q.pos + size(q) + 1 = 1 + y /\ q.pos + 1 = x + 2 /\ q.pos + size(q) = y
        BY <3>5, <3>6
      <4>3. SubSeq(body, q.pos + 1, q.pos + size(q)) = number(i)
        <5>1. SubSeq(body, x + 2, y) = number(i)
          <6> HIDE DEF number
          <6> QED
            BY <1>9, <3>7 DEF x, y
        <5> QED
          BY <4>2, <5>1
      <4>4. P!ServerValue(d, id(q), P!OriginalValue(size(q), number(i))) = ValueOf(d, rs[i])
        BY <3>4 DEF ValueOf, k
      <4>5. Append(toldOf(i - 1), ValueOf(d, rs[i])) = toldOf(i)
        <5> DEFINE T == {ValueOf(d, rs[j]) : j \in 1..n}
                   l == toldOf(i - 1)
                   e == ValueOf(d, rs[i])
        <5>0. \A j \in 1..n : ValueOf(d, rs[j]) \in T
          OBVIOUS
        <5>7. i - 1 \in Nat /\ i \in Nat /\ 1..(i - 1) \subseteq 1..n /\ 1..i \subseteq 1..n
          OBVIOUS
        <5>8. l \in [1..(i - 1) -> T] /\ toldOf(i) \in [1..i -> T] /\ e \in T
          <6> HIDE DEF T
          <6> QED
            BY <5>0, <5>7
        <5>1. l \in Seq(T) /\ Len(l) = i - 1 /\ e \in T
          <6> DEFINE b == i - 1
          <6>1. b \in Nat /\ l \in [1..b -> T] /\ e \in T
            BY <5>7, <5>8
          <6> HIDE DEF T, l, e, b
          <6>2. l \in Seq(T) /\ Len(l) = b
            BY <6>1
          <6> QED
            BY <6>1, <6>2 DEF b
        <5>2. toldOf(i) \in Seq(T) /\ Len(toldOf(i)) = i
          <6> HIDE DEF T, toldOf
          <6> QED
            BY <5>7, <5>8
        <5>3. \A j \in 1..i : toldOf(i)[j] = ValueOf(d, rs[j])
          OBVIOUS
        <5>4. \A j \in 1..(i - 1) : l[j] = ValueOf(d, rs[j])
          OBVIOUS
        <5> DEFINE r == toldOf(i)
        <5> HIDE DEF T, l, r, toldOf
        <5>5. Append(l, e) \in Seq(T) /\ Len(Append(l, e)) = i /\ \A j \in 1..i : Append(l, e)[j] = ValueOf(d, rs[j])
          BY <5>1, <5>4
        <5>6. Append(l, e) = r
          <6> DEFINE al == Append(l, e)
          <6>1. /\ al \in Seq(T) /\ Len(al) = i /\ r \in Seq(T) /\ Len(r) = i
                /\ \A j \in 1..i : al[j] = r[j]
            BY <5>2, <5>3, <5>5 DEF r
          <6> HIDE DEF al
          <6>2. al = r
            BY <6>1, SeqEqual
          <6> QED
            BY <6>2 DEF al
        <5> QED
          BY <5>6 DEF l, r
      <4>6. step(q) = [pos |-> 1 + y, last |-> rs[i].module, ok |-> TRUE, values |-> toldOf(i)]
        <5> HIDE DEF wrong, toldOf
        <5> QED
          BY <3>3, <3>4, <4>1, <4>2, <4>3, <4>4, <4>5
      <4>7. closed[i] = at(i)
        BY <3>1, <3>7
      <4>8. at(i) = [pos |-> 1 + y, last |-> rs[i].module, ok |-> TRUE, values |-> toldOf(i)]
        <5> HIDE DEF toldOf
        <5>1. i # 0
          OBVIOUS
        <5> QED
          BY <5>1 DEF y
      <4> HIDE DEF step, closed, at, toldOf
      <4> QED
        BY <3>2, <4>6, <4>7, <4>8 DEF q
    <3>8. CASE i > good
      <4>1. wrong(q)
        BY <3>5, <3>6, <3>8
      <4>2. step(q) = [q EXCEPT !.ok = FALSE]
        <5> HIDE DEF wrong
        <5> QED
          BY <4>1
      <4>3. good = i - 1
        BY <1>8, <3>8
      <4>4. closed[i] = [at(good) EXCEPT !.ok = FALSE]
        BY <3>1, <3>8, <1>8
      <4> HIDE DEF step, closed, at
      <4> QED
        BY <3>2, <4>2, <4>3, <4>4 DEF q
    <3>9. i <= good \/ i > good
      BY <1>8
    <3> HIDE DEF step, closed
    <3> QED
      BY <3>7, <3>8, <3>9
  <2>3. ASSUME NEW i \in 0..n PROVE closed[i] = w[i]
    <3>1. i = 0 \/ i \in 1..n
      OBVIOUS
    <3> HIDE DEF closed, step, begun
    <3> QED
      BY <2>1, <2>2, <3>1
  <2>4. closed = [i \in 0..n |-> closed[i]]
    OBVIOUS
  <2> HIDE DEF closed, w
  <2>5. closed = w
    BY <2>3, <2>4 DEF w
  <2> QED
    BY <2>5 DEF w
<1>11. Whole(go)
  <2> HIDE DEF Whole, closed
  <2> QED
    BY <1>10
<1> HIDE DEF go
<1>12. go[n] = closed[n]
  <2> DEFINE S == {i \in 0..n : go[i] = closed[i]}
  <2> HIDE DEF closed, step, begun
  <2>1. 0 \in S
    BY <1>10, <1>11
  <2>2. ASSUME NEW i \in 1..n, i - 1 \in S PROVE i \in S
    <3>1. i \in 0..n /\ i # 0
      OBVIOUS
    <3> QED
      BY <1>10, <1>11, <2>2, <3>1
  <2>3. n \in 0..n
    OBVIOUS
  <2> HIDE DEF S
  <2>4. n \in S
    BY <2>1, <2>2, <2>3, Counting
  <2> QED
    BY <2>4 DEF S
<1>13. closed[n].ok = c /\ (c => closed[n].values = toldOf(n))
  <2>1. n \in 0..n
    OBVIOUS
  <2>2. CASE c
    <3>1. closed[n] = at(n)
      BY <1>8, <2>1, <2>2
    <3> HIDE DEF closed, toldOf
    <3> QED
      BY <2>2, <3>1
  <2>3. CASE ~c
    <3>1. closed[n] = [at(good) EXCEPT !.ok = FALSE]
      BY <1>8, <2>1, <2>3
    <3> HIDE DEF closed, toldOf
    <3>2. closed[n].ok = FALSE
      BY <3>1
    <3> QED
      BY <2>3, <3>2
  <2> QED
    BY <2>2, <2>3
<1> HIDE DEF closed, go
<1>14. P!Parsed(d, SubSeq(bytes, 6, Len(bytes)), bytes[5]) = closed[n]
  BY <1>6, <1>7, <1>12 DEF body
<1>15. Len(bytes) \in Nat /\ Len(bytes) >= 5
  BY <1>6
<1>16. ParsedOf(m) = closed[n]
  BY <1>14 DEF ParsedOf, ReportOf, bytes
<1> QED
  BY <1>6, <1>13, <1>15, <1>16 DEF bytes

\* A report of the coordinator's is passed on as it was meant (PanInterface.cpp:176-288).
LEMMA ReportFacts ==
  ASSUME NEW d, NEW st \in Strengths, NEW c \in BOOLEAN, NEW rs \in P!Lists(d, Numbers),
         toServer = <<>>, P!FromSensor(ReportOf(d, st, c, rs))
  PROVE  P!ReportIsRight'
<1>s. ASSUME NEW D, NEW B
      PROVE  LET s == {P!Signals(D, B)[x] : x \in DOMAIN P!Signals(D, B)}
                 q == P!SetToSeq(s)
             IN  /\ q \in Seq(s) /\ Len(q) = Cardinality(WithSignal(D))
                 /\ Len(q) = 0 <=> WithSignal(D) = {}
                 /\ \A m \in WithSignal(D) : \E i \in 1..Len(q) : q[i] = SignalOf(m, B)
  <2> DEFINE sig == WithSignal(D)
             s == {SignalOf(m, B) : m \in sig}
             q == P!SetToSeq(s)
             f == [m \in sig |-> SignalOf(m, B)]
  <2>1. {P!Signals(D, B)[x] : x \in DOMAIN P!Signals(D, B)} = s
    <3>1. P!Signals(D, B) = f
      BY DEF P!Signals, WithSignal, SignalOf
    <3>2. DOMAIN f = sig /\ \A m \in sig : f[m] = SignalOf(m, B)
      OBVIOUS
    <3> HIDE DEF f, sig
    <3> QED
      BY <3>1, <3>2
  <2>2. IsFiniteSet(sig)
    <3>1. IsFiniteSet(0..300)
      <4>1. 0 \in Int /\ 300 \in Int
        OBVIOUS
      <4> QED
        BY <4>1, FS_Interval
    <3>2. sig \in SUBSET (0..300)
      BY Table DEF WithSignal
    <3> QED
      BY <3>1, <3>2, FS_Subset
  <2>3. IsFiniteSet(s) /\ Cardinality(s) = Cardinality(sig) /\ Cardinality(s) \in Nat
    <3>1. f \in Bijection(sig, s)
      <4>1. \A m \in sig : SignalOf(m, B) \in s
        OBVIOUS
      <4>2. \A t \in s : \E m \in sig : t = SignalOf(m, B)
        OBVIOUS
      <4>3. \A m, n : SignalOf(m, B) = SignalOf(n, B) => m = n
        BY DEF SignalOf
      <4> HIDE DEF s, sig
      <4>4. f \in [sig -> s]
        BY <4>1
      <4>5. IsInjective(f)
        BY <4>3 DEF IsInjective
      <4> QED
        BY <4>2, <4>4, <4>5 DEF Bijection, Injection, Surjection
    <3>2. ExistsBijection(sig, s)
      <4> HIDE DEF f, s
      <4> QED
        BY <3>1 DEF ExistsBijection
    <3> HIDE DEF s, sig
    <3> QED
      BY <2>2, <3>2, FS_Bijection, FS_CardinalityType
  <2> DEFINE n == Cardinality(s)
  <2>4. q \in [1..n -> s] /\ q \in Surjection(1..n, s)
    <3> HIDE DEF s
    <3>1. PICK g \in Bijection(1..n, s) : TRUE
      BY <2>3, FS_CardinalityType DEF ExistsBijection
    <3>2. g \in [1..n -> s] /\ P!IsInjective(g)
      BY <3>1 DEF Bijection, Injection, IsInjective, P!IsInjective
    <3>3. q \in [1..n -> s] /\ P!IsInjective(q)
      <4>1. P!Cardinality(s) = n
        BY DEF P!Cardinality, Cardinality
      <4> HIDE DEF n
      <4> QED
        BY <3>2, <4>1 DEF P!SetToSeq
    <3>4. q \in Injection(1..n, s)
      BY <3>3 DEF Injection, IsInjective, P!IsInjective
    <3>5. Cardinality(1..n) = n /\ IsFiniteSet(1..n)
      <4>1. 1 \in Int /\ n \in Int
        BY <2>3
      <4>2. IsFiniteSet(1..n) /\ Cardinality(1..n) = IF 1 > n THEN 0 ELSE n - 1 + 1
        BY <4>1, FS_Interval
      <4> QED
        BY <2>3, <4>2
    <3> QED
      BY <2>3, <3>3, <3>4, <3>5, FS_Injection
  <2>5. q \in Seq(s) /\ Len(q) = n /\ n \in Nat
    <3> HIDE DEF q, s
    <3> QED
      BY <2>3, <2>4
  <2>6. \A m \in sig : \E i \in 1..Len(q) : q[i] = SignalOf(m, B)
    <3> HIDE DEF q
    <3>1. \A m \in sig : SignalOf(m, B) \in s
      OBVIOUS
    <3> HIDE DEF s
    <3> QED
      BY <2>4, <2>5, <3>1 DEF Surjection
  <2>7. n = 0 <=> sig = {}
    <3> HIDE DEF s, sig
    <3> QED
      BY <2>2, <2>3, FS_EmptySet
  <2> HIDE DEF q, s
  <2> QED
    BY <2>1, <2>3, <2>5, <2>6, <2>7 DEF q
<1>v. ASSUME NEW r, r.number \in Int
      PROVE  /\ ValueOf(d, r).module = r.module
             /\ r.module # 3 /\ P!Readable(d, r) /\ ValueOf(d, r).status =>
                  ValueOf(d, r).number * P!Scale(P!TT[d][r.module]) = 1000 * r.number
             /\ ~ValueOf(d, r).status => P!HasUnavailable(d, r.module)
  <2> DEFINE k == P!Size(P!TT[d][r.module])
             p == P!Pow[k]
             n == P!Number(P!Bytes(r.number, k))
             o == P!OriginalValue(k, P!Bytes(r.number, k))
             sc == P!Scale(P!TT[d][r.module])
             v == ValueOf(d, r)
  <2>1. k \in {1, 2, 4} /\ sc \in {1, 100, 1000} /\ p \in Nat \ {0}
    BY Table, Powers
  <2>2. n = r.number % p
    <3> HIDE DEF k
    <3>1. k \in Nat
      BY <2>1
    <3> QED
      BY <1>v, <3>1, Digits
  <2>3. o = IF k = 4 /\ n >= p \div 2 THEN n - p ELSE n
    BY DEF P!OriginalValue
  <2>4. P!Readable(d, r) => o = r.number
    <3> SUFFICES ASSUME P!Readable(d, r) PROVE o = r.number
      OBVIOUS
    <3>1. IF k = 4 THEN -(p \div 2) <= r.number /\ r.number < p \div 2
          ELSE 0 <= r.number /\ r.number < p
      BY DEF P!Readable
    <3> DEFINE h == p \div 2
    <3>2. h \in Int /\ 2 * h <= p
      <4> HIDE DEF p
      <4> QED
        BY <2>1
    <3> DEFINE x == r.number
    <3>0. x \in Int /\ n = x % p
      BY <2>2, <1>v
    <3> HIDE DEF k, p, n, o, h, x
    <3> SUFFICES o = x
      BY DEF x
    <3>3. CASE x >= 0
      <4>1. x \in 0..(p - 1) /\ (k = 4 => x < h)
        BY <2>1, <3>0, <3>1, <3>2, <3>3 DEF h, x
      <4>2. Divided(x, p, 0, x)
        BY <2>1, <3>0, <4>1 DEF Divided
      <4>3. n = x
        BY <2>1, <3>0, <4>2, Quotient
      <4> QED
        BY <2>3, <3>0, <3>2, <4>1, <4>3 DEF h
    <3>4. CASE x < 0
      <4>1. k = 4 /\ -h <= x /\ x + p \in 0..(p - 1) /\ x + p >= h
        BY <2>1, <3>0, <3>1, <3>2, <3>4 DEF h, x
      <4>2. Divided(x, p, -1, x + p)
        BY <2>1, <3>0, <4>1 DEF Divided
      <4>3. n = x + p
        BY <2>1, <3>0, <4>2, Quotient
      <4>4. o = n - p
        BY <2>3, <4>1, <4>3 DEF h
      <4> QED
        BY <2>1, <3>0, <4>3, <4>4
    <3> QED
      BY <3>0, <3>3, <3>4
  <2>5. r.module # 3 /\ v.status => v.number = (o * 1000) \div sc
    BY DEF P!ServerValue, ValueOf
  <2>6. v.module = r.module /\ (~v.status => P!HasUnavailable(d, r.module))
    BY DEF P!ServerValue, ValueOf
  <2>7. ASSUME NEW x \in Int PROVE ((x * 1000) \div sc) * sc = 1000 * x
    <3> HIDE DEF sc
    <3>1. CASE sc = 1
      BY <3>1
    <3>2. CASE sc = 100
      BY <3>2
    <3>3. CASE sc = 1000
      BY <3>3
    <3> QED
      BY <2>1, <3>1, <3>2, <3>3
  <2> HIDE DEF o, sc, v
  <2>8. r.module # 3 /\ P!Readable(d, r) /\ v.status => v.number * sc = 1000 * r.number
    <3> SUFFICES ASSUME r.module # 3, P!Readable(d, r), v.status PROVE v.number * sc = 1000 * r.number
      OBVIOUS
    <3>1. v.number = (r.number * 1000) \div sc
      BY <2>4, <2>5
    <3> QED
      BY <1>v, <2>7, <3>1
  <2> QED
    BY <2>6, <2>8 DEF v, sc
<1> DEFINE m == ReportOf(d, st, c, rs)
           n == Len(rs)
           bytes == P!Received(m)
           p == ParsedOf(m)
           sig == WithSignal(d)
           signals == P!Signals(m.device, bytes[3])
           s == {signals[x] : x \in DOMAIN signals}
           q == P!SetToSeq(s)
           told == p.values \o q
           t == toServer'
           Right ==
             /\ t # <<>> <=> c /\ (rs # <<>> \/ sig # {})
             /\ t # <<>> =>
                  /\ t.pairs = n + Cardinality(sig)
                  /\ t.address = 7
                  /\ \A i \in 1..n :
                       LET v == t.values[i]
                       IN  /\ v.module = rs[i].module
                           /\ v.module # 3 /\ P!Readable(d, rs[i]) /\ v.status =>
                                v.number * P!Scale(P!TT[d][v.module]) = 1000 * rs[i].number
                           /\ ~v.status => P!HasUnavailable(d, v.module)
                  /\ \A x \in sig :
                       [module |-> x, number |-> 1000 * st, status |-> TRUE] \in P!ToSet(t.values)
<1> USE PanAssumption
<1>1. n \in Nat /\ DOMAIN rs = 1..n /\ (\A i \in 1..n : rs[i].number \in Int) /\ (rs = <<>> <=> n = 0)
  BY ListFacts
<1>0. P!FromSensor(m)
  OBVIOUS
<1>2. SUFFICES ASSUME d \in P!Known, \A i \in 1..n : rs[i].module \in P!Modules(d) /\ rs[i].module < 256
      PROVE  Right
  <2>1. report' = m
    BY DEF P!FromSensor
  <2>2. P!Cardinality(sig) = Cardinality(sig)
    BY DEF P!Cardinality, Cardinality
  <2>3. /\ m.device = d /\ m.readings = rs /\ m.closed = c /\ m.address = 7 /\ m.strength = st
    BY DEF ReportOf
  <2>4. sig = {x \in P!Modules(d) : P!TT[d][x] = P!Rssi}
    BY DEF WithSignal
  <2> HIDE DEF m, sig, n
  <2>5. ASSUME d \in P!Known /\ (\A i \in 1..n : rs[i].module \in P!Modules(d) /\ rs[i].module < 256)
                 => Right
        PROVE  P!ReportIsRight'
    BY <1>1, <2>1, <2>2, <2>3, <2>4, <2>5 DEF P!ReportIsRight, n
  <2> QED
    BY <2>5
<1>3. CASE ~c /\ n = 0
  <2>1. rs = <<>> /\ DOMAIN rs = {}
    BY <1>1, <1>3
  <2>2. P!FlattenSeq([i \in DOMAIN rs |-> P!SentReading(d, rs[i])]) = <<>>
    BY <2>1 DEF P!FlattenSeq
  <2>3. P!SentBytes(m) = <<1, 7, st, d, n>> \o <<>>
    BY <2>2 DEF P!SentBytes, ReportOf
  <2>4. P!SentBytes(m) = <<1, 7, st, d, n>>
    BY <2>3
  <2>5. Len(bytes) < 5
    <3>1. bytes = P!Front(P!SentBytes(m))
      BY <1>3 DEF P!Received, ReportOf
    <3>2. bytes = SubSeq(<<1, 7, st, d, n>>, 1, 4)
      BY <2>4, <3>1 DEF P!Front
    <3> HIDE DEF bytes
    <3> QED
      BY <3>2
  <2>6. t = <<>>
    <3> HIDE DEF bytes
    <3> QED
      BY <2>5 DEF P!FromSensor, bytes
  <2> QED
    BY <1>3, <2>1, <2>6
<1>4. CASE c \/ n > 0
  <2>1. /\ Len(bytes) \in Nat /\ Len(bytes) >= 5 /\ bytes[2] = 7 /\ bytes[3] = st /\ p.ok = c
        /\ c => p.values = [i \in 1..n |-> ValueOf(d, rs[i])]
    <3>1. n \in Nat /\ st \in Int
      OBVIOUS
    <3> HIDE DEF n
    <3> QED
      BY <1>1, <1>2, <1>4, <3>1, ParsedFacts DEF n
  <2>2. t = IF p.ok /\ told # <<>> THEN [address |-> bytes[2], pairs |-> Len(told), values |-> told,
                                         priority |-> priority']
            ELSE <<>>
    <3>1. m.device \in P!Known
      BY <1>2 DEF ReportOf
    <3> HIDE DEF m
    <3>2. ~(Len(bytes) < 5 \/ m.device \notin P!Known)
      BY <2>1, <3>1
    <3> QED
      BY <3>2, <1>0 DEF P!FromSensor, ParsedOf
  <2>3. /\ q \in Seq(s) /\ Len(q) = Cardinality(sig) /\ (Len(q) = 0 <=> sig = {})
        /\ \A x \in sig : \E i \in 1..Len(q) : q[i] = SignalOf(x, st)
    <3>1. m.device = d /\ bytes[3] = st
      BY <2>1 DEF ReportOf
    <3> DEFINE D == m.device
               B == bytes[3]
    <3> HIDE DEF D, B
    <3>2. LET z == {P!Signals(D, B)[x] : x \in DOMAIN P!Signals(D, B)}
              y == P!SetToSeq(z)
          IN  /\ y \in Seq(z) /\ Len(y) = Cardinality(WithSignal(D))
              /\ Len(y) = 0 <=> WithSignal(D) = {}
              /\ \A x \in WithSignal(D) : \E i \in 1..Len(y) : y[i] = SignalOf(x, B)
      BY <1>s
    <3>3. D = d /\ B = st
      BY <3>1 DEF D, B
    <3> QED
      BY <3>2, <3>3 DEF D, B
  <2>4. CASE ~c
    <3>1. t = <<>>
      BY <2>1, <2>2, <2>4
    <3> QED
      BY <2>4, <3>1
  <2>5. CASE c
    <3> DEFINE T == {ValueOf(d, rs[i]) : i \in 1..n} \cup s
               f == [i \in 1..n |-> ValueOf(d, rs[i])]
    <3>1. f \in Seq(T) /\ Len(f) = n /\ \A i \in 1..n : f[i] = ValueOf(d, rs[i])
      <4>1. \A i \in 1..n : ValueOf(d, rs[i]) \in T
        OBVIOUS
      <4> HIDE DEF T
      <4>2. f \in [1..n -> T]
        BY <4>1
      <4>3. \A i \in 1..n : f[i] = ValueOf(d, rs[i])
        OBVIOUS
      <4> HIDE DEF f
      <4> QED
        BY <1>1, <4>2, <4>3
    <3>2. q \in Seq(T)
      BY <2>3
    <3>3. told = f \o q
      BY <2>1, <2>5
    <3> HIDE DEF T, f, told
    <3>4. /\ told \in Seq(T) /\ Len(told) = n + Len(q) /\ Len(q) \in Nat
          /\ \A i \in 1..n : told[i] = ValueOf(d, rs[i])
          /\ \A i \in 1..Len(q) : told[n + i] = q[i]
      <4>1. /\ f \o q \in Seq(T) /\ Len(f \o q) = Len(f) + Len(q)
            /\ \A i \in 1..(Len(f) + Len(q)) : (f \o q)[i] = IF i <= Len(f) THEN f[i] ELSE q[i - Len(f)]
        BY <3>1, <3>2, ConcatProperties
      <4>2. Len(q) \in Nat
        BY <3>2
      <4> DEFINE k == Len(q)
      <4>3. /\ told \in Seq(T) /\ Len(told) = n + k /\ k \in Nat
            /\ \A i \in 1..(n + k) : told[i] = IF i <= n THEN f[i] ELSE q[i - n]
        BY <3>1, <3>3, <4>1, <4>2
      <4> HIDE DEF n, k
      <4>4. ASSUME NEW i \in 1..n PROVE told[i] = f[i]
        <5>1. i \in 1..(n + k) /\ i <= n
          BY <1>1, <4>3
        <5> QED
          BY <4>3, <5>1
      <4>5. ASSUME NEW i \in 1..k PROVE told[n + i] = q[i]
        <5>1. n + i \in 1..(n + k) /\ ~(n + i <= n) /\ (n + i) - n = i
          BY <1>1, <4>3
        <5> QED
          BY <4>3, <5>1
      <4> QED
        BY <3>1, <4>3, <4>4, <4>5 DEF k
    <3>5. told # <<>> <=> n + Len(q) # 0
      BY <3>4
    <3>6. t # <<>> <=> (rs # <<>> \/ sig # {})
      BY <1>1, <2>1, <2>2, <2>3, <2>5, <3>4, <3>5
    <3>7. ASSUME t # <<>>
          PROVE  t.pairs = n + Cardinality(sig) /\ t.address = 7 /\ t.values = told
      <4>1. t = [address |-> bytes[2], pairs |-> Len(told), values |-> told, priority |-> priority']
        BY <2>2, <3>7
      <4> QED
        BY <2>1, <2>3, <3>4, <4>1
    <3>8. ASSUME NEW i \in 1..n
          PROVE  /\ told[i].module = rs[i].module
                 /\ told[i].module # 3 /\ P!Readable(d, rs[i]) /\ told[i].status =>
                      told[i].number * P!Scale(P!TT[d][told[i].module]) = 1000 * rs[i].number
                 /\ ~told[i].status => P!HasUnavailable(d, told[i].module)
      <4>1. /\ ValueOf(d, rs[i]).module = rs[i].module
            /\ rs[i].module # 3 /\ P!Readable(d, rs[i]) /\ ValueOf(d, rs[i]).status =>
                 ValueOf(d, rs[i]).number * P!Scale(P!TT[d][rs[i].module]) = 1000 * rs[i].number
            /\ ~ValueOf(d, rs[i]).status => P!HasUnavailable(d, rs[i].module)
        BY <1>1, <1>v
      <4>2. told[i] = ValueOf(d, rs[i])
        BY <3>4
      <4> QED
        BY <4>1, <4>2
    <3>9. ASSUME NEW x \in sig
          PROVE  [module |-> x, number |-> 1000 * st, status |-> TRUE] \in P!ToSet(told)
      <4>1. PICK i \in 1..Len(q) : q[i] = SignalOf(x, st)
        BY <2>3
      <4>2. n + i \in 1..Len(told) /\ told[n + i] = SignalOf(x, st)
        BY <1>1, <3>4, <4>1
      <4>3. SignalOf(x, st) \in P!ToSet(told)
        <5>1. DOMAIN told = 1..Len(told)
          BY <3>4
        <5> QED
          BY <4>2, <5>1 DEF P!ToSet
      <4> QED
        BY <4>3 DEF SignalOf
    <3> HIDE DEF t
    <3> QED
      BY <2>5, <3>6, <3>7, <3>8, <3>9
  <2> QED
    BY <2>4, <2>5
<1> QED
  BY <1>1, <1>3, <1>4

\* A set command has every order that the server gave, rounded to a unit of the device
\* (PanInterface.cpp:81-139, Aggregator.cpp:99-111, 578-603).
LEMMA OrderFacts ==
  ASSUME NEW d, NEW e \in [high : {0, 1}, low : {7}], NEW vs \in P!Lists(d, Wanted),
         P!SetActuators([device |-> d, euid |-> e, values |-> vs])
  PROVE  P!OrderIsRight'
<1>r. ASSUME NEW t, NEW w \in Int
      PROVE  LET p    == P!Pow[P!Size(t)]
                 raw  == P!RoundDiv(w * P!Scale(t), 1000)
                 g    == raw % p
                 n    == IF g * 2 >= p /\ w < 0 THEN g - p ELSE g
                 most == ((p - 1) * 1000) \div P!Scale(t)
                 off  == 2 * (n * 1000 - w * P!Scale(t))
             IN  raw \in Int /\ (-(most \div 2) <= w /\ w <= most => -1000 <= off /\ off <= 1000)
  <2> DEFINE p    == P!Pow[P!Size(t)]
             sc   == P!Scale(t)
             x    == w * sc
             raw  == P!RoundDiv(x, 1000)
             g    == raw % p
             n    == IF g * 2 >= p /\ w < 0 THEN g - p ELSE g
             most == ((p - 1) * 1000) \div sc
             half == most \div 2
             off  == 2 * (n * 1000 - x)
  <2>1. sc \in {1, 100, 1000} /\ p \in Nat \ {0}
    BY Table, Powers
  <2> HIDE DEF sc, p
  <2>2. x \in Int /\ (x < 0 <=> w < 0)
    <3>1. CASE sc = 1
      BY <3>1
    <3>2. CASE sc = 100
      BY <3>2
    <3>3. CASE sc = 1000
      BY <3>3
    <3> QED
      BY <2>1, <3>1, <3>2, <3>3
  <2> DEFINE upper == (2 * x + 1000) \div 2000
             dn == (1000 - 2 * x) \div 2000
  <2>3. raw = IF x >= 0 THEN upper ELSE -dn
    BY DEF P!RoundDiv
  <2>4. /\ upper \in Int /\ 2000 * upper <= 2 * x + 1000 /\ 2 * x + 1000 < 2000 * upper + 2000
        /\ dn \in Int /\ 2000 * dn <= 1000 - 2 * x /\ 1000 - 2 * x < 2000 * dn + 2000
    <3> HIDE DEF x
    <3> QED
      BY <2>2
  <2>5. w <= most => x <= (p - 1) * 1000
    <3>1. CASE sc = 1
      BY <2>1, <3>1
    <3>2. CASE sc = 100
      BY <2>1, <3>2
    <3>3. CASE sc = 1000
      BY <2>1, <3>3
    <3> QED
      BY <2>1, <3>1, <3>2, <3>3
  <2>6. -half <= w => -x <= (p - 1) * 500
    <3>1. CASE sc = 1
      BY <2>1, <3>1
    <3>2. CASE sc = 100
      BY <2>1, <3>2
    <3>3. CASE sc = 1000
      BY <2>1, <3>3
    <3> QED
      BY <2>1, <3>1, <3>2, <3>3
  <2> HIDE DEF x, upper, dn, raw, half, most, g
  <2>7. raw \in Int
    BY <2>3, <2>4
  <2>8. ASSUME -half <= w, w <= most PROVE n = raw /\ -1000 <= 2 * (raw * 1000 - x) /\ 2 * (raw * 1000 - x) <= 1000
    <3>1. CASE x >= 0
      <4>1. raw = upper /\ raw \in 0..(p - 1)
        BY <2>1, <2>2, <2>3, <2>4, <2>5, <2>8, <3>1
      <4>2. Divided(raw, p, 0, raw)
        BY <2>1, <4>1 DEF Divided
      <4>3. g = raw
        BY <2>1, <2>7, <4>2, Quotient DEF g
      <4>4. n = raw
        BY <2>2, <3>1, <4>3
      <4> QED
        BY <2>2, <2>4, <4>1, <4>4
    <3>2. CASE x < 0
      <4>1. raw = -dn /\ dn \in Nat /\ 2 * dn <= p
        BY <2>1, <2>2, <2>3, <2>4, <2>6, <2>8, <3>2
      <4>2. CASE dn = 0
        <5>5. raw + dn = 0
          BY <2>7, <4>1
        <5>6. raw = 0
          BY <2>7, <4>2, <5>5
        <5>1. raw \in 0..(p - 1) /\ raw = 0
          BY <2>1, <5>6
        <5>2. Divided(raw, p, 0, raw)
          BY <2>1, <5>1 DEF Divided
        <5>3. g = 0
          BY <2>1, <2>7, <5>1, <5>2, Quotient DEF g
        <5>4. n = raw
          BY <2>1, <5>1, <5>3
        <5> QED
          BY <2>2, <2>4, <4>1, <5>4
      <4>3. CASE dn # 0
        <5>1. raw + p \in 0..(p - 1) /\ 2 * (raw + p) >= p
          BY <2>1, <4>1, <4>3
        <5>2. Divided(raw, p, -1, raw + p)
          BY <2>1, <2>7, <5>1 DEF Divided
        <5>3. g = raw + p
          BY <2>1, <2>7, <5>2, Quotient DEF g
        <5>4. n = raw
          BY <2>1, <2>2, <2>7, <3>2, <5>1, <5>3
        <5> QED
          BY <2>2, <2>4, <4>1, <5>4
      <4> QED
        BY <4>2, <4>3
    <3> QED
      BY <2>2, <3>1, <3>2
  <2>9. off = 2 * (n * 1000 - x)
    OBVIOUS
  <2> HIDE DEF n, off
  <2>10. -half <= w /\ w <= most => -1000 <= off /\ off <= 1000
    BY <2>8, <2>9
  <2> QED
    BY <2>7, <2>10 DEF p, sc, x, raw, g, n, most, half, off
<1> DEFINE o == [device |-> d, euid |-> e, values |-> vs]
           n == Len(vs)
           t == toPan'
           type(i) == P!TT[d][vs[i].module]
           k(i) == P!Size(type(i))
           raw(i) == P!RoundDiv(vs[i].number * P!Scale(type(i)), 1000)
           number(i) == P!Bytes(raw(i), k(i))
           one(i) == <<vs[i].module % 256, k(i)>> \o number(i)
           written == [i \in 1..n |-> one(i)]
           flat == FlattenSeq(written)
           T == Int \cup {"SET_ACTUATORS"}
           head == <<"SET_ACTUATORS", 1, e.low, n>>
           Known(i) == vs[i].module \in P!Modules(d)
           Near(i, got) ==
             LET p    == P!Pow[k(i)]
                 g    == IF got * 2 >= p /\ vs[i].number < 0 THEN got - p ELSE got
                 most == ((p - 1) * 1000) \div P!Scale(type(i))
             IN  -(most \div 2) <= vs[i].number /\ vs[i].number <= most =>
                   LET off == 2 * (g * 1000 - vs[i].number * P!Scale(type(i)))
                   IN  -1000 <= off /\ off <= 1000
           Right ==
             /\ t = <<>> <=> \E i \in 1..n : ~Known(i)
             /\ t # <<>> =>
                  /\ e.high = 0 => t[3] = e.low
                  /\ Len(P!OrdersIn(t)) = n
                  /\ \A i \in 1..n :
                       /\ vs[i].module < 256 => P!OrdersIn(t)[i].module = vs[i].module
                       /\ Near(i, P!OrdersIn(t)[i].number)
<1> USE PanAssumption
<1>0. P!SetActuators(o)
  OBVIOUS
<1>1. n \in Nat /\ DOMAIN vs = 1..n /\ \A i \in 1..n : vs[i].number \in Int
  BY ListFacts
<1>2. SUFFICES Right
  <2>1. order' = o /\ o.values = vs /\ o.device = d /\ o.euid = e
    BY <1>0 DEF P!SetActuators
  <2> HIDE DEF o, n
  <2>2. ASSUME Right PROVE P!OrderIsRight'
    BY SMTT(30), <1>1, <2>1, <2>2 DEF P!OrderIsRight, n
  <2> QED
    BY <2>2
<1>3. CASE \E i \in 1..n : ~Known(i)
  <2>1. t = <<>>
    <3>1. o.values = vs /\ o.device = d
      OBVIOUS
    <3> HIDE DEF o
    <3>2. t = IF \A i \in DOMAIN vs : Known(i) THEN P!OrderBytes(o) ELSE <<>>
      BY <1>0, <3>1 DEF P!SetActuators
    <3> QED
      BY <1>1, <1>3, <3>2
  <2> QED
    BY <1>3, <2>1
<1>4. CASE \A i \in 1..n : Known(i)
  <2>1. t = P!OrderBytes(o)
    <3>1. o.values = vs /\ o.device = d
      OBVIOUS
    <3> HIDE DEF o
    <3> QED
      BY <1>0, <1>1, <1>4, <3>1 DEF P!SetActuators
  <2>2. ASSUME NEW i \in 1..n
        PROVE  /\ k(i) \in Nat /\ k(i) >= 1 /\ vs[i].module \in Nat /\ raw(i) \in Int
               /\ number(i) \in Seq(Int) /\ Len(number(i)) = k(i)
               /\ P!Number(number(i)) = raw(i) % P!Pow[k(i)]
    <3>1. k(i) \in Nat /\ k(i) >= 1
      BY Table
    <3>2. vs[i].module \in Nat
      <4>1. vs[i].module \in P!Modules(d)
        BY <1>4
      <4> DEFINE x == vs[i].module
      <4>2. x \in 0..300
        BY <4>1, Table
      <4> HIDE DEF x
      <4>3. x \in Nat
        BY <4>2
      <4> QED
        BY <4>3 DEF x
    <3>3. raw(i) \in Int
      <4> DEFINE w == vs[i].number
                 ty == type(i)
      <4>1. w \in Int
        BY <1>1
      <4> HIDE DEF w, ty
      <4>2. P!RoundDiv(w * P!Scale(ty), 1000) \in Int
        BY <4>1, <1>r
      <4> QED
        BY <4>2 DEF w, ty
    <3> DEFINE x == k(i)
               y == raw(i)
    <3>4. x \in Nat /\ y \in Int
      BY <3>1, <3>3
    <3> HIDE DEF x, y
    <3>5. P!Bytes(y, x) \in Seq(Int) /\ Len(P!Bytes(y, x)) = x /\ P!Number(P!Bytes(y, x)) = y % P!Pow[x]
      BY <3>4, Digits
    <3>6. number(i) = P!Bytes(y, x)
      BY DEF x, y
    <3> QED
      BY <3>1, <3>2, <3>3, <3>5, <3>6 DEF x, y
  <2>3. ASSUME NEW i \in 1..n
        PROVE  /\ one(i) \in Seq(Int) /\ Len(one(i)) = 2 + k(i) /\ one(i)[1] = vs[i].module % 256
               /\ one(i)[2] = k(i) /\ \A j \in 1..k(i) : one(i)[2 + j] = number(i)[j]
    <3> DEFINE x == vs[i].module % 256
               y == k(i)
               z == number(i)
    <3>1. x \in Int /\ y \in Nat /\ z \in Seq(Int) /\ Len(z) = y
      <4>1. vs[i].module \in Nat
        BY <2>2
      <4>2. vs[i].module % 256 \in Int
        BY <4>1
      <4> QED
        BY <2>2, <4>2
    <3> HIDE DEF x, y, z
    <3> DEFINE w == <<x, y>> \o z
    <3>2. w \in Seq(Int) /\ Len(w) = 2 + y /\ w[1] = x /\ w[2] = y /\ \A j \in 1..y : w[2 + j] = z[j]
      BY <3>1
    <3>3. one(i) = w
      BY DEF x, y, z
    <3> HIDE DEF w, one
    <3> QED
      BY <3>2, <3>3 DEF x, y, z
  <2>4. written \in Seq(Seq(Int)) /\ Len(written) = n /\ \A i \in 1..n : written[i] = one(i)
    <3> HIDE DEF one, n
    <3>1. written \in [1..n -> Seq(Int)]
      BY <2>3
    <3>2. \A i \in 1..n : written[i] = one(i)
      OBVIOUS
    <3>3. n \in Nat
      BY <1>1
    <3> HIDE DEF written
    <3>4. written \in Seq(Seq(Int)) /\ Len(written) = n
      BY <3>1, <3>3
    <3> QED
      BY <3>2, <3>4
  <2>5. flat \in Seq(Int) /\ \E upTo \in [0..n -> Nat] : Ends(written, upTo)
    <3> HIDE DEF written
    <3> QED
      BY <2>4, FlattenFacts
  <2>6. PICK upTo \in [0..n -> Nat] : Ends(written, upTo)
    BY <2>5
  <2>7. /\ upTo[0] = 0 /\ upTo[n] = Len(flat)
        /\ \A i \in 1..n :
             /\ upTo[i - 1] \in Nat /\ upTo[i] = upTo[i - 1] + 2 + k(i) /\ upTo[i] <= Len(flat)
             /\ flat[upTo[i - 1] + 1] = vs[i].module % 256 /\ flat[upTo[i - 1] + 2] = k(i)
             /\ \A j \in 1..k(i) : flat[upTo[i - 1] + 2 + j] = number(i)[j]
    <3> HIDE DEF written, one, k, number, n, flat
    <3>1. upTo[0] = 0 /\ upTo[n] = Len(flat)
      BY <2>4, <2>6 DEF Ends, flat
    <3>2. ASSUME NEW i \in 1..n
          PROVE  /\ upTo[i - 1] \in Nat /\ upTo[i] = upTo[i - 1] + 2 + k(i) /\ upTo[i] <= Len(flat)
                 /\ flat[upTo[i - 1] + 1] = vs[i].module % 256 /\ flat[upTo[i - 1] + 2] = k(i)
                 /\ \A j \in 1..k(i) : flat[upTo[i - 1] + 2 + j] = number(i)[j]
      <4>0. i - 1 \in 0..n /\ n \in i..n /\ upTo[i - 1] \in Nat
        BY <1>1
      <4>1. /\ upTo[i] = upTo[i - 1] + Len(one(i)) /\ upTo[i] <= upTo[n]
            /\ \A j \in 1..Len(one(i)) : flat[upTo[i - 1] + j] = one(i)[j]
        BY SMTT(30), <2>4, <2>6, <4>0 DEF Ends, flat
      <4> DEFINE x == k(i)
                 y == Len(one(i))
                 u == upTo[i - 1]
      <4>2. x \in Nat /\ y = 2 + x /\ u \in Nat /\ upTo[i] = u + y
        BY <2>2, <2>3, <4>0, <4>1
      <4> HIDE DEF x, y, u
      <4>3. \A j \in 1..x : 2 + j \in 1..y /\ u + (2 + j) = u + 2 + j
        BY <4>2
      <4>4. upTo[i] = u + 2 + x /\ 1 \in 1..y /\ 2 \in 1..y
        BY <4>2
      <4>5. \A j \in 1..x : flat[u + 2 + j] = number(i)[j]
        BY <2>3, <4>1, <4>3 DEF x, y, u
      <4>6. flat[u + 1] = vs[i].module % 256 /\ flat[u + 2] = x
        BY <2>3, <4>1, <4>4 DEF x, y, u
      <4> QED
        BY <3>1, <4>0, <4>1, <4>4, <4>5, <4>6 DEF x, u
    <3> QED
      BY <3>1, <3>2
  <2>8. /\ t \in Seq(T) /\ Len(t) = 4 + Len(flat) /\ Len(flat) \in Nat /\ t[3] = e.low /\ t[4] = n
        /\ \A j \in 1..Len(flat) : t[4 + j] = flat[j]
    <3>1. t = head \o flat
      <4>1. o.values = vs /\ o.device = d /\ o.euid = e
        OBVIOUS
      <4> HIDE DEF o
      <4>2. t = <<"SET_ACTUATORS", 1, e.low, n>> \o
                  P!FlattenSeq([i \in DOMAIN vs |->
                     LET m == vs[i].module
                         z == P!Size(P!TT[d][m])
                     IN  <<m % 256, z>> \o P!Bytes(P!RawValue(d, m, vs[i].number), z)])
        BY <2>1, <4>1 DEF P!OrderBytes, P!Address
      <4>3. [i \in DOMAIN vs |->
               LET m == vs[i].module
                   z == P!Size(P!TT[d][m])
               IN  <<m % 256, z>> \o P!Bytes(P!RawValue(d, m, vs[i].number), z)] = written
        BY <1>1 DEF P!RawValue
      <4>4. P!FlattenSeq(written) = flat
        <5> HIDE DEF written
        <5> QED
          BY DEF P!FlattenSeq, FlattenSeq
      <4> HIDE DEF written, flat, t
      <4> QED
        BY <4>2, <4>3, <4>4
    <3>2. /\ head \in Seq(T) /\ Len(head) = 4 /\ head[3] = e.low /\ head[4] = n
      <4>1. e.low \in T /\ n \in T
        BY <1>1
      <4> DEFINE x == e.low
      <4>2. x \in T /\ n \in T /\ "SET_ACTUATORS" \in T /\ 1 \in T
        BY <4>1
      <4> HIDE DEF x, T, n
      <4>3. <<"SET_ACTUATORS", 1, x, n>> \in Seq(T)
        BY <4>2
      <4> QED
        BY <4>3 DEF x
    <3>3. flat \in Seq(T) /\ Len(flat) \in Nat
      <4> HIDE DEF flat
      <4> QED
        BY <2>5
    <3> HIDE DEF head, flat, T
    <3>4. /\ head \o flat \in Seq(T) /\ Len(head \o flat) = Len(head) + Len(flat)
          /\ \A i \in 1..(Len(head) + Len(flat)) :
               (head \o flat)[i] = IF i <= Len(head) THEN head[i] ELSE flat[i - Len(head)]
      <4>1. head \in Seq(T) /\ flat \in Seq(T)
        BY <3>2, <3>3
      <4> QED
        BY <4>1, ConcatProperties
    <3> DEFINE z == Len(flat)
    <3>5. /\ t \in Seq(T) /\ Len(t) = 4 + z /\ z \in Nat
          /\ \A i \in 1..(4 + z) : t[i] = IF i <= 4 THEN head[i] ELSE flat[i - 4]
      BY <3>1, <3>2, <3>3, <3>4
    <3> HIDE DEF z, t
    <3>6. t[3] = e.low /\ t[4] = n
      <4>1. 3 \in 1..(4 + z) /\ 4 \in 1..(4 + z)
        BY <3>5
      <4> QED
        BY <3>2, <3>5, <4>1
    <3>7. ASSUME NEW j \in 1..z PROVE t[4 + j] = flat[j]
      <4>1. 4 + j \in 1..(4 + z) /\ ~(4 + j <= 4) /\ (4 + j) - 4 = j
        BY <3>5
      <4> QED
        BY <3>5, <4>1
    <3> QED
      BY <3>5, <3>6, <3>7 DEF z
  <2> DEFINE Whole(g) == g = [i \in 1..(t[4] + 1) |-> IF i = 1 THEN 5
                                                   ELSE g[i - 1] + 2 + t[g[i - 1] + 1]]
             at == CHOOSE g : Whole(g)
             closed == [i \in 1..(n + 1) |-> 5 + upTo[i - 1]]
             order2(i) == [module |-> t[at[i]],
                           number |-> P!Number(SubSeq(t, at[i] + 2, at[i] + 1 + t[at[i] + 1]))]
  <2>9. P!OrdersIn(t) = [i \in 1..t[4] |-> order2(i)]
    <3> HIDE DEF t
    <3> QED
      BY DEF P!OrdersIn
  <2> HIDE DEF t, n, flat, k, number
  <2>10. ASSUME NEW i \in 1..n
         PROVE  /\ i \in 1..(n + 1) /\ i + 1 \in 1..(n + 1) /\ closed[i] = 5 + upTo[i - 1]
                /\ closed[i + 1] = closed[i] + 2 + t[closed[i] + 1]
                /\ t[closed[i]] = vs[i].module % 256
                /\ SubSeq(t, closed[i] + 2, closed[i] + 1 + t[closed[i] + 1]) = number(i)
    <3> DEFINE u == upTo[i - 1]
               v == upTo[i]
               x == k(i)
               z == Len(flat)
    <3>1. /\ u \in Nat /\ v = u + 2 + x /\ v <= z /\ z \in Nat /\ x \in Nat /\ x >= 1
          /\ flat[u + 1] = vs[i].module % 256 /\ flat[u + 2] = x
          /\ \A j \in 1..x : flat[u + 2 + j] = number(i)[j]
      BY <2>2, <2>7, <2>8
    <3>2. i \in 1..(n + 1) /\ i + 1 \in 1..(n + 1) /\ (i + 1) - 1 = i
      BY <1>1
    <3>3. closed[i] = 5 + u /\ closed[i + 1] = 5 + v
      BY <3>2
    <3>4. \A j \in 1..z : t[4 + j] = flat[j]
      BY <2>8
    <3> HIDE DEF u, v, x, z, closed
    <3>5. u + 1 \in 1..z /\ u + 2 \in 1..z /\ 4 + (u + 1) = 5 + u /\ 4 + (u + 2) = (5 + u) + 1
      BY SMTT(30), <3>1
    <3>6. t[5 + u] = vs[i].module % 256 /\ t[(5 + u) + 1] = x
      BY <3>1, <3>4, <3>5
    <3>7. closed[i + 1] = closed[i] + 2 + t[closed[i] + 1]
      <4>1. 5 + v = (5 + u) + 2 + x
        BY <3>1
      <4> QED
        BY <3>3, <3>6, <4>1
    <3> DEFINE s == SubSeq(t, u + 7, u + 6 + x)
    <3>8. s = number(i)
      <4>1. ASSUME NEW j \in 1..x PROVE t[u + 6 + j] = number(i)[j]
        <5>1. u + 2 + j \in 1..z /\ 4 + (u + 2 + j) = u + 6 + j
          BY <3>1
        <5> QED
          BY <3>1, <3>4, <5>1
      <4>2. number(i) \in Seq(Int) /\ Len(number(i)) = x
        BY <2>2 DEF x
      <4>3. \A j \in (u + 7)..(u + 6 + x) : t[j] \in Int
        <5> SUFFICES ASSUME NEW j \in (u + 7)..(u + 6 + x) PROVE t[j] \in Int
          OBVIOUS
        <5>1. j - (u + 6) \in 1..x /\ u + 6 + (j - (u + 6)) = j
          BY <3>1
        <5>2. number(i)[j - (u + 6)] \in Int
          BY <4>2, <5>1
        <5> QED
          BY <4>1, <5>1, <5>2
      <4>4. s \in Seq(Int) /\ Len(s) = x /\ \A j \in 1..x : s[j] = t[u + 7 + j - 1]
        <5>1. u + 7 \in Int /\ u + 6 + x \in Int /\ u + 7 <= u + 6 + x /\ (u + 6 + x) - (u + 7) + 1 = x
          BY <3>1
        <5> QED
          BY <4>3, <5>1, SubSeqProperties
      <4>5. ASSUME NEW j \in 1..x PROVE s[j] = number(i)[j]
        <5>0. u \in Nat /\ x \in Nat
          BY <3>1
        <5>1. u + 7 + j - 1 = u + 6 + j
          BY <5>0
        <5> QED
          BY <4>1, <4>4, <5>1
      <4> HIDE DEF s
      <4> QED
        BY <4>2, <4>4, <4>5, SeqEqual
    <3>9. SubSeq(t, closed[i] + 2, closed[i] + 1 + t[closed[i] + 1]) = number(i)
      <4>1. closed[i] + 2 = u + 7 /\ closed[i] + 1 + x = u + 6 + x
        BY <3>1, <3>3
      <4> QED
        BY <3>3, <3>6, <3>8, <4>1
    <3> QED
      BY <3>2, <3>3, <3>6, <3>7, <3>9 DEF u
  <2>11. Whole(closed)
    <3> DEFINE w == [i \in 1..(n + 1) |-> IF i = 1 THEN 5 ELSE closed[i - 1] + 2 + t[closed[i - 1] + 1]]
    <3>1. ASSUME NEW i \in 1..(n + 1) PROVE closed[i] = w[i]
      <4>1. CASE i = 1
        <5>1. i - 1 = 0 /\ 5 + upTo[0] = 5
          BY <2>7, <4>1
        <5> QED
          BY <4>1, <5>1
      <4>2. CASE i # 1
        <5>1. i - 1 \in 1..n /\ (i - 1) + 1 = i
          BY <1>1, <4>2
        <5> HIDE DEF closed
        <5> QED
          BY <2>10, <4>2, <5>1
      <4> QED
        BY <4>1, <4>2
    <3>2. closed = [i \in 1..(n + 1) |-> closed[i]]
      OBVIOUS
    <3> HIDE DEF closed, w
    <3>3. closed = w
      BY <3>1, <3>2 DEF w
    <3> QED
      BY <2>8, <3>3 DEF w
  <2>12. Whole(at)
    <3> HIDE DEF Whole, closed
    <3> QED
      BY <2>11
  <2> HIDE DEF at
  <2>13. \A i \in 1..n : at[i] = closed[i]
    <3> DEFINE S == {i \in 0..n : at[i + 1] = closed[i + 1]}
    <3> HIDE DEF closed
    <3>0. n \in Nat /\ t[4] = n
      BY <1>1, <2>8
    <3>1. 0 \in S
      <4>1. 1 \in 1..(n + 1) /\ 0 \in 0..n /\ 0 + 1 = 1
        BY <3>0
      <4> QED
        BY <2>11, <2>12, <3>0, <4>1
    <3>2. ASSUME NEW i \in 1..n, i - 1 \in S PROVE i \in S
      <4>1. i + 1 \in 1..(n + 1) /\ i + 1 # 1 /\ (i + 1) - 1 = i /\ (i - 1) + 1 = i /\ i \in 0..n
        BY <3>0
      <4>2. at[i] = closed[i]
        BY <3>2, <4>1
      <4>3. at[i + 1] = at[i] + 2 + t[at[i] + 1] /\ closed[i + 1] = closed[i] + 2 + t[closed[i] + 1]
        BY <2>11, <2>12, <3>0, <4>1
      <4> QED
        BY <4>1, <4>2, <4>3
    <3> HIDE DEF S
    <3>3. 0..n \subseteq S
      BY <3>0, <3>1, <3>2, Counting
    <3> SUFFICES ASSUME NEW i \in 1..n PROVE at[i] = closed[i]
      OBVIOUS
    <3>4. i - 1 \in S /\ (i - 1) + 1 = i
      BY <3>0, <3>3
    <3> QED
      BY <3>4 DEF S
  <2> HIDE DEF closed, Whole
  <2>14. ASSUME NEW i \in 1..n
         PROVE  /\ vs[i].module < 256 => P!OrdersIn(t)[i].module = vs[i].module
                /\ Near(i, P!OrdersIn(t)[i].number)
    <3>1. P!OrdersIn(t)[i] = order2(i)
      <4> HIDE DEF order2
      <4> QED
        BY <2>8, <2>9
    <3>2. order2(i).module = vs[i].module % 256
      BY <2>10, <2>13
    <3>3. order2(i).number = raw(i) % P!Pow[k(i)]
      <4>1. order2(i).number = P!Number(number(i))
        BY <2>10, <2>13
      <4> QED
        BY <2>2, <4>1
    <3>4. vs[i].module < 256 => vs[i].module % 256 = vs[i].module
      <4> DEFINE x == vs[i].module
      <4>1. x \in Nat
        BY <2>2
      <4> HIDE DEF x
      <4>2. x < 256 => x % 256 = x
        BY <4>1
      <4> QED
        BY <4>2 DEF x
    <3>5. Near(i, raw(i) % P!Pow[k(i)])
      <4> DEFINE w == vs[i].number
                 ty == type(i)
      <4>1. w \in Int
        BY <1>1
      <4>2. raw(i) = P!RoundDiv(w * P!Scale(ty), 1000) /\ k(i) = P!Size(ty)
        BY DEF k
      <4> HIDE DEF w, ty, raw
      <4>3. LET p    == P!Pow[P!Size(ty)]
                r    == P!RoundDiv(w * P!Scale(ty), 1000)
                g    == r % p
                h    == IF g * 2 >= p /\ w < 0 THEN g - p ELSE g
                most == ((p - 1) * 1000) \div P!Scale(ty)
                off  == 2 * (h * 1000 - w * P!Scale(ty))
            IN  -(most \div 2) <= w /\ w <= most => -1000 <= off /\ off <= 1000
        BY <4>1, <1>r
      <4>4. Near(i, raw(i) % P!Pow[k(i)])
              <=> LET p    == P!Pow[P!Size(ty)]
                      g    == raw(i) % p
                      h    == IF g * 2 >= p /\ w < 0 THEN g - p ELSE g
                      most == ((p - 1) * 1000) \div P!Scale(ty)
                      off  == 2 * (h * 1000 - w * P!Scale(ty))
                  IN  -(most \div 2) <= w /\ w <= most => -1000 <= off /\ off <= 1000
        BY <4>2 DEF w, ty
      <4> HIDE DEF Near, k
      <4> QED
        BY <4>2, <4>3, <4>4
    <3> HIDE DEF order2, Near
    <3> QED
      BY <3>1, <3>2, <3>3, <3>4, <3>5
  <2>15. t # <<>> /\ Len(P!OrdersIn(t)) = n
    <3>1. Len(t) # 0
      BY <2>8
    <3>2. Len([i \in 1..t[4] |-> order2(i)]) = n
      <4> HIDE DEF order2
      <4> QED
        BY <1>1, <2>8
    <3> HIDE DEF order2
    <3>3. Len(P!OrdersIn(t)) = n
      BY <2>9, <3>2
    <3>4. t # <<>>
      BY <3>1
    <3> QED
      BY <3>3, <3>4
  <2> HIDE DEF Near
  <2> QED
    BY <1>4, <2>8, <2>14, <2>15
<1> QED
  BY ZenonT(40), <1>3, <1>4

\* Between two messages nothing is left of the last one.
PanInv ==
  /\ P!PanTypeOK /\ P!ReportIsRight /\ P!OrderIsRight
  /\ pan = "idle" => report = <<>> /\ toServer = <<>> /\ order = <<>> /\ toPan = <<>>

\* PanIsRight holds whatever the numbers, the devices and the length of the messages: a
\* report and a command are built and read by the same table, reading by reading
\* (PanInterface.cpp:81-139, 176-288).
THEOREM PanHolds == ServicesSpec => [](P!PanTypeOK /\ PanIsRight)
<1>1. P!PanInit => PanInv
  BY DEF P!PanInit, P!PanTypeOK, P!ReportIsRight, P!OrderIsRight, PanInv
<1>2. PanInv /\ [P!PanNext]_P!panVars => PanInv'
  <2> SUFFICES ASSUME PanInv, [P!PanNext]_P!panVars PROVE PanInv'
    OBVIOUS
  <2>1. ASSUME NEW m, P!FromSensor(m), pan = "idle" PROVE P!PanTypeOK'
    <3> DEFINE bytes == P!Received(m)
               p == P!Parsed(m.device, SubSeq(bytes, 6, Len(bytes)), bytes[5])
               signals == P!Signals(m.device, bytes[3])
               told == p.values \o P!SetToSeq({signals[x] : x \in DOMAIN signals})
    <3>1. /\ pan' = "done" /\ toPan' = toPan
          /\ \/ priority' = priority /\ toServer' = toServer
             \/ /\ priority' = IF p.last = -1 THEN priority
                               ELSE IF P!IsActuator(m.device, p.last) THEN "actuator" ELSE "sensor"
                /\ toServer' = IF p.ok /\ told # <<>>
                               THEN [address |-> bytes[2], pairs |-> Len(told),
                                     values |-> told, priority |-> priority']
                               ELSE <<>>
      BY <2>1 DEF P!FromSensor
    <3> HIDE DEF told, p, bytes
    <3>2. /\ pan' = "done" /\ toPan' = toPan
          /\ priority' = priority \/ priority' \in {"actuator", "sensor"}
          /\ toServer' = toServer \/ toServer' = <<>>
               \/ (told # <<>> /\ toServer'.pairs = Len(told) /\ toServer'.values = told)
      BY <3>1
    <3> QED
      BY <2>1, <3>2 DEF P!PanTypeOK, PanInv
  <2>2. ASSUME P!AReport, pan = "idle" PROVE PanInv'
    <3>0. report = <<>> /\ toServer = <<>> /\ order = <<>> /\ toPan = <<>>
      BY <2>2 DEF PanInv
    <3>1. CASE P!WaitForAdapter
      BY <3>0, <3>1 DEF P!WaitForAdapter, P!PanTypeOK, P!ReportIsRight, P!OrderIsRight, PanInv
    <3>2. ASSUME NEW d \in Devices, NEW st \in Strengths, NEW c \in BOOLEAN,
                 NEW rs \in P!Lists(d, Numbers),
                 P!FromSensor([address |-> 7, device |-> d, strength |-> st, readings |-> rs,
                               closed |-> c])
          PROVE  PanInv'
      <4> DEFINE m == ReportOf(d, st, c, rs)
      <4>1. P!FromSensor(m)
        BY <3>2 DEF ReportOf
      <4>2. P!ReportIsRight'
        BY <3>0, <4>1, ReportFacts
      <4> HIDE DEF m
      <4>3. pan' = "done" /\ order' = order
        BY <4>1 DEF P!FromSensor
      <4>4. P!PanTypeOK'
        BY <2>1, <2>2, <4>1
      <4> QED
        BY <3>0, <4>2, <4>3, <4>4 DEF P!OrderIsRight, PanInv
    <3> QED
      BY <2>2, <3>1, <3>2 DEF P!AReport
  <2>3. ASSUME P!ACommand, pan = "idle" PROVE PanInv'
    <3>0. report = <<>> /\ toServer = <<>> /\ order = <<>> /\ toPan = <<>>
      BY <2>3 DEF PanInv
    <3>1. ASSUME NEW e, P!DeleteDevice(e) \/ P!SetPairingMode \/ P!Reset PROVE PanInv'
      <4>1. pan' = "done" /\ UNCHANGED <<priority, report, toServer, order>>
        BY <3>1 DEF P!DeleteDevice, P!SetPairingMode, P!Reset
      <4>2. P!PanTypeOK'
        BY <3>0, <4>1 DEF P!PanTypeOK, PanInv
      <4>3. P!ReportIsRight' /\ P!OrderIsRight'
        BY <3>0, <4>1 DEF P!ReportIsRight, P!OrderIsRight
      <4> QED
        BY <4>1, <4>2, <4>3 DEF PanInv
    <3>2. ASSUME NEW d \in Devices, NEW e \in [high : {0, 1}, low : {7}],
                 NEW vs \in P!Lists(d, Wanted),
                 P!SetActuators([device |-> d, euid |-> e, values |-> vs])
          PROVE  PanInv'
      <4>1. P!OrderIsRight'
        BY <3>2, OrderFacts
      <4>2. pan' = "done" /\ UNCHANGED <<priority, report, toServer>>
        BY <3>2 DEF P!SetActuators
      <4> QED
        BY <3>0, <4>1, <4>2 DEF P!ReportIsRight, P!PanTypeOK, PanInv
    <3> QED
      BY <2>3, <3>1, <3>2 DEF P!ACommand
  <2>4. CASE P!Passed
    BY <2>4 DEF P!Passed, P!PanTypeOK, P!ReportIsRight, P!OrderIsRight, PanInv
  <2>5. CASE UNCHANGED P!panVars
    <3>1. pan' = pan /\ priority' = priority /\ report' = report /\ toServer' = toServer
          /\ order' = order /\ toPan' = toPan
      BY <2>5 DEF P!panVars
    <3>2. P!PanTypeOK'
      BY <3>1 DEF PanInv, P!PanTypeOK
    <3>3. P!ReportIsRight'
      BY <3>1 DEF PanInv, P!ReportIsRight
    <3>4. P!OrderIsRight'
      <4>1. order' = order /\ toPan' = toPan /\ P!OrderIsRight
        BY <3>1 DEF PanInv
      <4> QED
        BY <4>1 DEF P!OrderIsRight
    <3> QED
      BY <3>1, <3>2, <3>3, <3>4 DEF PanInv
  <2> QED
    BY <2>2, <2>3, <2>4, <2>5 DEF P!PanNext
<1>3. PanInv => P!PanTypeOK /\ PanIsRight
  BY DEF PanInv, PanIsRight
<1> QED
  BY <1>1, <1>2, <1>3, PartsRun, PTL

-----------------------------------------------------------------------------
(* Time in a blackout (BlackoutClock). *)

\* What is counted and noted keeps its order.
Order ==
  /\ blackout <= MaxBlackouts + restarts + 1
  /\ ~loaded => wd = "idle"
  /\ wd = "saw" => saw = Epoch + start

\* The file has the times that the messages have, of messages that were cached.
FileIsCopy ==
  \A line \in file : line[2] = time[line[1]] /\ state[line[1]] \in {"cached", "gone"}

\* A message that has not reached the cache is not late; one without a valid time was
\* stamped by the clock that was not set.
StampIsRight(m) ==
  /\ within[m] <= blackout /\ restored[m] <= blackout
  /\ state[m] = "new" => restored[m] = -1
  /\ state[m] = "stamped" => 0 <= now - taken[m] /\ now - taken[m] <= Delay
  /\ (state[m] # "new" /\ within[m] = blackout /\ ~IsTimeValid(time[m])) =>
       time[m] = taken[m] - boot

\* What the time of a waiting message would be, once the blackout began at a moment.
Near(m, moment, late) == 0 <= moment + offset[m] - taken[m] /\ moment + offset[m] - taken[m] <= late

\* The offset counts from the beginning that the watchdog has noted, or will note: until
\* then a round of run() passes at most.
OffsetIsRight(m) ==
  (Waiting(m) /\ within[m] = blackout) =>
    /\ Active => Near(m, start, Round + Delay)
    /\ (~Active /\ ~clock) => Near(m, now, (IF wd = "done" THEN 0 ELSE round) + Delay)

ClockInv ==
  /\ TypeOK /\ Order /\ FileIsCopy /\ RestoredIsClose
  /\ \A m \in Msgs : StampIsRight(m) /\ OffsetIsRight(m)

\* RestoredIsClose holds whatever the constants: the file only copies, so that a restart
\* in the same blackout costs the offset but not the time it is computed from, and until
\* the watchdog starts the offset of what waits is short of now by no more than a round
\* (Aggregator.h:91-114, Aggregator.cpp:157-168, 236-242, 481-493, 540-552).
THEOREM Restored == ServicesSpec => [](TypeOK /\ RestoredIsClose)
<1> USE ClockAssumption, DelayAssumption, BoundAssumption
<1>1. Init => ClockInv
  <2> SUFFICES ASSUME Init PROVE ClockInv
    OBVIOUS
  <2>1. TypeOK
    <3>1. taken \in [Msgs -> 0..MaxTime] /\ within \in [Msgs -> Nat]
      BY DEF Init
    <3>2. /\ time \in [Msgs -> Int] /\ offset \in [Msgs -> Int] /\ valid \in [Msgs -> BOOLEAN]
          /\ restored \in [Msgs -> Int]
      BY DEF Init
    <3>3. blackout \in 0..(MaxBlackouts + MaxRestarts + 1)
      BY DEF Init
    <3>4. now \in 0..MaxTime /\ boot \in 0..MaxTime /\ start \in 0..MaxTime /\ round \in 0..Round
      BY DEF Init
    <3>5. restarts \in 0..MaxRestarts /\ saw \in Int
      BY DEF Init
    <3> QED
      BY <3>1, <3>2, <3>3, <3>4, <3>5 DEF Init, TypeOK
  <2>2. Order
    <3>1. blackout <= MaxBlackouts + restarts + 1
      BY DEF Init
    <3> QED
      BY <3>1 DEF Init, Order
  <2>3. FileIsCopy /\ RestoredIsClose
    BY DEF Init, FileIsCopy, RestoredIsClose
  <2>4. \A m \in Msgs : StampIsRight(m) /\ OffsetIsRight(m)
    <3>1. blackout \in {0, 1}
      BY DEF Init
    <3> SUFFICES ASSUME NEW m \in Msgs PROVE StampIsRight(m) /\ OffsetIsRight(m)
      OBVIOUS
    <3>2. within[m] = 0 /\ restored[m] = -1 /\ state[m] = "new"
      BY DEF Init
    <3> QED
      BY <3>1, <3>2 DEF StampIsRight, OffsetIsRight, Waiting
  <2> QED
    BY <2>1, <2>2, <2>3, <2>4 DEF ClockInv
<1>2. ClockInv /\ [Next]_vars => ClockInv'
  <2> SUFFICES ASSUME ClockInv, [Next]_vars PROVE ClockInv'
    OBVIOUS
  <2> USE DEF ClockInv
  <2>1. ASSUME NEW m \in Msgs, Stamp(m) PROVE ClockInv'
    <3>1. TypeOK'
      BY <2>1 DEF Stamp, TypeOK, SystemTime, clockVars, wdVars
    <3>2. Order'
      BY <2>1 DEF Stamp, Order, clockVars, wdVars
    <3>3. FileIsCopy'
      BY <2>1 DEF Stamp, FileIsCopy, TypeOK
    <3>4. RestoredIsClose'
      BY <2>1 DEF Stamp, RestoredIsClose, Error, StampIsRight, TypeOK
    <3>5. ASSUME NEW n \in Msgs PROVE StampIsRight(n)' /\ OffsetIsRight(n)'
      <4>1. CASE n = m
        BY <2>1, <4>1 DEF Stamp, StampIsRight, OffsetIsRight, Waiting, TypeOK, clockVars, wdVars,
          SystemTime, IsTimeValid
      <4>2. CASE n # m
        BY <2>1, <4>2 DEF Stamp, StampIsRight, OffsetIsRight, Near, Waiting, Active, TypeOK,
          clockVars, wdVars, IsTimeValid
      <4> QED
        BY <4>1, <4>2
    <3> QED
      BY <3>1, <3>2, <3>3, <3>4, <3>5
  <2>2. ASSUME NEW m \in Msgs, SendData(m) PROVE ClockInv'
    <3>1. TypeOK'
      <4>1. offset' \in [Msgs -> Int]
        BY <2>2 DEF SendData, TypeOK, GetOffset
      <4>2. valid' \in [Msgs -> BOOLEAN] /\ state' \in [Msgs -> {"new", "stamped", "cached", "gone"}]
        BY <2>2 DEF SendData, TypeOK, IsTimeValid
      <4> QED
        BY <2>2, <4>1, <4>2 DEF SendData, TypeOK, clockVars, trueVars, wdVars
    <3>2. Order' /\ RestoredIsClose'
      BY <2>2 DEF SendData, Order, RestoredIsClose, Error, clockVars, trueVars, wdVars
    <3>3. FileIsCopy'
      BY <2>2 DEF SendData, FileIsCopy, TypeOK
    <3>4. ASSUME NEW n \in Msgs PROVE StampIsRight(n)' /\ OffsetIsRight(n)'
      <4>1. CASE n = m
        <5>1. /\ state[m] = "stamped" /\ state'[m] = "cached" /\ valid'[m] = IsTimeValid(time[m])
              /\ ~IsTimeValid(time[m]) => offset'[m] = GetOffset
              /\ UNCHANGED <<clockVars, trueVars, time, file, loaded, round, wdVars>>
          BY <2>2 DEF SendData, TypeOK
        <5>2. StampIsRight(m)'
          BY <5>1 DEF StampIsRight, clockVars, trueVars, IsTimeValid
        <5>3. OffsetIsRight(m)'
          BY <5>1 DEF StampIsRight, OffsetIsRight, Near, Waiting, Active, GetOffset, TypeOK,
            clockVars, trueVars, wdVars
        <5> QED
          BY <4>1, <5>2, <5>3
      <4>2. CASE n # m
        BY <2>2, <4>2 DEF SendData, StampIsRight, OffsetIsRight, Near, Waiting, Active, TypeOK,
          clockVars, trueVars, wdVars, IsTimeValid
      <4> QED
        BY <4>1, <4>2
    <3> QED
      BY <3>1, <3>2, <3>3, <3>4
  <2>3. CASE Load
    <3>1. \A m \in Msgs : OnFile(m) => FileTime(m) = time[m] /\ state[m] \in {"cached", "gone"}
      BY DEF OnFile, FileTime, FileIsCopy
    <3>2. /\ ~loaded /\ wd = "idle" /\ time' = time /\ loaded' = TRUE
          /\ UNCHANGED <<clockVars, trueVars, file, round, wdVars>>
      BY <2>3, <3>1 DEF Load, TypeOK, Order
    <3>3. \A m \in Msgs :
            IF OnFile(m)
            THEN /\ state[m] \in {"cached", "gone"} /\ state'[m] = "cached"
                 /\ valid'[m] = IsTimeValid(time[m])
                 /\ offset'[m] = IF IsTimeValid(time[m]) \/ clock THEN 0 ELSE time[m] - SystemTime
            ELSE state'[m] = state[m] /\ valid'[m] = valid[m] /\ offset'[m] = offset[m]
      BY <2>3, <3>1 DEF Load
    <3>4. TypeOK'
      <4>1. state' \in [Msgs -> {"new", "stamped", "cached", "gone"}]
        BY <2>3 DEF Load, TypeOK
      <4>2. valid' \in [Msgs -> BOOLEAN]
        <5>1. valid' = [m \in Msgs |-> valid'[m]]
          BY <2>3 DEF Load
        <5>2. ASSUME NEW m \in Msgs PROVE valid'[m] \in BOOLEAN
          <6>1. CASE OnFile(m)
            <7>1. IsTimeValid(time[m]) \in BOOLEAN
              BY DEF IsTimeValid
            <7> QED
              BY <3>3, <6>1, <7>1
          <6>2. CASE ~OnFile(m)
            BY <3>3, <6>2 DEF TypeOK
          <6> QED
            BY <6>1, <6>2
        <5> QED
          BY <5>1, <5>2
      <4>3. SystemTime \in Int
        BY DEF SystemTime, TypeOK
      <4>4. offset' \in [Msgs -> Int]
        <5>1. offset' = [m \in Msgs |-> offset'[m]]
          BY <2>3 DEF Load
        <5> QED
          BY <3>3, <4>3, <5>1 DEF TypeOK
      <4> QED
        BY <3>2, <4>1, <4>2, <4>4 DEF TypeOK, clockVars, trueVars, wdVars
    <3>5. Order' /\ RestoredIsClose'
      BY <3>2 DEF Order, RestoredIsClose, Error, clockVars, trueVars, wdVars
    <3>6. FileIsCopy'
      BY <3>2, <3>3 DEF FileIsCopy, TypeOK
    <3>7. ASSUME NEW m \in Msgs PROVE StampIsRight(m)' /\ OffsetIsRight(m)'
      <4>1. StampIsRight(m)'
        BY <3>2, <3>3 DEF StampIsRight, IsTimeValid, clockVars, trueVars
      <4>2. CASE ~OnFile(m)
        BY <3>2, <3>3, <4>1, <4>2 DEF OffsetIsRight, Near, Waiting, Active, clockVars, trueVars, wdVars
      <4>3. CASE OnFile(m)
        <5>1. ASSUME ~valid'[m], within[m] = blackout, ~clock
              PROVE  now + offset'[m] - taken[m] = 0
          <6>1. ~IsTimeValid(time[m]) /\ offset'[m] = time[m] - SystemTime /\ state[m] # "new"
            BY <3>3, <4>3, <5>1
          <6>2. time[m] = taken[m] - boot
            BY <5>1, <6>1 DEF StampIsRight
          <6> QED
            BY <5>1, <6>1, <6>2 DEF SystemTime, TypeOK
        <5>2. round + Delay >= 0
          BY DEF TypeOK
        <5>3. OffsetIsRight(m)'
          BY <3>2, <5>1, <5>2 DEF OffsetIsRight, Near, Waiting, Active, clockVars, trueVars, wdVars
        <5> QED
          BY <4>1, <5>3
      <4> QED
        BY <4>1, <4>2, <4>3
    <3> QED
      BY <3>4, <3>5, <3>6, <3>7
  <2>4. CASE StartWatchdog
    <3>1. /\ ~clock /\ wd = "idle" /\ wd' = "active" /\ start' = now /\ round' = 0 /\ loaded
          /\ file' \in {file, CacheLines}
          /\ UNCHANGED <<clockVars, state, trueVars, msgVars, loaded, saw>>
      BY <2>4 DEF StartWatchdog
    <3>2. file' \subseteq Msgs \X Int
      BY <3>1 DEF CacheLines, TypeOK
    <3>3. TypeOK'
      BY <3>1, <3>2 DEF TypeOK, clockVars, trueVars, msgVars
    <3>4. Order' /\ RestoredIsClose'
      BY <3>1 DEF Order, RestoredIsClose, Error, clockVars, trueVars, msgVars
    <3>5. FileIsCopy'
      BY <3>1 DEF FileIsCopy, CacheLines, msgVars
    <3>6. ASSUME NEW m \in Msgs PROVE StampIsRight(m)' /\ OffsetIsRight(m)'
      BY <3>1 DEF StampIsRight, OffsetIsRight, Near, Waiting, Active, TypeOK, clockVars, trueVars,
        msgVars, IsTimeValid
    <3> QED
      BY <3>3, <3>4, <3>5, <3>6
  <2>5. CASE Look
    <3>1. /\ (clock \/ wd # "idle") /\ round' = 0 /\ file' \in {file, CacheLines}
          /\ UNCHANGED <<clockVars, state, trueVars, msgVars, loaded, wdVars>>
      BY <2>5 DEF Look
    <3>2. file' \subseteq Msgs \X Int
      BY <3>1 DEF CacheLines, TypeOK
    <3>3. TypeOK'
      BY <3>1, <3>2 DEF TypeOK, clockVars, trueVars, msgVars, wdVars
    <3>4. Order' /\ RestoredIsClose'
      BY <3>1 DEF Order, RestoredIsClose, Error, clockVars, trueVars, msgVars, wdVars
    <3>5. FileIsCopy'
      BY <3>1 DEF FileIsCopy, CacheLines, msgVars
    <3>6. ASSUME NEW m \in Msgs PROVE StampIsRight(m)' /\ OffsetIsRight(m)'
      BY <3>1 DEF StampIsRight, OffsetIsRight, Near, Waiting, Active, TypeOK, clockVars, trueVars,
        msgVars, wdVars, IsTimeValid
    <3> QED
      BY <3>3, <3>4, <3>5, <3>6
  <2>6. CASE SeeClock
    <3>1. /\ wd = "active" /\ wd' = "saw" /\ saw' = Epoch + start
          /\ UNCHANGED <<clockVars, state, trueVars, msgVars, file, loaded, round, start>>
      BY <2>6 DEF SeeClock, SystemTime, GetOffset, Active, TypeOK
    <3>2. TypeOK' /\ Order' /\ RestoredIsClose' /\ FileIsCopy'
      BY <3>1 DEF TypeOK, Order, RestoredIsClose, Error, FileIsCopy, clockVars, trueVars, msgVars
    <3>3. ASSUME NEW m \in Msgs PROVE StampIsRight(m)' /\ OffsetIsRight(m)'
      BY <3>1 DEF StampIsRight, OffsetIsRight, Near, Waiting, Active, clockVars, trueVars, msgVars,
        IsTimeValid
    <3> QED
      BY <3>2, <3>3
  <2>7. CASE Validate
    <3>1. /\ wd = "saw" /\ wd' = "done" /\ saw = Epoch + start
          /\ UNCHANGED <<clockVars, state, taken, within, loaded, round, start, saw>>
      BY <2>7 DEF Validate, Order
    <3>2. /\ time' \in [Msgs -> Int] /\ offset' \in [Msgs -> Int] /\ valid' \in [Msgs -> BOOLEAN]
          /\ restored' \in [Msgs -> Int]
      BY <2>7 DEF Validate, RestoredTime, TypeOK
    <3>3. file' = {<<m, time'[m]>> : m \in {n \in Msgs : state[n] = "cached"}}
      BY <2>7 DEF Validate
    <3>4. TypeOK'
      BY <3>1, <3>2, <3>3 DEF TypeOK, clockVars
    <3>5. Order' /\ FileIsCopy'
      BY <3>1, <3>3 DEF Order, FileIsCopy, clockVars
    <3>6. \A m \in Msgs :
            IF Waiting(m)
            THEN time'[m] = Epoch + start + offset[m] /\ valid'[m] = TRUE /\ restored'[m] = blackout
            ELSE time'[m] = time[m] /\ valid'[m] = valid[m] /\ restored'[m] = restored[m]
      BY <2>7, <3>1 DEF Validate, RestoredTime, TypeOK
    <3>7. ASSUME NEW m \in Msgs, Waiting(m), within[m] = blackout
          PROVE  time'[m] - (Epoch + taken[m]) \in 0..(Round + Delay)
      BY <3>1, <3>6, <3>7 DEF OffsetIsRight, Near, Active, TypeOK
    <3>8. RestoredIsClose'
      BY <3>1, <3>6, <3>7 DEF RestoredIsClose, Error, TypeOK
    <3>9. ASSUME NEW m \in Msgs PROVE StampIsRight(m)' /\ OffsetIsRight(m)'
      <4>1. CASE Waiting(m)
        <5>1. within[m] = blackout => IsTimeValid(time'[m])
          BY <3>7, <3>2, <4>1 DEF IsTimeValid, TypeOK
        <5> QED
          BY <3>1, <3>6, <4>1, <5>1 DEF StampIsRight, OffsetIsRight, Waiting, TypeOK, clockVars,
            IsTimeValid
      <4>2. CASE ~Waiting(m)
        BY <3>1, <3>6, <4>2 DEF StampIsRight, OffsetIsRight, Waiting, TypeOK, clockVars,
          IsTimeValid
      <4> QED
        BY <4>1, <4>2
    <3> QED
      BY <3>4, <3>5, <3>8, <3>9
  <2>8. CASE Finish
    <3>1. /\ wd = "done" /\ wd' = "idle"
          /\ UNCHANGED <<clockVars, state, trueVars, msgVars, file, loaded, round, start, saw>>
      BY <2>8 DEF Finish
    <3>2. TypeOK' /\ Order' /\ RestoredIsClose' /\ FileIsCopy'
      BY <3>1 DEF TypeOK, Order, RestoredIsClose, Error, FileIsCopy, clockVars, trueVars, msgVars
    <3>3. ASSUME NEW m \in Msgs PROVE StampIsRight(m)' /\ OffsetIsRight(m)'
      BY <3>1 DEF StampIsRight, OffsetIsRight, Near, Waiting, Active, TypeOK, clockVars, trueVars,
        msgVars, IsTimeValid
    <3> QED
      BY <3>2, <3>3
  <2>9. CASE Tick
    <3>1. /\ wd # "done" /\ now < MaxTime /\ now' = now + 1 /\ round < Round /\ round' = round + 1
          /\ \A m \in Msgs : state[m] = "stamped" => now - taken[m] < Delay
          /\ UNCHANGED <<clock, boot, blackout, restarts, state, trueVars, msgVars, file, loaded,
                         wdVars>>
      BY <2>9 DEF Tick
    <3>2. TypeOK' /\ Order' /\ RestoredIsClose' /\ FileIsCopy'
      BY <3>1 DEF TypeOK, Order, RestoredIsClose, Error, FileIsCopy, trueVars, msgVars, wdVars
    <3>3. ASSUME NEW m \in Msgs PROVE StampIsRight(m)' /\ OffsetIsRight(m)'
      BY <3>1 DEF StampIsRight, OffsetIsRight, Near, Waiting, Active, TypeOK, trueVars, msgVars,
        wdVars, IsTimeValid
    <3> QED
      BY <3>2, <3>3
  <2>10. CASE LoseClock
    <3>1. /\ blackout < MaxBlackouts /\ clock' = FALSE /\ boot' = now /\ blackout' = blackout + 1
          /\ UNCHANGED <<now, restarts, state, trueVars, msgVars, file, loaded, round, wdVars>>
      BY <2>10 DEF LoseClock
    <3>2. TypeOK' /\ Order'
      <4>1. blackout' \in 0..(MaxBlackouts + MaxRestarts + 1) /\ boot' \in 0..MaxTime
        BY <3>1 DEF TypeOK
      <4>2. blackout' <= MaxBlackouts + restarts' + 1
        BY <3>1 DEF TypeOK
      <4>3. Order'
        BY <3>1, <4>2 DEF Order, wdVars
      <4> QED
        BY <3>1, <4>1, <4>3 DEF TypeOK, trueVars, msgVars, wdVars
    <3>3. ASSUME NEW m \in Msgs PROVE StampIsRight(m)' /\ OffsetIsRight(m)'
      BY <3>1 DEF StampIsRight, OffsetIsRight, TypeOK, trueVars, msgVars
    <3>4. RestoredIsClose' /\ FileIsCopy'
      BY <3>1 DEF RestoredIsClose, Error, FileIsCopy, trueVars, msgVars
    <3> QED
      BY <3>2, <3>3, <3>4
  <2>11. CASE SetClock
    <3>1. /\ clock' = TRUE
          /\ UNCHANGED <<now, boot, blackout, restarts, state, trueVars, msgVars, file, loaded,
                         round, wdVars>>
      BY <2>11 DEF SetClock
    <3>2. TypeOK' /\ Order' /\ RestoredIsClose' /\ FileIsCopy'
      BY <3>1 DEF TypeOK, Order, RestoredIsClose, Error, FileIsCopy, trueVars, msgVars, wdVars
    <3>3. ASSUME NEW m \in Msgs PROVE StampIsRight(m)' /\ OffsetIsRight(m)'
      BY <3>1 DEF StampIsRight, OffsetIsRight, Near, Waiting, Active, trueVars, msgVars, wdVars,
        IsTimeValid
    <3> QED
      BY <3>2, <3>3
  <2>12. CASE RestartApplication \/ RestartSystem
    <3>1. /\ restarts < MaxRestarts /\ restarts' = restarts + 1 /\ loaded' = FALSE /\ round' = 0
          /\ wd' = "idle" /\ UNCHANGED <<now, trueVars, msgVars, file, start, saw>>
          /\ state' = [m \in Msgs |-> IF state[m] = "new" THEN "new" ELSE "gone"]
      BY <2>12 DEF RestartApplication, RestartSystem, Restarted
    <3>2. \/ UNCHANGED <<clock, boot, blackout>>
          \/ clock' = FALSE /\ boot' = now /\ blackout' = blackout + 1
      BY <2>12 DEF RestartApplication, RestartSystem
    <3>3. TypeOK' /\ Order'
      <4>1. state' \in [Msgs -> {"new", "stamped", "cached", "gone"}]
        BY <3>1
      <4>2. /\ blackout' <= MaxBlackouts + restarts' + 1
            /\ blackout' \in 0..(MaxBlackouts + MaxRestarts + 1)
        BY <3>1, <3>2 DEF TypeOK, Order
      <4>3. clock' \in BOOLEAN /\ boot' \in 0..MaxTime
        BY <3>2 DEF TypeOK
      <4>4. restarts' \in 0..MaxRestarts /\ round' \in 0..Round
        BY <3>1 DEF TypeOK
      <4>5. Order'
        BY <3>1, <4>2 DEF Order
      <4> QED
        BY <3>1, <4>1, <4>2, <4>3, <4>4, <4>5 DEF TypeOK, trueVars, msgVars
    <3>4. FileIsCopy' /\ RestoredIsClose'
      BY <3>1 DEF FileIsCopy, RestoredIsClose, Error, TypeOK, trueVars, msgVars
    <3>5. ASSUME NEW m \in Msgs PROVE StampIsRight(m)' /\ OffsetIsRight(m)'
      BY <3>1, <3>2 DEF StampIsRight, OffsetIsRight, Waiting, TypeOK, trueVars, msgVars,
        IsTimeValid
    <3> QED
      BY <3>3, <3>4, <3>5
  <2>13. CASE UNCHANGED vars
    BY <2>13 DEF vars, TypeOK, Order, RestoredIsClose, Error, FileIsCopy, StampIsRight,
      OffsetIsRight, Near, Waiting, Active, IsTimeValid
  <2> QED
    BY <2>1, <2>2, <2>3, <2>4, <2>5, <2>6, <2>7, <2>8, <2>9, <2>10, <2>11, <2>12, <2>13 DEF Next
<1>3. ClockInv => TypeOK /\ RestoredIsClose
  BY DEF ClockInv
<1> QED
  BY <1>1, <1>2, <1>3, PartsRun, PTL

-----------------------------------------------------------------------------
(* The whole. *)

\* The server is told what the Jablotron devices mean and how the WeMo switch is, and an
\* order goes to the device that it is for (JablotronModule.cpp:115-330,
\* Belkin_WeMo.cpp:37-53, Aggregator.cpp:330-364).
THEOREM DevicesHold ==
  ServicesSpec =>
    [](J!ReadingsTypeOK /\ W!BelkinTypeOK /\ R!RouterTypeOK /\ DevicesAreRight)
\* What the dongle's packets say reaches the server with their events, and the ends of these
\* (JablotronModule.cpp:115-330).
<1>readings. J!ReadingsInit /\ [][J!ReadingsNext]_J!readingVars => [](J!ReadingsTypeOK /\ J!ReadingsAreRight)
  <2> DEFINE fire == [module |-> 0, on |-> 1, off |-> 0]
  <2> DEFINE door == [module |-> 0, on |-> 1, off |-> 2]
  <2> DEFINE panic == [module |-> 1, on |-> 1, off |-> 2]
  <2> DEFINE words == {<<"JA85ST", "SENSOR">>, <<"JA83P", "SENSOR">>, <<"RC86K", "PANIC">>}
  <2>0. MaxSeconds \in Nat
    BY MoreBoundsAssumption
  <2>a. /\ DOMAIN J!Events = words /\ J!Events[<<"JA85ST", "SENSOR">>] = fire
        /\ J!Events[<<"JA83P", "SENSOR">>] = door /\ J!Events[<<"RC86K", "PANIC">>] = panic
    BY DEF J!Events
  <2>b. J!EventTypes = {"JA85ST", "JA83P", "RC86K"}
    BY <2>a DEF J!EventTypes
  <2>c. J!EventOf("JA85ST") = fire /\ J!EventOf("JA83P") = door /\ J!EventOf("RC86K") = panic
    <3>1. (CHOOSE e \in words : e[1] = "JA85ST") = <<"JA85ST", "SENSOR">>
      OBVIOUS
    <3>2. (CHOOSE e \in words : e[1] = "JA83P") = <<"JA83P", "SENSOR">>
      OBVIOUS
    <3>3. (CHOOSE e \in words : e[1] = "RC86K") = <<"RC86K", "PANIC">>
      OBVIOUS
    <3> HIDE DEF words
    <3> QED
      BY <2>a, <3>1, <3>2, <3>3 DEF J!EventOf
  <2>d. \A p : J!IsEvent(p) <=> \/ p.type = "JA85ST" /\ p.word = "SENSOR"
                                \/ p.type = "JA83P" /\ p.word = "SENSOR"
                                \/ p.type = "RC86K" /\ p.word = "PANIC"
    BY <2>a DEF J!IsEvent
  <2>e. \A p : J!IsEvent(p) => /\ p.type \in J!EventTypes
                               /\ J!Events[<<p.type, p.word>>] = J!EventOf(p.type)
    BY <2>a, <2>b, <2>c, <2>d
  <2>f. \A t \in J!EventTypes : /\ J!EventOf(t).module \in {0, 1} /\ J!EventOf(t).on = 1
                                /\ J!EventOf(t).off \in {0, 2}
    BY <2>b, <2>c
  \* What a packet says of the module of its event.
  <2>g. ASSUME NEW p, ~J!Unreadable(p), p.type \in J!EventTypes
        PROVE  LET z == J!Values(p)
               IN  /\ \A i \in DOMAIN z : z[i].module = J!EventOf(p.type).module =>
                        z[i].value = 1 /\ (J!IsEvent(p) \/ p.type = "JA85ST")
                   /\ J!IsEvent(p) => \E i \in DOMAIN z : z[i].module = J!EventOf(p.type).module
                   /\ z # <<>>
    <3> DEFINE b == [module |-> J!Battery(p.type), value |-> IF p.battery = 1 THEN J!Low ELSE J!Full]
    <3>1. J!Values(p) = <<b>> \o J!ValueOf(p)
      BY <2>b, <2>g DEF J!Values, J!V
    <3>2. b.module # J!EventOf(p.type).module
      BY <2>b, <2>c, <2>g DEF J!Battery
    <3>3. J!HasArgument(p) =>
            /\ J!Arguments[<<p.type, p.word>>] # J!EventOf(p.type).module /\ ~J!IsEvent(p)
      BY <2>b, <2>c, <2>d, <2>g DEF J!HasArgument, J!Arguments
    <3> HIDE DEF b
    <3>4. CASE J!ValueOf(p) = <<>>
      <4>1. J!Values(p) = <<b>>
        BY <3>1, <3>4
      <4>2. ~J!IsEvent(p)
        BY <3>3, <3>4 DEF J!ValueOf, J!V
      <4> QED
        BY <3>2, <4>1, <4>2
    <3>5. ASSUME NEW m, NEW v, J!ValueOf(p) = J!V(m, v),
                 m = J!EventOf(p.type).module => v = 1 /\ (J!IsEvent(p) \/ p.type = "JA85ST"),
                 J!IsEvent(p) => m = J!EventOf(p.type).module
          PROVE  LET z == J!Values(p)
                 IN  /\ \A i \in DOMAIN z : z[i].module = J!EventOf(p.type).module =>
                          z[i].value = 1 /\ (J!IsEvent(p) \/ p.type = "JA85ST")
                     /\ J!IsEvent(p) => \E i \in DOMAIN z : z[i].module = J!EventOf(p.type).module
                     /\ z # <<>>
      <4> DEFINE d == [module |-> m, value |-> v]
      <4> DEFINE z == <<b>> \o <<d>>
      <4>1. J!Values(p) = z
        BY <3>1, <3>5 DEF J!V
      <4>2. d.module = m /\ d.value = v
        OBVIOUS
      <4> HIDE DEF d
      <4>3. <<b>> \in Seq({b, d}) /\ <<d>> \in Seq({b, d}) /\ Len(<<b>>) = 1 /\ Len(<<d>>) = 1
        OBVIOUS
      <4>4. z \in Seq({b, d}) /\ Len(z) = 2 /\ z[1] = b /\ z[2] = d
        BY <4>3, ConcatProperties
      <4> HIDE DEF z
      <4>5. DOMAIN z = {1, 2} /\ z # <<>>
        BY <4>4
      <4> QED
        BY <3>2, <3>5, <4>1, <4>2, <4>4, <4>5
    <3>6. CASE J!IsEvent(p)
      <4>1. J!ValueOf(p) = J!V(J!EventOf(p.type).module, J!EventOf(p.type).on)
        <5>1. /\ ~J!HasArgument(p) /\ ~(p.type = "JA85ST" /\ p.word = "BUTTON") /\ p.type # "TP82N"
          BY <2>d, <3>3, <3>6
        <5>2. J!ValueOf(p) = J!V(J!Events[<<p.type, p.word>>].module, J!Events[<<p.type, p.word>>].on)
          BY <3>6, <5>1 DEF J!ValueOf
        <5> QED
          BY <2>e, <3>6, <5>2
      <4> QED
        BY <2>f, <2>g, <3>5, <3>6, <4>1
    <3>7. CASE J!HasArgument(p)
      <4>1. J!ValueOf(p) = J!V(J!Arguments[<<p.type, p.word>>], J!Convert(p.arg))
        <5>1. /\ ~J!IsEvent(p) /\ ~(p.type = "JA85ST" /\ p.word = "BUTTON") /\ p.type # "TP82N"
          BY <2>b, <2>g, <3>3, <3>7 DEF J!HasArgument, J!Arguments
        <5> QED
          BY <3>7, <5>1 DEF J!ValueOf
      <4> QED
        BY <3>3, <3>5, <3>7, <4>1
    <3>8. CASE ~J!IsEvent(p) /\ ~J!HasArgument(p) /\ p.type = "JA85ST" /\ p.word = "BUTTON"
      <4>1. J!ValueOf(p) = J!V(0, 1)
        BY <3>8 DEF J!ValueOf
      <4> QED
        BY <2>c, <3>5, <3>8, <4>1
    <3>9. CASE ~J!IsEvent(p) /\ ~J!HasArgument(p) /\ ~(p.type = "JA85ST" /\ p.word = "BUTTON")
      <4>1. J!ValueOf(p) = <<>>
        BY <2>b, <2>g, <3>9 DEF J!ValueOf
      <4> QED
        BY <3>4, <4>1
    <3> QED
      BY <3>6, <3>7, <3>8, <3>9
  <2> HIDE DEF fire, door, panic, words
  <2>1. J!ReadingsInit => JInv
    <3> SUFFICES ASSUME J!ReadingsInit PROVE JInv
      OBVIOUS
    <3>1. J!ReadingsTypeOK
      <4>1. readTime \in 0 .. MaxSeconds + 2 /\ seconds \in 0 .. MaxSeconds /\ -1 \in -1 .. MaxSeconds + 2
        BY <2>0 DEF J!ReadingsInit
      <4> QED
        BY <4>1 DEF J!ReadingsInit, J!ReadingsTypeOK
    <3>2. began \in [J!EventTypes -> Int \X Int]
      BY DEF J!ReadingsInit
    <3>3. \A t \in J!EventTypes : NewestIsRight(t)
      BY DEF J!ReadingsInit, NewestIsRight
    <3> QED
      BY <3>1, <3>2, <3>3 DEF J!ReadingsInit, JInv, ResetIsRight, J!EventIsSeen, J!ReadingIsSent
  <2>2. JInv /\ [J!ReadingsNext]_J!readingVars => JInv'
    <3> SUFFICES ASSUME JInv, [J!ReadingsNext]_J!readingVars PROVE JInv'
      OBVIOUS
    <3>0. /\ jrpc \in {"read", "reset"} /\ event \in BOOLEAN
          /\ readTime \in Int /\ 0 <= readTime /\ readTime <= MaxSeconds + 2
          /\ seconds \in Int /\ 0 <= seconds /\ seconds <= MaxSeconds
          /\ \A t \in J!EventTypes : /\ newest[t].time \in Int /\ newest[t].time >= -1
                                     /\ newest[t].time <= MaxSeconds + 2
                                     /\ NewestIsRight(t)
          /\ began \in [J!EventTypes -> Int \X Int]
          /\ ResetIsRight /\ (packet = <<>> => dongleToServer = <<>>)
          /\ J!EventIsSeen /\ J!ReadingIsSent
      BY <2>0 DEF JInv, J!ReadingsTypeOK
    <3>b. \A t \in J!EventTypes : began[t][1] \in Int /\ began[t][2] \in Int
      BY <3>0
    \* What a message makes of the newest values.
    <3>n. ASSUME NEW m, newest' = J!Newest(m), m.time \in Int, m.time >= -1, m.time <= MaxSeconds + 2,
                 NEW t \in J!EventTypes
          PROVE  /\ newest'[t].time \in Int /\ newest'[t].time >= -1
                 /\ newest'[t].time <= MaxSeconds + 2
                 /\ newest'[t] = newest[t]
                    \/ /\ t = m.type /\ m.time > newest[t].time /\ newest'[t].time = m.time
                       /\ \E i \in DOMAIN m.values : /\ m.values[i].module = J!EventOf(t).module
                                                     /\ newest'[t].value = m.values[i].value
                 /\ t = m.type /\ m.time > newest[t].time
                    /\ (\E i \in DOMAIN m.values : m.values[i].module = J!EventOf(t).module) =>
                      newest'[t].time = m.time
      <4> DEFINE new == {i \in DOMAIN m.values : m.values[i].module = J!EventOf(t).module}
      <4>1. newest'[t] = IF t = m.type /\ new # {} /\ m.time > newest[t].time
                         THEN [value |-> m.values[CHOOSE i \in new : TRUE].value, time |-> m.time]
                         ELSE newest[t]
        BY <3>n DEF J!Newest
      <4>2. new # {} => (CHOOSE i \in new : TRUE) \in new
        OBVIOUS
      <4>3. new # {} <=> \E i \in DOMAIN m.values : m.values[i].module = J!EventOf(t).module
        OBVIOUS
      <4>4. CASE t = m.type /\ new # {} /\ m.time > newest[t].time
        <5> DEFINE k == CHOOSE i \in new : TRUE
        <5>1. newest'[t].time = m.time /\ newest'[t].value = m.values[k].value
          BY <4>1, <4>4
        <5>2. k \in DOMAIN m.values /\ m.values[k].module = J!EventOf(t).module
          BY <4>2, <4>4
        <5> HIDE DEF k
        <5> QED
          BY <3>n, <4>4, <5>1, <5>2
      <4>5. CASE ~(t = m.type /\ new # {} /\ m.time > newest[t].time)
        <5> HIDE DEF new
        <5> QED
          BY <3>0, <4>1, <4>3, <4>5
      <4> QED
        BY <4>4, <4>5
    <3>1. ASSUME NEW p \in J!Packets, J!SendMessage(p) PROVE JInv'
      <4>1. /\ jrpc = "read" /\ packet = <<>> /\ packet' = p /\ readTime' = seconds
            /\ UNCHANGED seconds
        BY <3>1 DEF J!SendMessage
      <4>2. p # <<>>
        <5>1. DOMAIN p = {"type", "word", "battery", "arg", "short"}
          <6>1. PICK t \in Registered :
                  p \in [type : {t}, word : J!Words[t], battery : {0, 1, J!Missing},
                         arg : {0, 1, J!Missing}, short : IF t = "TP82N" THEN BOOLEAN ELSE {FALSE}]
            BY <3>1 DEF J!Packets
          <6> QED
            BY <6>1
        <5>2. "type" \notin DOMAIN <<>>
          OBVIOUS
        <5> QED
          BY <5>1, <5>2
      <4>3. readTime' \in 0 .. MaxSeconds + 2 /\ seconds' \in 0 .. MaxSeconds
        BY <2>0, <3>0, <4>1
      <4>4. dongleToServer = <<>>
        BY <3>0, <4>1
      <4>5. CASE J!Unreadable(p)
        <5>1. UNCHANGED <<jrpc, event, dongleToServer, newest, began>>
          BY <3>1, <4>5 DEF J!SendMessage
        <5>2. J!ReadingsTypeOK'
          BY <3>0, <4>3, <5>1 DEF JInv, J!ReadingsTypeOK
        <5>3. \A t \in J!EventTypes : NewestIsRight(t)'
          BY <3>0, <4>1, <5>1 DEF NewestIsRight
        <5> QED
          BY <3>0, <4>1, <4>4, <5>1, <5>2, <5>3 DEF JInv, ResetIsRight, J!EventIsSeen, J!ReadingIsSent
      <4>6. CASE ~J!Unreadable(p)
        <5> DEFINE m == J!Message(p.type, J!Values(p), seconds)
        <5>1. /\ sensorEvent' = J!SensorEvent(p) /\ event' = (event \/ J!IsEvent(p))
              /\ dongleToServer' = m /\ jrpc' = IF event' THEN "reset" ELSE "read"
              /\ newest' = J!Newest(m)
              /\ began' = IF J!IsEvent(p) THEN [began EXCEPT ![p.type] = <<@[2], seconds>>] ELSE began
          BY <3>1, <4>6 DEF J!SendMessage
        <5>2. m.type = p.type /\ m.values = J!Values(p) /\ m.time = seconds
          BY DEF J!Message
        <5> HIDE DEF m
        <5>3. event' \in BOOLEAN /\ jrpc' \in {"read", "reset"} /\ (J!IsEvent(p) => jrpc' = "reset")
          BY <5>1
        <5>4. ASSUME NEW t \in J!EventTypes
              PROVE  /\ newest'[t].time \in Int /\ newest'[t].time >= -1
                     /\ newest'[t].time <= MaxSeconds + 2
                     /\ newest'[t] = newest[t]
                        \/ /\ t = p.type /\ seconds > newest[t].time /\ newest'[t].time = seconds
                           /\ newest'[t].value = 1 /\ (J!IsEvent(p) \/ t = "JA85ST")
                     /\ t = p.type /\ J!IsEvent(p) =>
                          newest'[t].time >= seconds
          <6>1. m.time \in Int /\ m.time >= -1 /\ m.time <= MaxSeconds + 2
            BY <2>0, <3>0, <5>2
          <6>2. t = p.type => LET z == m.values IN
                  /\ \A i \in DOMAIN z : z[i].module = J!EventOf(t).module =>
                       z[i].value = 1 /\ (J!IsEvent(p) \/ t = "JA85ST")
                  /\ J!IsEvent(p) => \E i \in DOMAIN z : z[i].module = J!EventOf(t).module
            BY <2>g, <4>6, <5>2
          <6>3. newest[t].time \in Int
            BY <3>0
          <6> QED
            BY <3>0, <3>n, <5>1, <5>2, <6>1, <6>2, <6>3
        <5>5. J!ReadingsTypeOK'
          <6>1. \A t \in J!EventTypes : newest'[t].time \in -1 .. MaxSeconds + 2
            BY <2>0, <5>4
          <6> QED
            BY <4>3, <5>3, <6>1 DEF J!ReadingsTypeOK
        <5>6. J!IsEvent(p) => p.type \in J!EventTypes
          BY <2>e
        <5>7. /\ began' \in [J!EventTypes -> Int \X Int]
              /\ \A t \in J!EventTypes :
                   began'[t] = IF J!IsEvent(p) /\ t = p.type THEN <<began[t][2], seconds>> ELSE began[t]
          BY <3>0, <3>b, <5>1, <5>6
        <5>8. J!IsEvent(packet)' <=> J!IsEvent(p)
          BY <4>1 DEF J!IsEvent
        <5>9. ASSUME NEW t \in J!EventTypes PROVE NewestIsRight(t)'
          <6>1. /\ NewestIsRight(t) /\ began[t][2] \in Int /\ newest[t].time \in Int
                /\ J!EventOf(t).on = 1
            BY <2>f, <3>0, <3>b
          <6>2. /\ began'[t][2] = IF J!IsEvent(p) /\ t = p.type THEN seconds ELSE began[t][2]
            BY <5>7
          <6>3. newest'[t] = newest[t] /\ ~(J!IsEvent(p) /\ t = p.type) => NewestIsRight(t)'
            BY <3>0, <4>1, <5>4, <6>1, <6>2 DEF NewestIsRight
          <6>4. newest'[t] = newest[t] /\ J!IsEvent(p) /\ t = p.type => NewestIsRight(t)'
            BY <3>0, <4>1, <5>3, <5>4, <5>8, <6>1, <6>2 DEF NewestIsRight
          <6>5. ASSUME t = p.type, seconds > newest[t].time, newest'[t].time = seconds,
                       newest'[t].value = 1, J!IsEvent(p) \/ t = "JA85ST"
                PROVE  NewestIsRight(t)'
            <7>1. began[t][2] <= newest[t].time /\ began[t][2] <= seconds
              BY <6>1 DEF NewestIsRight
            <7>2. CASE J!IsEvent(p)
              BY <3>0, <4>1, <5>3, <5>8, <6>1, <6>2, <6>5, <7>1, <7>2 DEF NewestIsRight
            <7>3. CASE ~J!IsEvent(p)
              BY <3>0, <4>1, <5>3, <5>8, <6>1, <6>2, <6>5, <7>1, <7>3 DEF NewestIsRight
            <7> QED
              BY <7>2, <7>3
          <6> QED
            BY <5>4, <6>3, <6>4, <6>5
        <5>10. ResetIsRight'
          <6>1. J!IsEvent(p) => began'[p.type][2] = seconds
            BY <5>6, <5>7
          <6> QED
            BY <3>0, <4>1, <4>2, <5>1, <5>8, <6>1 DEF ResetIsRight
        <5>11. J!EventIsSeen'
          <6> SUFFICES ASSUME J!IsEvent(p)
                       PROVE  \/ newest'[p.type].value = J!EventOf(p.type).on
                              \/ began'[p.type][2] - began'[p.type][1] <= 2
            BY <4>1, <5>8 DEF J!EventIsSeen
          <6> DEFINE t == p.type
          <6>1. t \in J!EventTypes
            BY <5>6
          <6> HIDE DEF t
          <6>2. /\ NewestIsRight(t) /\ began[t][2] \in Int /\ newest[t].time \in Int
                /\ J!EventOf(t).on = 1 /\ began'[t][1] = began[t][2] /\ began'[t][2] = seconds
            BY <2>f, <3>0, <3>b, <5>7, <6>1 DEF t
          <6>3. CASE newest'[t].value = 1
            BY <6>2, <6>3 DEF t
          <6>4. CASE newest'[t].value # 1
            <7>1. newest'[t] = newest[t] /\ newest'[t].time >= seconds
              BY <5>4, <6>1, <6>4 DEF t
            <7>2. newest[t].time <= began[t][2] + 2
              BY <6>2, <6>4, <7>1 DEF NewestIsRight
            <7> QED
              BY <3>0, <6>2, <7>1, <7>2 DEF t
          <6> QED
            BY <6>3, <6>4
        <5>12. J!ReadingIsSent'
          <6>1. J!IsEvent(p) => J!Values(p) # <<>>
            BY <2>g, <4>6, <5>6
          <6>2. jrpc' = "reset" => event'
            BY <5>1
          <6> QED
            BY <4>1, <5>1, <5>2, <5>8, <6>1, <6>2 DEF J!ReadingIsSent
        <5> QED
          BY <4>1, <4>2, <5>5, <5>7, <5>9, <5>10, <5>11, <5>12 DEF JInv
      <4> QED
        BY <4>5, <4>6
    <3>2. CASE J!EndEvent
      <4> DEFINE m == J!Message(packet.type, sensorEvent, readTime')
      <4>1. /\ jrpc = "reset" /\ jrpc' = "read" /\ readTime' = readTime + 2
            /\ dongleToServer' = m /\ newest' = J!Newest(m) /\ event' = FALSE
            /\ UNCHANGED <<sensorEvent, seconds, packet, began>>
        BY <3>2 DEF J!EndEvent
      <4>2. m.type = packet.type /\ m.values = sensorEvent /\ m.time = readTime + 2
        BY <4>1 DEF J!Message
      <4> HIDE DEF m
      <4>3. readTime <= seconds /\ sensorEvent = J!SensorEvent(packet)
            /\ (J!IsEvent(packet) => began[packet.type][2] = readTime)
        BY <3>0, <4>1 DEF ResetIsRight
      <4>4. /\ J!IsEvent(packet) =>
                 /\ DOMAIN sensorEvent = {1} /\ sensorEvent # <<>>
                 /\ packet.type \in J!EventTypes
                 /\ sensorEvent[1] = [module |-> J!EventOf(packet.type).module,
                                      value |-> J!EventOf(packet.type).off]
            /\ ~J!IsEvent(packet) => sensorEvent = <<>>
        BY <2>e, <4>3 DEF J!SensorEvent, J!EndOf, J!V
      <4>5. readTime' \in 0 .. MaxSeconds + 2
        BY <2>0, <3>0, <4>1, <4>3
      <4>6. ASSUME NEW t \in J!EventTypes
            PROVE  /\ newest'[t].time \in Int /\ newest'[t].time >= -1
                   /\ newest'[t].time <= MaxSeconds + 2
                   /\ newest'[t] = newest[t]
                      \/ /\ t = packet.type /\ J!IsEvent(packet) /\ newest'[t].time = readTime + 2
                         /\ newest'[t].time > newest[t].time
                         /\ newest'[t].value = J!EventOf(t).off
                   /\ t = packet.type /\ J!IsEvent(packet) /\ readTime + 2 > newest[t].time =>
                        newest'[t].value = J!EventOf(t).off
        <5>1. m.time \in Int /\ m.time >= -1 /\ m.time <= MaxSeconds + 2
          BY <2>0, <3>0, <4>2, <4>3
        <5>2. newest[t].time \in Int
          BY <3>0
        <5>3. t = packet.type =>
                /\ (\E i \in DOMAIN m.values : m.values[i].module = J!EventOf(t).module) <=> J!IsEvent(packet)
                /\ \A i \in DOMAIN m.values : m.values[i].value = J!EventOf(t).off
          BY <4>2, <4>4
        <5> QED
          BY <3>0, <3>n, <4>1, <4>2, <5>1, <5>2, <5>3
      <4>7. J!ReadingsTypeOK'
        <5>1. \A t \in J!EventTypes : newest'[t].time \in -1 .. MaxSeconds + 2
          BY <2>0, <4>6
        <5>2. event' \in BOOLEAN
          BY <4>1
        <5>3. seconds' \in 0 .. MaxSeconds
          BY <2>0, <3>0, <4>1
        <5> QED
          BY <4>1, <4>5, <5>1, <5>2, <5>3 DEF J!ReadingsTypeOK
      <4>8. ASSUME NEW t \in J!EventTypes PROVE NewestIsRight(t)'
        <5>1. /\ NewestIsRight(t) /\ began[t][2] \in Int /\ newest[t].time \in Int
              /\ J!EventOf(t).on = 1 /\ J!EventOf(t).off \in {0, 2} /\ began'[t] = began[t]
          BY <2>f, <3>0, <3>b, <4>1
        <5>2. CASE newest'[t] = newest[t]
          <6>1. newest[t].value # J!EventOf(t).off => newest[t].time <= readTime
            BY <4>1, <5>1 DEF NewestIsRight
          <6>2. newest[t].value # J!EventOf(t).off => ~(t = packet.type /\ J!IsEvent(packet))
            BY <3>0, <4>6, <5>1, <5>2, <6>1
          <6> QED
            BY <3>0, <4>1, <5>1, <5>2, <6>2 DEF NewestIsRight
        <5>3. CASE newest'[t] # newest[t]
          <6>1. /\ t = packet.type /\ J!IsEvent(packet) /\ newest'[t].time = readTime + 2
                /\ newest'[t].value = J!EventOf(t).off /\ began[t][2] = readTime
            BY <4>3, <4>6, <5>3
          <6> QED
            BY <3>0, <4>1, <4>3, <5>1, <6>1 DEF NewestIsRight
        <5> QED
          BY <5>2, <5>3
      <4>9. J!ReadingIsSent'
        BY <4>1, <4>2, <4>4 DEF J!ReadingIsSent, J!IsEvent
      <4>10. packet' # <<>>
        BY <3>0, <4>1 DEF ResetIsRight
      <4> QED
        BY <3>0, <4>1, <4>7, <4>8, <4>9, <4>10 DEF JInv, ResetIsRight, J!EventIsSeen
    <3>3. CASE J!NextPacket
      <4>1. /\ jrpc = "read" /\ packet' = <<>> /\ dongleToServer' = <<>>
            /\ UNCHANGED <<jrpc, event, sensorEvent, readTime, seconds, newest, began>>
        BY <3>3 DEF J!NextPacket
      <4>2. J!ReadingsTypeOK'
        BY <3>0, <4>1 DEF JInv, J!ReadingsTypeOK
      <4>3. \A t \in J!EventTypes : NewestIsRight(t)'
        BY <3>0, <4>1 DEF NewestIsRight
      <4> QED
        BY <3>0, <4>1, <4>2, <4>3 DEF JInv, ResetIsRight, J!EventIsSeen, J!ReadingIsSent
    <3>4. CASE J!Second
      <4>1. /\ seconds' = seconds + 1 /\ seconds < MaxSeconds
            /\ UNCHANGED <<jrpc, event, sensorEvent, readTime, packet, dongleToServer, newest, began>>
        BY <3>4 DEF J!Second
      <4>2. J!ReadingsTypeOK'
        <5>1. seconds' \in 0 .. MaxSeconds
          BY <2>0, <3>0, <4>1
        <5> QED
          BY <4>1, <5>1 DEF JInv, J!ReadingsTypeOK
      <4>3. \A t \in J!EventTypes : NewestIsRight(t)'
        <5> SUFFICES ASSUME NEW t \in J!EventTypes PROVE NewestIsRight(t)'
          OBVIOUS
        <5>1. NewestIsRight(t) /\ began[t][2] \in Int /\ newest[t].time \in Int
          BY <3>0, <3>b
        <5>2. J!IsEvent(packet)' <=> J!IsEvent(packet)
          BY <4>1 DEF J!IsEvent
        <5> QED
          BY <3>0, <4>1, <5>1, <5>2 DEF NewestIsRight
      <4>4. ResetIsRight'
        BY <3>0, <4>1 DEF ResetIsRight, J!IsEvent, J!SensorEvent, J!EndOf
      <4> QED
        BY <3>0, <4>1, <4>2, <4>3, <4>4 DEF JInv, J!EventIsSeen, J!ReadingIsSent, J!IsEvent
    <3>5. CASE UNCHANGED J!readingVars
      BY <3>5 DEF J!readingVars, JInv, J!ReadingsTypeOK, NewestIsRight, ResetIsRight, J!EventIsSeen,
                  J!ReadingIsSent, J!IsEvent
    <3> QED
      BY <3>1, <3>2, <3>3, <3>4, <3>5 DEF J!ReadingsNext
  <2>3. JInv => J!ReadingsTypeOK /\ J!ReadingsAreRight
    <3> SUFFICES ASSUME JInv PROVE J!EndIsSeen
      BY DEF JInv, J!ReadingsAreRight
    <3> QED
      BY DEF JInv, NewestIsRight, J!EndIsSeen
  <2> QED
    BY <2>1, <2>2, <2>3, PTL
\* After a round that nobody disturbed the server knows the switch, and the vector is no
\* longer than what was sent and is about to be (Belkin_WeMo.cpp:37-53, 154-177).
<1>switch. W!BelkinInit /\ [][W!BelkinNext]_W!belkinVars => [](W!BelkinTypeOK /\ W!ServerKnowsSwitch)
  <2> USE DEF WBase
  <2>0. \A t \in W!Askers :
          /\ W!OtherAsker(t) \in W!Askers /\ W!OtherAsker(t) # t
          /\ W!Askers = {t, W!OtherAsker(t)}
    BY DEF W!Askers, W!OtherAsker
  <2>1. W!BelkinInit => WBase
    <3> SUFFICES ASSUME W!BelkinInit PROVE WBase
      OBVIOUS
    <3>1. <<>> \in Seq({0, 1}) /\ "module" \in W!Askers
      BY DEF W!Askers
    <3>2. /\ bkpc \in [W!Askers -> {"rest", "ask", "push", "write", "send", "gone"}]
          /\ answer \in [W!Askers -> {0, 1}] /\ length \in [W!Askers -> Nat]
      BY DEF W!BelkinInit
    <3>3. SwitchTypes /\ W!ServerKnowsSwitch
      BY <3>1, <3>2 DEF W!BelkinInit, SwitchTypes, W!ServerKnowsSwitch
    <3>4. \A t \in W!Askers : bkpc[t] = (IF t = "module" THEN "ask" ELSE "rest")
      BY DEF W!BelkinInit
    <3>5. \A t \in W!Askers : RoundIsOwn(t)
      BY <2>0, <3>1, <3>4 DEF W!BelkinInit, RoundIsOwn
    <3> QED
      BY <3>3, <3>5
  <2>2. WBase /\ [W!BelkinNext]_W!belkinVars => WBase'
    <3> SUFFICES ASSUME WBase, [W!BelkinNext]_W!belkinVars PROVE WBase'
      OBVIOUS
    <3>1. CASE W!ByHand
      <4>1. wemo' \in {0, 1}
        BY <3>1 DEF W!ByHand, SwitchTypes
      <4> QED
        BY <3>1, <4>1 DEF W!ByHand, SwitchTypes, W!ServerKnowsSwitch, RoundIsOwn
    <3>2. ASSUME NEW t \in W!Askers, W!Goes(t, "rest", "ask"), W!BeginRound(t), wemo' \in {0, 1},
                 UNCHANGED <<values, answer, length, view>>,
                 \/ settled' = FALSE
                 \/ settled' = settled /\ wemo' = wemo
          PROVE  WBase'
      <4>1. clean' \subseteq {t} /\ (t \in clean' => bkpc[W!OtherAsker(t)] \in {"rest", "gone"})
        BY <3>2 DEF W!BeginRound
      <4>2. bkpc' = [bkpc EXCEPT ![t] = "ask"]
        BY <3>2 DEF W!Goes
      <4>3. SwitchTypes'
        BY <3>2, <4>1, <4>2 DEF SwitchTypes
      <4>4. W!ServerKnowsSwitch'
        BY <3>2 DEF W!ServerKnowsSwitch
      <4>5. \A u \in W!Askers : RoundIsOwn(u)'
        BY <2>0, <4>1, <4>2 DEF RoundIsOwn, SwitchTypes
      <4> QED
        BY <4>3, <4>4, <4>5
    <3>3. CASE W!Wake \/ W!Command
      BY <3>2, <3>3 DEF W!Wake, W!Command, W!Askers, SwitchTypes
    <3>4. CASE W!Collide
      BY <3>4 DEF W!Collide, SwitchTypes, W!ServerKnowsSwitch, RoundIsOwn
    <3>5. ASSUME NEW t \in W!Askers, W!GetStateThrows(t) PROVE WBase'
      <4>1. PICK l \in {"ask", "rest", "gone"} :
              /\ bkpc[t] = "ask" /\ bkpc' = [bkpc EXCEPT ![t] = l]
              /\ UNCHANGED <<wemo, values, answer, length, view, clean, settled>>
        BY <3>5 DEF W!GetStateThrows, SwitchTypes
      <4>2. SwitchTypes' /\ W!ServerKnowsSwitch'
        BY <4>1 DEF SwitchTypes, W!ServerKnowsSwitch
      <4>3. \A u \in W!Askers : RoundIsOwn(u)'
        BY <2>0, <4>1 DEF RoundIsOwn, SwitchTypes
      <4> QED
        BY <4>2, <4>3
    <3>6. ASSUME NEW t \in W!Askers, W!GetState(t) PROVE WBase'
      <4>1. SwitchTypes' /\ W!ServerKnowsSwitch'
        BY <3>6 DEF W!GetState, W!Goes, SwitchTypes, W!ServerKnowsSwitch
      <4>2. \A u \in W!Askers : RoundIsOwn(u)'
        BY <2>0, <3>6 DEF W!GetState, W!Goes, RoundIsOwn, SwitchTypes
      <4> QED
        BY <4>1, <4>2
    <3>7. ASSUME NEW t \in W!Askers, W!PushBegin(t) PROVE WBase'
      <4>1. Len(values) \in Nat
        BY DEF SwitchTypes
      <4>2. SwitchTypes' /\ W!ServerKnowsSwitch'
        BY <3>7, <4>1 DEF W!PushBegin, W!Goes, SwitchTypes, W!ServerKnowsSwitch
      <4>3. \A u \in W!Askers : RoundIsOwn(u)'
        BY <2>0, <3>7 DEF W!PushBegin, W!Goes, RoundIsOwn, SwitchTypes
      <4> QED
        BY <4>2, <4>3
    <3>8. ASSUME NEW t \in W!Askers, W!PushEnd(t) PROVE WBase'
      <4> DEFINE kept == [i \in 1 .. length[t] |-> IF i <= Len(values) THEN values[i] ELSE 0]
      <4>1. kept \in Seq({0, 1}) /\ answer[t] \in {0, 1} /\ values' = Append(kept, answer[t])
        <5>1. \A i \in 1 .. length[t] : (IF i <= Len(values) THEN values[i] ELSE 0) \in {0, 1}
          BY DEF SwitchTypes
        <5>2. length[t] \in Nat
          BY DEF SwitchTypes
        <5>3. kept \in [1 .. length[t] -> {0, 1}]
          BY <5>1
        <5> HIDE DEF kept
        <5>4. kept \in Seq({0, 1})
          BY <5>2, <5>3
        <5>5. values' = Append(kept, answer[t])
          BY <3>8 DEF W!PushEnd, kept
        <5> QED
          BY <5>4, <5>5 DEF SwitchTypes
      <4> HIDE DEF kept
      <4>2. values' \in Seq({0, 1}) /\ W!Last(values') = answer[t]
        BY <4>1 DEF W!Last
      <4>3. /\ bkpc[t] = "write" /\ bkpc' = [bkpc EXCEPT ![t] = "send"]
            /\ UNCHANGED <<wemo, answer, length, view, clean, settled>>
        BY <3>8 DEF W!PushEnd, W!Goes
      <4>4. SwitchTypes' /\ W!ServerKnowsSwitch'
        BY <4>2, <4>3 DEF SwitchTypes, W!ServerKnowsSwitch
      <4>5. \A u \in W!Askers : RoundIsOwn(u)'
        BY <2>0, <4>2, <4>3 DEF RoundIsOwn, SwitchTypes
      <4> QED
        BY <4>4, <4>5
    <3>9. ASSUME NEW t \in W!Askers, W!SendData(t) PROVE WBase'
      <4>1. /\ bkpc[t] = "send" /\ bkpc' = [bkpc EXCEPT ![t] = "rest"]
            /\ view' = W!Last(values) /\ settled' = (t \in clean)
            /\ UNCHANGED <<wemo, values, answer, length, clean>>
        BY <3>9 DEF W!SendData, W!Goes
      <4>2. t \in clean => view' = wemo
        BY <4>1 DEF RoundIsOwn
      <4>3. SwitchTypes' /\ W!ServerKnowsSwitch'
        BY <4>1, <4>2 DEF SwitchTypes, W!ServerKnowsSwitch
      <4>4. \A u \in W!Askers : RoundIsOwn(u)'
        BY <2>0, <4>1 DEF RoundIsOwn, SwitchTypes
      <4> QED
        BY <4>3, <4>4
    <3>10. CASE UNCHANGED W!belkinVars
      BY <3>10 DEF W!belkinVars, SwitchTypes, W!ServerKnowsSwitch, RoundIsOwn
    <3> QED
      BY <3>1, <3>3, <3>4, <3>5, <3>6, <3>7, <3>8, <3>9, <3>10 DEF W!BelkinNext, W!AskAndTell
  <2>3. W!BelkinInit => WFlags /\ LengthIsRight
    <3> SUFFICES ASSUME W!BelkinInit PROVE WFlags /\ LengthIsRight
      OBVIOUS
    <3>1. WFlags
      BY DEF W!BelkinInit, WFlags
    <3>2. LengthIsRight
      BY DEF W!BelkinInit, LengthIsRight, Unsent, W!Askers
    <3> QED
      BY <3>1, <3>2
  <2>4. WFlags /\ [W!BelkinNext]_W!belkinVars => WFlags'
    <3> SUFFICES ASSUME WFlags, [W!BelkinNext]_W!belkinVars PROVE WFlags'
      OBVIOUS
    <3>1. \/ settled' = settled
          \/ settled' = FALSE
          \/ \E t \in W!Askers : settled' = (t \in clean)
      BY DEF W!BelkinNext, W!belkinVars, W!ByHand, W!Wake, W!Command, W!Collide, W!AskAndTell,
        W!GetState, W!GetStateThrows, W!PushBegin, W!PushEnd, W!SendData
    <3>2. terminated' = terminated \/ terminated' = TRUE
      BY DEF W!BelkinNext, W!belkinVars, W!ByHand, W!Wake, W!Command, W!Collide, W!AskAndTell,
        W!GetState, W!GetStateThrows, W!PushBegin, W!PushEnd, W!SendData
    <3>3. settled' \in BOOLEAN
      <4>1. ASSUME NEW t, settled' = (t \in clean) PROVE settled' \in BOOLEAN
        <5>1. (t \in clean) \in BOOLEAN
          OBVIOUS
        <5> QED
          BY <4>1, <5>1
      <4> QED
        BY <3>1, <4>1 DEF WFlags
    <3>4. terminated' \in BOOLEAN
      BY <3>2 DEF WFlags
    <3> QED
      BY <3>3, <3>4 DEF WFlags
  <2>5. WBase /\ LengthIsRight /\ [W!BelkinNext]_W!belkinVars => LengthIsRight'
    <3> SUFFICES ASSUME WBase, LengthIsRight, [W!BelkinNext]_W!belkinVars PROVE LengthIsRight'
      OBVIOUS
    <3> USE DEF SwitchTypes
    <3>0. Unsent \in Nat /\ Len(values) \in Nat /\ W!Askers = {"module", "command"}
      BY DEF Unsent, W!Askers
    <3>1. ASSUME NEW t \in W!Askers, NEW l \in {"rest", "ask", "push", "write", "gone"}, bkpc[t] # "send",
                 bkpc' = [bkpc EXCEPT ![t] = l], UNCHANGED <<values, tells, view>>,
                 length' = length \/ length' = [length EXCEPT ![t] = Len(values)]
          PROVE  LengthIsRight'
      <4>1. Unsent' = Unsent
        BY <3>0, <3>1 DEF Unsent
      <4>2. ASSUME NEW u \in W!Askers
            PROVE  length'[u] <= tells + Unsent /\ (bkpc'[u] = "send" => values # <<>>)
        BY <3>0, <3>1 DEF LengthIsRight
      <4> QED
        BY <3>1, <4>1, <4>2 DEF LengthIsRight
    <3>2. ASSUME UNCHANGED <<bkpc, values, tells, view, length>> PROVE LengthIsRight'
      BY <3>2 DEF LengthIsRight, Unsent
    <3>3. ASSUME NEW t \in W!Askers, W!PushEnd(t) PROVE LengthIsRight'
      <4>1. /\ bkpc[t] = "write" /\ bkpc' = [bkpc EXCEPT ![t] = "send"]
            /\ UNCHANGED <<tells, view, length>>
            /\ Len(values') = length[t] + 1
        <5> DEFINE kept == [i \in 1 .. length[t] |-> IF i <= Len(values) THEN values[i] ELSE 0]
        <5>1. \A i \in 1 .. length[t] : (IF i <= Len(values) THEN values[i] ELSE 0) \in {0, 1}
          BY DEF WBase
        <5>2. length[t] \in Nat
          BY DEF WBase
        <5>3. kept \in [1 .. length[t] -> {0, 1}] /\ DOMAIN kept = 1 .. length[t]
          BY <5>1
        <5>4. W!PushEnd(t) => values' = Append(kept, answer[t])
          BY DEF W!PushEnd
        <5> HIDE DEF kept
        <5>5. kept \in Seq({0, 1}) /\ Len(kept) = length[t]
          <6>1. kept \in Seq({0, 1})
            <7>1. \E n \in Nat : kept \in [1 .. n -> {0, 1}]
              BY <5>2, <5>3
            <7> QED
              BY <7>1
          <6>2. 1 .. Len(kept) = 1 .. length[t] /\ Len(kept) \in Nat
            BY <5>3, <6>1
          <6> QED
            BY <5>2, <6>1, <6>2
        <5>6. Len(values') = length[t] + 1
          BY <3>3, <5>4, <5>5
        <5> QED
          BY <3>3, <5>6 DEF W!PushEnd, W!Goes
      <4>2. Unsent' = Unsent + 1
        BY <3>0, <4>1 DEF Unsent, WBase
      <4>3. values' # <<>>
        BY <4>1 DEF WBase
      <4> QED
        BY <3>0, <4>1, <4>2, <4>3 DEF LengthIsRight, WBase
    <3>4. ASSUME NEW t \in W!Askers, W!SendData(t) PROVE LengthIsRight'
      <4>1. /\ bkpc[t] = "send" /\ bkpc' = [bkpc EXCEPT ![t] = "rest"] /\ tells' = tells + 1
            /\ view' = W!Last(values) /\ UNCHANGED <<values, length>>
        BY <3>4 DEF W!SendData, W!Goes
      <4>2. Unsent' = Unsent - 1
        BY <3>0, <4>1 DEF Unsent, WBase
      <4>3. view' \in {0, 1}
        BY <4>1 DEF LengthIsRight, WBase, W!Last
      <4>4. ASSUME NEW u \in W!Askers
            PROVE  length[u] <= tells + Unsent /\ (bkpc'[u] = "send" => values # <<>>)
        BY <4>1 DEF LengthIsRight, WBase
      <4> QED
        BY <3>0, <4>1, <4>2, <4>3, <4>4 DEF LengthIsRight, WBase
    <3>5. CASE W!Wake \/ W!Command
      BY <3>0, <3>1, <3>5 DEF W!Wake, W!Command, W!Goes
    <3>6. ASSUME NEW t \in W!Askers, W!GetState(t) \/ W!GetStateThrows(t) \/ W!PushBegin(t)
          PROVE  LengthIsRight'
      <4>1. CASE W!GetState(t)
        BY <3>1, <4>1 DEF W!GetState, W!Goes
      <4>2. CASE W!GetStateThrows(t)
        BY <3>1, <3>2, <4>2 DEF W!GetStateThrows
      <4>3. CASE W!PushBegin(t)
        BY <3>1, <4>3 DEF W!PushBegin, W!Goes
      <4> QED
        BY <3>6, <4>1, <4>2, <4>3
    <3>7. CASE W!ByHand \/ W!Collide \/ UNCHANGED W!belkinVars
      BY <3>2, <3>7 DEF W!ByHand, W!Collide, W!belkinVars
    <3> QED
      BY <3>3, <3>4, <3>5, <3>6, <3>7 DEF W!BelkinNext, W!AskAndTell
  <2>6. WInv => W!BelkinTypeOK /\ W!ServerKnowsSwitch
    <3> SUFFICES ASSUME WInv PROVE W!BelkinTypeOK /\ W!ServerKnowsSwitch
      OBVIOUS
    <3>1. Len(values) <= tells + 2
      BY DEF WInv, WBase, SwitchTypes, LengthIsRight, Unsent
    <3>2. SwitchTypes /\ W!ServerKnowsSwitch /\ view \in {0, 1, W!Unknown}
      BY DEF WInv, WBase, LengthIsRight
    <3> QED
      BY <3>1, <3>2 DEF WInv, WFlags, SwitchTypes, W!BelkinTypeOK
  <2> QED
    <3>1. W!BelkinInit => WInv
      BY <2>1, <2>3 DEF WInv
    <3>2. WInv /\ [W!BelkinNext]_W!belkinVars => WInv'
      BY <2>2, <2>4, <2>5 DEF WInv
    <3> QED
      BY <2>6, <3>1, <3>2, PTL
\* A command goes to the module that has the device, or to the coordinator if none claims it
\* (Aggregator.cpp:304-374).
<1>route. R!RouterInit /\ [][R!RouterNext]_R!routerVars => [](R!RouterTypeOK /\ R!OrderReachesDevice)
  <2> DEFINE Inv == R!RouterTypeOK /\ R!OrderReachesDevice
  <2>0. MaxVirtual \in Nat
    BY MoreBoundsAssumption
  <2>1. R!RouterInit => Inv
    <3> SUFFICES ASSUME R!RouterInit PROVE Inv
      OBVIOUS
    <3>1. /\ R!NoCommand.device \in DOMAIN Owners /\ R!NoCommand.known = FALSE
          /\ R!NoCommand.state = "none"
      <4>1. "led" \in DOMAIN Owners
        BY DEF Owners
      <4> QED
        BY <4>1 DEF R!NoCommand
    <3>2. unpaired \in 0 .. MaxVirtual
      BY <2>0 DEF R!RouterInit
    <3> QED
      BY <3>1, <3>2 DEF R!RouterInit, R!RouterTypeOK, R!OrderReachesDevice, R!Orders
  <2>2. Inv /\ [R!RouterNext]_R!routerVars => Inv'
    <3> SUFFICES ASSUME Inv, [R!RouterNext]_R!routerVars PROVE Inv'
      OBVIOUS
    <3>0. /\ listed \subseteq DOMAIN Owners /\ unpaired \in 0 .. MaxVirtual
          /\ command.device \in DOMAIN Owners /\ command.known \in BOOLEAN
          /\ given \subseteq Present /\ acts \subseteq DOMAIN Owners /\ R!OrderReachesDevice
      BY DEF R!RouterTypeOK, Present
    \* VPT's and Jablotron's lists.
    <3>a. ASSUME listed' \subseteq DOMAIN Owners, UNCHANGED <<unpaired, command, given, acts>>
          PROVE  Inv'
      BY <3>0, <3>a DEF R!RouterTypeOK, R!OrderReachesDevice, Present
    \* A command that is no order.
    <3>b. ASSUME NEW to, NEW st \in {"listen", "register", "getparameters", "parameters"},
                 NEW d \in DOMAIN Owners,
                 command' = [state |-> st, device |-> d, known |-> FALSE],
                 R!Gives(st, to), acts' = {}, UNCHANGED listed, unpaired' \in 0 .. MaxVirtual
          PROVE  Inv'
      <4>1. command'.device = d /\ command'.state = st /\ command'.known = FALSE
        BY <3>b
      <4> QED
        BY <3>0, <3>b, <4>1 DEF R!RouterTypeOK, R!OrderReachesDevice, R!Orders, R!Gives, Present
    <3>1. CASE R!Reload
      BY <3>0, <3>1, <3>a DEF R!Reload
    <3>2. ASSUME NEW d \in DOMAIN Owners, R!Listed(d) \/ R!Dropped(d) PROVE Inv'
      BY <3>0, <3>2, <3>a DEF R!Listed, R!Dropped
    <3>3. ASSUME NEW d \in DOMAIN Owners, R!Listen(d) PROVE Inv'
      <4> DEFINE virtual == "vsm" \in Present /\ unpaired > 0
      <4>1. /\ command' = [state |-> "listen", device |-> d, known |-> FALSE]
            /\ R!Gives("listen", {IF virtual THEN "vsm" ELSE "pan", "vpt", "mqttdata"})
            /\ unpaired' = IF virtual THEN unpaired - 1 ELSE unpaired
            /\ acts' = {} /\ UNCHANGED listed
        BY <3>3 DEF R!Listen, Present
      <4>2. unpaired' \in 0 .. MaxVirtual
        BY <2>0, <3>0, <4>1
      <4> HIDE DEF virtual
      <4> QED
        BY <3>b, <4>1, <4>2
    <3>4. ASSUME NEW d \in DOMAIN Owners, NEW s \in {"register", "getparameters", "parameters"},
                 R!OwnCommand(s, d)
          PROVE  Inv'
      BY <3>0, <3>4, <3>b DEF R!OwnCommand
    <3>5. ASSUME NEW d \in DOMAIN Owners, NEW s \in R!Orders, R!Order(s, d) PROVE Inv'
      <4> DEFINE m == R!Claimant(d)
      <4> DEFINE known == R!Claims(Owners[d], d) \/ (Owners[d] = "pan" /\ "pan" \in Present)
      <4>1. /\ command' = [state |-> s, device |-> d, known |-> known]
            /\ R!Gives(s, {m, "mqttdata"})
            /\ acts' = IF m \in Present THEN R!Moved(m, d) ELSE {}
            /\ UNCHANGED <<listed, unpaired>>
        BY <3>5 DEF R!Order, Present
      <4>2. command'.state = s /\ command'.device = d /\ command'.known = known /\ known \in BOOLEAN
        BY <4>1
      \* A device of PAN is the only one of PAN with its address.
      <4>3. Owners[d] = "pan" => \A p \in DOMAIN Owners : Owners[p] = "pan" /\ Lows[p] = Lows[d] => p = d
        BY DEF Owners, Lows
      <4>4. acts' \subseteq DOMAIN Owners /\ \A p \in acts' : Owners[p] = "pan" \/ p = d
        BY <4>1 DEF R!Moved, R!Of
      <4>5. known => acts' = {d}
        <5> SUFFICES ASSUME known PROVE acts' = {d}
          OBVIOUS
        <5>1. CASE R!Claims(Owners[d], d)
          <6>1. m = Owners[d] /\ m # "pan" /\ m \in Present
            <7>1. \A c \in {"psm", "led", "vsm", "vpt", "jablotron", "belkin"} : \E i \in 1 .. 6 : R!Chain[i] = c
              BY DEF R!Chain
            <7>2. /\ Owners[d] \in {"psm", "led", "vsm", "vpt", "jablotron", "belkin"}
                  /\ Owners[d] # "pan" /\ Owners[d] \in Present
              BY <5>1 DEF R!Claims, Present
            <7>3. PICK i \in 1 .. 6 : R!Chain[i] = Owners[d]
              BY <7>1, <7>2
            <7>4. DOMAIN R!Chain = 1 .. 6 /\ \A j \in 1 .. 6 : j # i => R!Chain[j] # Owners[d]
              BY <7>3 DEF R!Chain
            <7>5. R!IsFirst(i, d)
              BY <5>1, <7>3, <7>4 DEF R!IsFirst, R!Claims
            <7>6. \A j \in DOMAIN R!Chain : R!IsFirst(j, d) => R!Chain[j] = Owners[d]
              BY DEF R!IsFirst, R!Claims
            <7>7. m = Owners[d]
              BY <7>4, <7>5, <7>6 DEF R!Claimant
            <7> QED
              BY <7>2, <7>7
          <6> QED
            BY <4>1, <6>1 DEF R!Moved
        <5>2. CASE Owners[d] = "pan"
          <6>1. m = "pan" /\ m \in Present
            <7>1. \A j \in DOMAIN R!Chain : ~R!IsFirst(j, d)
              BY <5>2 DEF R!IsFirst, R!Claims, R!Chain
            <7> QED
              BY <5>2, <7>1 DEF R!Claimant, Present
          <6> QED
            BY <4>1, <4>3, <5>2, <6>1 DEF R!Moved, R!Of
        <5> QED
          BY <5>1, <5>2
      <4>6. given' \subseteq Present
        BY <4>1 DEF R!Gives, Present
      <4>7. unpaired' \in 0 .. MaxVirtual /\ listed' \subseteq DOMAIN Owners
        BY <3>0, <4>1
      <4> HIDE DEF known, m
      <4>8. R!OrderReachesDevice'
        BY <4>2, <4>4, <4>5 DEF R!OrderReachesDevice
      <4>9. command'.device \in DOMAIN Owners /\ command'.known \in BOOLEAN
        BY <4>2
      <4> QED
        BY <4>4, <4>6, <4>7, <4>8, <4>9 DEF R!RouterTypeOK, Present
    <3>6. CASE UNCHANGED R!routerVars
      BY <3>0, <3>6 DEF R!routerVars, R!RouterTypeOK, R!OrderReachesDevice, Present
    <3> QED
      BY <3>1, <3>2, <3>3, <3>4, <3>5, <3>6 DEF R!RouterNext
  <2> QED
    BY <2>1, <2>2, PTL
<1> QED
  BY PartsRun, <1>readings, <1>switch, <1>route, PTL DEF DevicesAreRight

\* The variables of every part stay in their types.
THEOREM TypesHold == ServicesSpec => []ServicesTypeOK
BY PanHolds, DevicesHold, AnswersHold, SearchHolds, RegulatorHolds, Restored, PTL
   DEF ServicesTypeOK
==============================================================================
