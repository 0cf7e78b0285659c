---------------------------- MODULE Records_proofs ----------------------------
(***************************************************************************)
(* Proofs about the records of MCRecords, for every value of the           *)
(* constants: what storeCache wrote comes back from the backup file after  *)
(* a restart, and the Distributor queues nothing that it has not recorded. *)
(* Each is an inductive invariant of its part, the other part being at     *)
(* rest; for the file, what a round of loadCache's loop does is proved     *)
(* from the lines that storeCache wrote.                                   *)
(***************************************************************************)
EXTENDS MCRecords, RecursionFacts

-----------------------------------------------------------------------------
(* What the backup file says (BackupFile). *)

\* Values as modules cache them and as a message comes back with them, and messages of no
\* later time than t.
AValue == [mid : Nat, number : Int, status : BOOLEAN]
Messages(t) == [priority : Nat, time : 0..t, pairs : Nat, values : Seq(AValue)]

\* The lines of such messages, and what may be left of them.
WholeLines(t) == {B!Header(m) : m \in Messages(t)} \cup {B!ValueLine(v) : v \in AValue}
FileLines(t)  == WholeLines(t) \cup UNION {B!CutLines(line) : line \in WholeLines(t)}

\* The order of the keys of the cache.
Sorted(s) == \A i, j \in DOMAIN s : i <= j => B!NotAfter(s[i], s[j])

\* A message goes into a sorted cache so that it stays sorted and has that message more
\* (multimap, Aggregator.h:47-77, Aggregator.cpp:250, 495).
LEMMA InsertedFacts ==
  ASSUME NEW M, \A m \in M : m.time \in Nat /\ m.priority \in Nat,
         NEW s \in Seq(M), Sorted(s), NEW m \in M
  PROVE  /\ B!Inserted(s, m) \in Seq(M) /\ Sorted(B!Inserted(s, m))
         /\ ToSet(B!Inserted(s, m)) = ToSet(s) \cup {m}
         /\ Len(B!Inserted(s, m)) = Len(s) + 1
<1> DEFINE len == Len(s)
           Place(k) == \A i \in DOMAIN s : B!NotAfter(s[i], m) <=> i <= k
           place == CHOOSE k \in 0..len : Place(k)
           r == B!Inserted(s, m)
<1>a. r = InsertAt(s, place + 1, m)
  BY DEF B!Inserted, B!InsertAt, InsertAt
<1>b. /\ \A x, y \in M : B!NotAfter(x, y) \/ B!NotAfter(y, x)
      /\ \A x, y, z \in M : B!NotAfter(x, y) /\ B!NotAfter(y, z) => B!NotAfter(x, z)
  BY DEF B!NotAfter
<1>0. len \in Nat /\ DOMAIN s = 1..len /\ s \in [1..len -> M]
  OBVIOUS
<1>1. \E k \in 0..len : Place(k)
  <2> DEFINE Late == {k \in 0..len : \A i \in 1..len : i > k => ~B!NotAfter(s[i], m)}
  <2>1. len \in Late
    BY <1>0
  <2>2. PICK k \in Late : \A j \in Late : k <= j
    <3>1. Late \subseteq Nat /\ Late # {}
      BY <2>1
    <3> HIDE DEF Late
    <3> QED
      BY <3>1, LeastNumber
  <2>3. k \in 0..len /\ \A i \in 1..len : i > k => ~B!NotAfter(s[i], m)
    OBVIOUS
  <2>4. ASSUME NEW i \in 1..len, i <= k PROVE B!NotAfter(s[i], m)
    <3>1. k \in 1..len /\ k - 1 \in 0..len /\ ~(k <= k - 1)
      BY <1>0, <2>3, <2>4
    <3>2. k - 1 \notin Late
      BY <2>2, <3>1
    <3>3. PICK j \in 1..len : j > k - 1 /\ B!NotAfter(s[j], m)
      BY <3>1, <3>2
    <3>4. j = k
      BY <2>3, <3>1, <3>3
    <3>5. s[i] \in M /\ s[k] \in M /\ B!NotAfter(s[i], s[k])
      BY <1>0, <2>4, <3>1 DEF Sorted
    <3> QED
      BY <1>b, <3>3, <3>4, <3>5
  <2>5. ASSUME NEW i \in 1..len, ~(i <= k) PROVE ~B!NotAfter(s[i], m)
    BY <1>0, <2>3, <2>5
  <2> HIDE DEF Late
  <2> QED
    BY <1>0, <2>3, <2>4, <2>5
<1> HIDE DEF len
<1>2. place \in 0..len /\ Place(place)
  <2> HIDE DEF Place
  <2> QED
    BY <1>1
<1>3. r = SubSeq(s, 1, place) \o <<m>> \o SubSeq(s, place + 1, len)
  <2>1. (place + 1) - 1 = place
    BY <1>2
  <2> HIDE DEF place, r
  <2> QED
    BY <2>1, <1>a DEF InsertAt, len
<1> HIDE DEF place, r
<1> DEFINE front == SubSeq(s, 1, place)
           back == SubSeq(s, place + 1, len)
<1>4. /\ front \in Seq(M) /\ Len(front) = place /\ \A i \in 1..place : front[i] = s[i]
      /\ back \in Seq(M) /\ Len(back) = len - place /\ \A i \in 1..(len - place) : back[i] = s[place + i]
  BY <1>0, <1>2
<1> HIDE DEF front, back
<1>5. /\ r \in Seq(M) /\ Len(r) = len + 1 /\ r[place + 1] = m
      /\ \A i \in 1..place : r[i] = s[i]
      /\ \A i \in (place + 2)..(len + 1) : r[i] = s[i - 1]
  <2>1. r = front \o <<m>> \o back
    BY <1>3 DEF front, back
  <2>2. <<m>> \in Seq(M) /\ Len(<<m>>) = 1 /\ <<m>>[1] = m
    OBVIOUS
  <2> DEFINE q == front \o <<m>>
  <2>3. /\ q \in Seq(M) /\ Len(q) = place + 1 /\ q[place + 1] = m
        /\ \A i \in 1..place : q[i] = s[i]
    BY <1>2, <1>4, <2>2
  <2> HIDE DEF q
  <2>4. r = q \o back
    BY <2>1 DEF q
  <2>5. r \in Seq(M) /\ Len(r) = len + 1
    BY <1>0, <1>2, <1>4, <2>3, <2>4
  <2>6. \A i \in 1..(place + 1) : r[i] = q[i]
    BY <1>0, <1>2, <1>4, <2>3, <2>4
  <2>7. ASSUME NEW i \in (place + 2)..(len + 1) PROVE r[i] = s[i - 1]
    <3>1. r[i] = back[i - (place + 1)]
      BY <1>0, <1>2, <1>4, <2>3, <2>4
    <3>2. i - (place + 1) \in 1..(len - place) /\ place + (i - (place + 1)) = i - 1
      BY <1>0, <1>2
    <3> QED
      BY <1>4, <3>1, <3>2
  <2> QED
    BY <1>2, <2>3, <2>5, <2>6, <2>7
<1>6. ToSet(r) = ToSet(s) \cup {m}
  <2>1. DOMAIN r = 1..(len + 1)
    BY <1>0, <1>5
  <2>2. ASSUME NEW i \in 1..len PROVE \E j \in 1..(len + 1) : r[j] = s[i]
    <3>1. CASE i <= place
      BY <1>0, <1>2, <1>5, <3>1
    <3>2. CASE ~(i <= place)
      <4>1. i + 1 \in (place + 2)..(len + 1) /\ (i + 1) - 1 = i /\ i + 1 \in 1..(len + 1)
        BY <1>0, <1>2, <3>2
      <4> QED
        BY <1>5, <4>1
    <3> QED
      BY <3>1, <3>2
  <2>3. place + 1 \in 1..(len + 1)
    BY <1>0, <1>2
  <2>4. ASSUME NEW j \in 1..(len + 1) PROVE r[j] = m \/ \E i \in 1..len : r[j] = s[i]
    <3>1. \/ j \in 1..place /\ j \in 1..len
          \/ j = place + 1
          \/ j \in (place + 2)..(len + 1) /\ j - 1 \in 1..len
      BY <1>0, <1>2
    <3> QED
      BY <1>5, <3>1
  <2> QED
    BY <1>0, <1>5, <2>1, <2>2, <2>3, <2>4 DEF ToSet
<1>7. Sorted(r)
  <2>1. DOMAIN r = 1..(len + 1)
    BY <1>0, <1>5
  <2>2. m \in M /\ \A i \in 1..len : s[i] \in M
    BY <1>0
  <2>3. B!NotAfter(m, m)
    BY <1>b, <2>2
  <2>4. \A i, j \in 1..len : i <= j => B!NotAfter(s[i], s[j])
    BY <1>0 DEF Sorted
  <2>5. \A i \in 1..len : (B!NotAfter(s[i], m) <=> i <= place)
    BY <1>0, <1>2
  <2> SUFFICES ASSUME NEW i \in 1..(len + 1), NEW j \in 1..(len + 1), i <= j
               PROVE  B!NotAfter(r[i], r[j])
    BY <2>1 DEF Sorted
  <2>6. CASE j <= place
    <3>1. i \in 1..place /\ j \in 1..place /\ i \in 1..len /\ j \in 1..len
      BY <1>0, <1>2, <2>6
    <3> QED
      BY <1>5, <2>4, <3>1
  <2>7. CASE j = place + 1
    <3>1. CASE i = j
      BY <1>5, <2>3, <2>7, <3>1
    <3>2. CASE i # j
      <4>1. i \in 1..place /\ i \in 1..len /\ i <= place
        BY <1>0, <1>2, <2>7, <3>2
      <4> QED
        BY <1>5, <2>5, <2>7, <4>1
    <3> QED
      BY <3>1, <3>2
  <2>8. CASE j > place + 1
    <3>1. j \in (place + 2)..(len + 1) /\ j - 1 \in 1..len /\ ~(j - 1 <= place)
      BY <1>0, <1>2, <2>8
    <3>2. r[j] = s[j - 1] /\ ~B!NotAfter(s[j - 1], m)
      BY <1>5, <2>5, <3>1
    <3>3. CASE i <= place
      <4>1. i \in 1..place /\ i \in 1..len /\ i <= j - 1
        BY <1>0, <1>2, <3>1, <3>3
      <4> QED
        BY <1>5, <2>4, <3>1, <3>2, <4>1
    <3>4. CASE i = place + 1
      <4>1. B!NotAfter(m, s[j - 1])
        BY <1>b, <2>2, <3>1, <3>2
      <4> QED
        BY <1>5, <3>2, <3>4, <4>1
    <3>5. CASE i > place + 1
      <4>1. i \in (place + 2)..(len + 1) /\ i - 1 \in 1..len /\ i - 1 <= j - 1
        BY <1>0, <1>2, <3>5
      <4> QED
        BY <1>5, <2>4, <3>1, <3>2, <4>1
    <3> QED
      BY <1>0, <1>2, <3>3, <3>4, <3>5
  <2> QED
    BY <1>0, <1>2, <2>6, <2>7, <2>8
<1> QED
  BY <1>5, <1>6, <1>7 DEF r, len

\* The lines of the k-th message end with the line upTo[k].
LastLines(ms, upTo) ==
  /\ upTo[0] = 0 /\ upTo[Len(ms)] = Len(B!Lines(ms))
  /\ \A k \in 0..Len(ms) : Len(B!Lines(SubSeq(ms, 1, k))) = upTo[k]
  /\ \A k \in 1..Len(ms) :
       /\ upTo[k] = upTo[k - 1] + 1 + Len(ms[k].values)
       /\ \A n \in k..Len(ms) : upTo[k] <= upTo[n]
       /\ B!Lines(ms)[upTo[k - 1] + 1] = B!Header(ms[k])
       /\ \A j \in 1..Len(ms[k].values) :
            B!Lines(ms)[upTo[k - 1] + 1 + j] = B!ValueLine(ms[k].values[j])

\* storeCache writes the lines of one message behind those of the other
\* (Aggregator.cpp:387-391, Distributor.cpp:139-168).
LEMMA LinesFacts ==
  ASSUME NEW t \in Nat, NEW ms \in Seq(Messages(t))
  PROVE  /\ B!Lines(ms) \in Seq(WholeLines(t))
         /\ \E upTo \in [0..Len(ms) -> Nat] : LastLines(ms, upTo)
<1> DEFINE W == WholeLines(t)
           len == Len(ms)
           of(xs) == [i \in DOMAIN xs |-> B!CSV(xs[i])]
           s == of(ms)
<1>0. len \in Nat /\ DOMAIN ms = 1..len /\ ms \in [1..len -> Messages(t)]
  OBVIOUS
<1>1. ASSUME NEW m \in Messages(t)
      PROVE  /\ B!CSV(m) \in Seq(W) /\ Len(m.values) \in Nat
             /\ Len(B!CSV(m)) = 1 + Len(m.values)
             /\ B!CSV(m)[1] = B!Header(m)
             /\ \A j \in 1..Len(m.values) : B!CSV(m)[1 + j] = B!ValueLine(m.values[j])
  <2> DEFINE n == Len(m.values)
             vs == [i \in DOMAIN m.values |-> B!ValueLine(m.values[i])]
             first == <<B!Header(m)>>
  <2>1. m.values \in Seq(AValue)
    BY DEF Messages
  <2>2. n \in Nat /\ DOMAIN m.values = 1..n /\ \A i \in 1..n : m.values[i] \in AValue
    BY <2>1
  <2>3. \A i \in 1..n : B!ValueLine(m.values[i]) \in W
    BY <2>2 DEF WholeLines
  <2>4. B!Header(m) \in W
    BY DEF WholeLines
  <2> HIDE DEF n, W
  <2>5. vs \in Seq(W) /\ Len(vs) = n /\ \A i \in 1..n : vs[i] = B!ValueLine(m.values[i])
    BY <2>2, <2>3
  <2> HIDE DEF vs
  <2>6. first \in Seq(W) /\ Len(first) = 1 /\ first[1] = B!Header(m)
    BY <2>4
  <2>7. B!CSV(m) = first \o vs
    BY DEF B!CSV, vs
  <2> HIDE DEF first
  <2>8. /\ first \o vs \in Seq(W) /\ Len(first \o vs) = 1 + n
        /\ (first \o vs)[1] = first[1]
        /\ \A i \in 1..n : (first \o vs)[1 + i] = vs[i]
    <3> DEFINE p == first \o vs
    <3>1. p \in Seq(W) /\ Len(p) = 1 + n
      <4>1. p \in Seq(W) /\ Len(p) = Len(first) + Len(vs)
        BY <2>5, <2>6, ConcatProperties, Zenon
      <4> HIDE DEF p
      <4> QED
        BY <2>2, <2>5, <2>6, <4>1
    <3>2. /\ 1 \in 1..(Len(first) + Len(vs)) /\ 1 <= Len(first)
          /\ \A i \in 1..n :
               /\ 1 + i \in 1..(Len(first) + Len(vs))
               /\ ~(1 + i <= Len(first)) /\ (1 + i) - Len(first) = i
      BY <2>2, <2>5, <2>6
    <3>3. \A i \in 1..(Len(first) + Len(vs)) : p[i] = IF i <= Len(first) THEN first[i] ELSE vs[i - Len(first)]
      BY <2>5, <2>6, ConcatProperties
    <3> HIDE DEF p
    <3>4. p[1] = first[1]
      BY <3>2, <3>3
    <3>5. \A i \in 1..n : p[1 + i] = vs[i]
      BY <3>2, <3>3
    <3> QED
      BY <3>1, <3>4, <3>5 DEF p
  <2> QED
    BY <2>2, <2>5, <2>6, <2>7, <2>8 DEF n
<1>2. \A xs \in Seq(Messages(t)) : of(xs) \in Seq(Seq(W)) /\ Len(of(xs)) = Len(xs)
  <2> SUFFICES ASSUME NEW xs \in Seq(Messages(t))
               PROVE  of(xs) \in Seq(Seq(W)) /\ Len(of(xs)) = Len(xs)
    OBVIOUS
  <2> DEFINE n == Len(xs)
  <2>1. n \in Nat /\ DOMAIN xs = 1..n /\ \A i \in 1..n : xs[i] \in Messages(t)
    OBVIOUS
  <2>2. \A i \in 1..n : B!CSV(xs[i]) \in Seq(W)
    BY <1>1, <2>1
  <2> DEFINE S == Seq(W)
  <2> HIDE DEF n, S
  <2>3. of(xs) \in Seq(S) /\ Len(of(xs)) = n
    BY <2>1, <2>2 DEF S
  <2> QED
    BY <2>3 DEF n, S
<1>3. \A xs \in Seq(Messages(t)) : B!Lines(xs) = FlattenSeq(of(xs))
  BY DEF B!Lines, B!FlattenSeq, FlattenSeq
<1>4. s \in Seq(Seq(W)) /\ Len(s) = len /\ \A k \in 1..len : s[k] = B!CSV(ms[k])
  BY <1>0, <1>2
<1>5. ASSUME NEW k \in 0..len
      PROVE  SubSeq(ms, 1, k) \in Seq(Messages(t)) /\ SubSeq(s, 1, k) = of(SubSeq(ms, 1, k))
  <2> DEFINE S == Seq(W)
             xs == SubSeq(ms, 1, k)
  <2>1. xs \in Seq(Messages(t)) /\ Len(xs) = k /\ \A i \in 1..k : xs[i] = ms[i]
    BY <1>0
  <2>2. of(xs) \in Seq(S) /\ Len(of(xs)) = k
    BY <1>2, <2>1
  <2>3. \A i \in 1..k : of(xs)[i] = B!CSV(ms[i])
    BY <1>0, <2>1
  <2>4. \A i \in 1..k : s[i] \in S /\ s[i] = B!CSV(ms[i])
    BY <1>0, <1>1, <1>4
  <2> HIDE DEF S, s, of, xs
  <2>5. SubSeq(s, 1, k) \in Seq(S) /\ Len(SubSeq(s, 1, k)) = k /\ \A i \in 1..k : SubSeq(s, 1, k)[i] = s[i]
    BY <1>0, <2>4, SubSeqProperties
  <2>6. SubSeq(s, 1, k) = of(xs)
    BY <2>2, <2>3, <2>4, <2>5, SeqEqual
  <2> QED
    BY <2>1, <2>6 DEF xs
<1> HIDE DEF s, of, W, len
<1>6. FlattenSeq(s) \in Seq(W)
  BY <1>4, FlattenFacts
<1>7. PICK upTo \in [0..Len(s) -> Nat] : Ends(s, upTo)
  BY <1>4, FlattenFacts
<1>8. B!Lines(ms) = FlattenSeq(s)
  BY <1>3 DEF s
<1>9. \A k \in 0..len : Len(B!Lines(SubSeq(ms, 1, k))) = upTo[k]
  BY <1>3, <1>4, <1>5, <1>7 DEF Ends
<1>10. ASSUME NEW k \in 1..len
       PROVE  /\ upTo[k] = upTo[k - 1] + 1 + Len(ms[k].values)
              /\ \A i \in k..len : upTo[k] <= upTo[i]
              /\ B!Lines(ms)[upTo[k - 1] + 1] = B!Header(ms[k])
              /\ \A j \in 1..Len(ms[k].values) :
                   B!Lines(ms)[upTo[k - 1] + 1 + j] = B!ValueLine(ms[k].values[j])
  <2>1. ms[k] \in Messages(t) /\ s[k] = B!CSV(ms[k]) /\ upTo[k - 1] \in Nat
    BY <1>0, <1>4, <1>7
  <2> DEFINE n == Len(ms[k].values)
             b == upTo[k - 1]
  <2>2. /\ n \in Nat /\ Len(s[k]) = 1 + n /\ s[k][1] = B!Header(ms[k])
        /\ \A j \in 1..n : s[k][1 + j] = B!ValueLine(ms[k].values[j])
    BY <1>1, <2>1
  <2>3. /\ upTo[k] = b + Len(s[k]) /\ \A i \in k..len : upTo[k] <= upTo[i]
        /\ \A j \in 1..Len(s[k]) : B!Lines(ms)[b + j] = s[k][j]
    BY <1>4, <1>7, <1>8 DEF Ends
  <2> HIDE DEF n, b
  <2>4. b \in Nat
    BY <2>1 DEF b
  <2>5. upTo[k] = b + 1 + n
    BY <2>2, <2>3, <2>4
  <2>6. B!Lines(ms)[b + 1] = B!Header(ms[k])
    BY <2>2, <2>3
  <2>7. ASSUME NEW j \in 1..n PROVE B!Lines(ms)[b + 1 + j] = B!ValueLine(ms[k].values[j])
    <3>1. 1 + j \in 1..Len(s[k]) /\ b + (1 + j) = b + 1 + j
      BY <2>2, <2>4
    <3>2. B!Lines(ms)[b + (1 + j)] = s[k][1 + j]
      BY <2>3, <3>1
    <3> QED
      BY <2>2, <3>1, <3>2
  <2> QED
    BY <2>3, <2>5, <2>6, <2>7 DEF n, b
<1> QED
  <2>1. LastLines(ms, upTo)
    BY <1>4, <1>7, <1>8, <1>9, <1>10 DEF Ends, LastLines, len
  <2>2. B!Lines(ms) \in Seq(WholeLines(t))
    BY <1>6, <1>8 DEF W
  <2> QED
    BY <1>4, <2>1, <2>2 DEF len

\* What a round of the loop of loadCache does.
Round(p) ==
  IF B!AtEnd(p.next) THEN p
  ELSE [next |-> p.next + B!PairsOf(file[p.next]) + 1,
        cache |-> B!Inserted(p.cache, B!MessageAt(p.next))]

\* Where the loop may stand, when the messages are no later than t.
States(t) == {p \in [next : Nat \ {0}, cache : Seq(Messages(t))] : Sorted(p.cache)}

\* Loading is the rounds of the loop one after the other, and every message that it makes of
\* the lines is a message of the cache (Aggregator.cpp:412-497).
LEMMA LoadingFacts ==
  ASSUME NEW t \in Nat, file \in Seq(FileLines(t))
  PROVE  /\ B!Loading[0] = [next |-> 1, cache |-> <<>>]
         /\ \A n \in 0..Len(file) : B!Loading[n] \in States(t)
         /\ \A n \in 1..Len(file) : B!Loading[n] = Round(B!Loading[n - 1])
         /\ \A i \in 1..Len(file) : B!MessageAt(i) \in Messages(t) /\ B!PairsOf(file[i]) \in Nat
<1>line. ASSUME NEW line \in FileLines(t)
         PROVE  B!TimeOf(line) \in 0..t /\ B!PairsOf(line) \in Nat /\ B!Reads(line) \in AValue
  <2> USE <1>line
  <2>1. B!NoValue \in AValue /\ 0 \in 0..t
    BY DEF B!NoValue, AValue
  <2>2. ASSUME NEW v \in AValue PROVE B!AsRead(v) \in AValue
    <3>1. v.number \in Int
      BY DEF AValue
    <3>2. B!Rounded(v.number) \in Int
      BY <3>1 DEF B!Rounded
    <3> QED
      BY <3>2 DEF B!AsRead, AValue
  <2>3. ASSUME NEW m \in Messages(t)
        PROVE  m.time \in 0..t /\ m.pairs \in Nat
    BY DEF Messages
  <2>4. ASSUME NEW m \in Messages(t), line = B!Header(m)
        PROVE  line.kind = "header" /\ line.time \in 0..t /\ line.pairs \in Nat
    BY <2>3, <2>4 DEF B!Header
  <2>5. ASSUME NEW v \in AValue, line = B!ValueLine(v)
        PROVE  line.kind = "value" /\ line.value \in AValue
    BY <2>5 DEF B!ValueLine
  <2>6. ASSUME NEW whole \in WholeLines(t), line \in B!CutLines(whole)
        PROVE  \/ line.kind = "broken"
               \/ line.kind = "header" /\ line.time = 0 /\ line.pairs = 0
               \/ line.kind = "value" /\ line.value \in AValue
    <3>1. CASE line = [kind |-> "broken"]
      BY <3>1
    <3>2. ASSUME NEW m \in Messages(t), whole = B!Header(m), line # [kind |-> "broken"]
          PROVE  line.kind = "header" /\ line.time = 0 /\ line.pairs = 0
      BY <2>6, <3>2 DEF B!CutLines, B!Header
    <3>3. ASSUME NEW v \in AValue, whole = B!ValueLine(v), line # [kind |-> "broken"]
          PROVE  line.kind = "value" /\ line.value \in AValue
      BY <2>6, <3>3 DEF B!CutLines, B!ValueLine, AValue
    <3> QED
      BY <3>1, <3>2, <3>3 DEF WholeLines
  <2> QED
    BY <2>1, <2>2, <2>4, <2>5, <2>6 DEF FileLines, WholeLines, B!TimeOf, B!PairsOf, B!Reads
<1> DEFINE len == Len(file)
<1>0. len \in Nat /\ \A i \in 1..len : file[i] \in FileLines(t)
  OBVIOUS
<1>1. ASSUME NEW i \in 1..len
      PROVE  B!MessageAt(i) \in Messages(t) /\ B!PairsOf(file[i]) \in Nat
  <2>1. B!TimeOf(file[i]) \in 0..t /\ B!PairsOf(file[i]) \in Nat
    BY <1>0, <1>line
  <2>2. \A k \in 1..len : B!Reads(file[k]) \in AValue
    BY <1>0, <1>line
  <2>3. B!NoValue \in AValue
    BY DEF B!NoValue, AValue
  <2> DEFINE n == B!PairsOf(file[i])
             v(k) == IF i + k <= len THEN B!Reads(file[i + k]) ELSE B!NoValue
             values == [k \in 1..n |-> v(k)]
  <2>4. \A k \in 1..n : v(k) \in AValue
    BY <1>0, <2>1, <2>2, <2>3
  <2> HIDE DEF v, n
  <2>5. values \in Seq(AValue)
    BY <2>1, <2>4 DEF n
  <2>6. B!MessageAt(i) = [priority |-> 1, time |-> B!TimeOf(file[i]), pairs |-> n, values |-> values]
    BY DEF B!MessageAt, B!DefaultPriority, n, v
  <2> HIDE DEF values
  <2> QED
    BY <2>1, <2>5, <2>6 DEF Messages, n
<1> HIDE DEF len
<1>2. ASSUME NEW p \in States(t) PROVE Round(p) \in States(t)
  <2>1. p.next \in Nat \ {0} /\ p.cache \in Seq(Messages(t)) /\ Sorted(p.cache)
    BY DEF States
  <2>2. CASE B!AtEnd(p.next)
    BY <2>2 DEF Round
  <2>3. CASE ~B!AtEnd(p.next)
    <3>1. p.next \in 1..len
      BY <1>0, <2>1, <2>3 DEF B!AtEnd, len
    <3>2. B!MessageAt(p.next) \in Messages(t) /\ B!PairsOf(file[p.next]) \in Nat
      BY <1>1, <3>1
    <3>3. \A m \in Messages(t) : m.time \in Nat /\ m.priority \in Nat
      BY DEF Messages
    <3> DEFINE c == B!Inserted(p.cache, B!MessageAt(p.next))
               n == p.next + B!PairsOf(file[p.next]) + 1
    <3>4. c \in Seq(Messages(t)) /\ Sorted(c)
      BY <2>1, <3>2, <3>3, InsertedFacts
    <3>5. n \in Nat \ {0}
      BY <2>1, <3>2
    <3>6. Round(p) = [next |-> n, cache |-> c]
      BY <2>3 DEF Round
    <3> HIDE DEF c, n
    <3> QED
      BY <3>4, <3>5, <3>6 DEF States
  <2> QED
    BY <2>2, <2>3
<1> DEFINE S == States(t)
           a == [next |-> 1, cache |-> <<>>]
           h == [n \in Nat |-> [p \in S |-> Round(p)]]
<1>3. a \in S
  <2>1. <<>> \in Seq(Messages(t)) /\ Sorted(<<>>)
    BY DEF Sorted
  <2> QED
    BY <2>1 DEF States
<1>4. h \in [Nat -> [S -> S]]
  BY <1>2
<1>5. PICK f \in [Nat -> S] : Recurs(f, a, h)
  <2> HIDE DEF S, a, h
  <2> QED
    BY <1>3, <1>4, Recursion
<1>6. f[0] = a /\ \A n \in Nat : f[n] \in S /\ f[n + 1] = Round(f[n])
  BY <1>5 DEF Recurs
<1> HIDE DEF S, h
<1> DEFINE next(g, n) == IF B!AtEnd(g[n - 1].next) THEN g[n - 1]
                         ELSE [next |-> g[n - 1].next + B!PairsOf(file[g[n - 1].next]) + 1,
                               cache |-> B!Inserted(g[n - 1].cache, B!MessageAt(g[n - 1].next))]
           Whole(g) == g = [n \in 0..len |-> IF n = 0 THEN a ELSE next(g, n)]
<1>7. B!Loading = CHOOSE g : Whole(g)
  BY DEF B!Loading, len
<1>8. \A n \in 1..len : f[n] = next(f, n)
  <2> SUFFICES ASSUME NEW n \in 1..len PROVE f[n] = next(f, n)
    OBVIOUS
  <2>1. n - 1 \in Nat /\ (n - 1) + 1 = n
    BY <1>0
  <2>2. f[n] = Round(f[n - 1])
    BY <1>6, <2>1
  <2> QED
    BY <2>2 DEF Round
<1>9. Whole([n \in 0..len |-> f[n]])
  <2> DEFINE g == [n \in 0..len |-> f[n]]
  <2>1. ASSUME NEW n \in 0..len PROVE f[n] = IF n = 0 THEN a ELSE next(g, n)
    <3>1. CASE n = 0
      BY <1>6, <3>1
    <3>2. CASE n # 0
      <4>1. n \in 1..len /\ n - 1 \in 0..len
        BY <1>0, <3>2
      <4>2. g[n - 1] = f[n - 1]
        BY <4>1
      <4> HIDE DEF g
      <4> QED
        BY <1>8, <3>2, <4>1, <4>2
    <3> QED
      BY <3>1, <3>2
  <2> HIDE DEF next
  <2> QED
    BY <2>1
<1>10. Whole(B!Loading)
  <2> HIDE DEF Whole
  <2> QED
    BY <1>7, <1>9
<1>11. \A n \in 0..len : B!Loading[n] = f[n]
  <2> DEFINE Off == {n \in 0..len : B!Loading[n] # f[n]}
  <2> SUFFICES ASSUME Off # {} PROVE FALSE
    OBVIOUS
  <2>1. PICK n \in Off : \A k \in Off : n <= k
    <3>1. Off \subseteq Nat
      BY <1>0
    <3> HIDE DEF Off
    <3> QED
      BY <3>1, LeastNumber
  <2>2. n \in 0..len
    OBVIOUS
  <2>3. B!Loading[n] = IF n = 0 THEN a ELSE next(B!Loading, n)
    <3> HIDE DEF next, Off
    <3> QED
      BY <1>10, <2>2
  <2>4. CASE n = 0
    BY <1>6, <2>3, <2>4
  <2>5. CASE n # 0
    <3>1. n \in 1..len /\ n - 1 \in 0..len /\ ~(n <= n - 1)
      BY <1>0, <2>2, <2>5
    <3>2. B!Loading[n - 1] = f[n - 1]
      BY <2>1, <3>1
    <3>3. next(B!Loading, n) = next(f, n)
      BY <3>2
    <3> HIDE DEF next
    <3> QED
      BY <1>8, <2>3, <2>5, <3>1, <3>3
  <2> QED
    BY <2>4, <2>5
<1>12. \A n \in 1..len : B!Loading[n] = Round(B!Loading[n - 1])
  <2> SUFFICES ASSUME NEW n \in 1..len PROVE B!Loading[n] = Round(B!Loading[n - 1])
    OBVIOUS
  <2>1. n - 1 \in Nat /\ (n - 1) + 1 = n /\ n \in 0..len /\ n - 1 \in 0..len
    BY <1>0
  <2> QED
    BY <1>6, <1>11, <2>1
<1>13. B!Loading[0] = a /\ \A n \in 0..len : B!Loading[n] \in States(t)
  BY <1>0, <1>6, <1>11 DEF S
<1> QED
  BY <1>1, <1>12, <1>13 DEF len

\* The file has the lines that storeCache had written, up to the torn ones.
Wrote ==
  LET all == B!Lines(promised)
  IN  /\ torn \in 0..Len(all) /\ Len(all) - torn <= Len(file)
      /\ \A k \in 1..(Len(all) - torn) : file[k] = all[k]
      /\ torn = 0 => file = all

\* The loop takes the lines of every message in one round as long as no message says that
\* it has more values than it wrote; so it reads what was written
\* (Aggregator.cpp:412-497).
LEMMA Restores ==
  ASSUME NEW t \in Nat, promised \in Seq(Messages(t)),
         file \in Seq(FileLines(t)), Wrote, \A i \in DOMAIN file : ~B!Broken(i)
  PROVE  LET read == B!Loading[Len(file)].cache
         IN  /\ \A i \in DOMAIN promised :
                  B!Written(i) /\ B!Counted(promised[i]) /\ B!NotEaten(i) =>
                    B!Restored(promised[i]) \in ToSet(read)
             /\ \/ torn > 0
                \/ \E i \in DOMAIN promised : ~B!Counted(promised[i])
                \/ /\ Len(read) = Len(promised)
                   /\ ToSet(read) = {B!Restored(promised[i]) : i \in DOMAIN promised}
<1> DEFINE len == Len(file)
           many == Len(promised)
           L == B!Loading
           all == B!Lines(promised)
<1>0. /\ len \in Nat /\ DOMAIN file = 1..len
      /\ many \in Nat /\ DOMAIN promised = 1..many
      /\ \A i \in 1..many : promised[i] \in Messages(t)
  OBVIOUS
<1>1. /\ L[0] = [next |-> 1, cache |-> <<>>]
      /\ \A n \in 0..len : L[n] \in States(t)
      /\ \A n \in 1..len : L[n] = Round(L[n - 1])
      /\ \A i \in 1..len : B!MessageAt(i) \in Messages(t) /\ B!PairsOf(file[i]) \in Nat
  BY LoadingFacts
<1>2. PICK upTo \in [0..many -> Nat] : LastLines(promised, upTo)
  BY LinesFacts
<1>3. Len(all) \in Nat /\ all \in Seq(WholeLines(t))
  BY LinesFacts
<1> HIDE DEF len, many, L, all
<1>4. /\ upTo[0] = 0 /\ upTo[many] = Len(all)
      /\ \A k \in 0..many : B!LinesUpTo(k) = upTo[k]
  BY <1>2 DEF LastLines, many, all, B!LinesUpTo
<1>5. ASSUME NEW k \in 1..many
      PROVE  /\ Len(promised[k].values) \in Nat /\ promised[k].pairs \in Nat
             /\ k - 1 \in 0..many /\ upTo[k - 1] \in Nat /\ upTo[k] \in Nat
             /\ upTo[k] = upTo[k - 1] + 1 + Len(promised[k].values)
             /\ \A n \in k..many : upTo[k] <= upTo[n]
             /\ all[upTo[k - 1] + 1] = B!Header(promised[k])
             /\ \A j \in 1..Len(promised[k].values) :
                  all[upTo[k - 1] + 1 + j] = B!ValueLine(promised[k].values[j])
  <2>1. promised[k].values \in Seq(AValue) /\ promised[k].pairs \in Nat
    BY <1>0 DEF Messages
  <2>2. Len(promised[k].values) \in Nat
    BY <2>1
  <2>3. k - 1 \in 0..many /\ k \in 0..many
    BY <1>0
  <2>4. upTo[k - 1] \in Nat /\ upTo[k] \in Nat
    BY <2>3
  <2> QED
    BY <1>2, <2>1, <2>2, <2>3, <2>4 DEF LastLines, many, all
<1>6. /\ torn \in 0..Len(all) /\ Len(all) - torn <= len
      /\ \A k \in 1..(Len(all) - torn) : file[k] = all[k]
      /\ torn = 0 => file = all
  BY DEF Wrote, all, len
<1>7. ASSUME NEW q \in Nat \ {0} PROVE B!AtEnd(q) <=> q > len
  <2> SUFFICES ASSUME q <= len, NEW k \in q..(q + B!PairsOf(file[q])), k <= len, B!Broken(k)
               PROVE  FALSE
    BY <1>0 DEF B!AtEnd, len
  <2>1. B!PairsOf(file[q]) \in Nat
    BY <1>0, <1>1
  <2>2. k \in 1..len
    BY <1>0, <2>1
  <2> QED
    BY <1>0, <2>2
<1>8. ASSUME NEW n \in 1..len
      PROVE  /\ n - 1 \in 0..len /\ L[n - 1].next \in Nat \ {0}
             /\ L[n - 1].next > len => L[n] = L[n - 1]
             /\ L[n - 1].next <= len =>
                  /\ B!PairsOf(file[L[n - 1].next]) \in Nat
                  /\ B!MessageAt(L[n - 1].next) \in Messages(t)
                  /\ L[n].next = L[n - 1].next + B!PairsOf(file[L[n - 1].next]) + 1
                  /\ L[n].cache = B!Inserted(L[n - 1].cache, B!MessageAt(L[n - 1].next))
                  /\ B!MessageAt(L[n - 1].next) \in ToSet(L[n].cache)
                  /\ ToSet(L[n].cache) = ToSet(L[n - 1].cache) \cup {B!MessageAt(L[n - 1].next)}
                  /\ Len(L[n].cache) = Len(L[n - 1].cache) + 1
             /\ Len(L[n - 1].cache) \in Nat
             /\ ToSet(L[n - 1].cache) \subseteq ToSet(L[n].cache)
  <2> DEFINE p == L[n - 1]
  <2>1. n - 1 \in 0..len
    BY <1>0
  <2>2. p \in States(t) /\ L[n] = Round(p)
    BY <1>1, <2>1
  <2> HIDE DEF p
  <2>3. p.next \in Nat \ {0} /\ p.cache \in Seq(Messages(t)) /\ Sorted(p.cache)
    BY <2>2 DEF States
  <2>4. CASE p.next > len
    <3>1. L[n] = p
      BY <1>7, <2>2, <2>3, <2>4 DEF Round
    <3>2. Len(p.cache) \in Nat
      BY <2>3
    <3> QED
      BY <1>0, <2>1, <2>3, <2>4, <3>1, <3>2 DEF p
  <2>5. CASE ~(p.next > len)
    <3>1. p.next \in 1..len
      BY <1>0, <2>3, <2>5
    <3>2. B!PairsOf(file[p.next]) \in Nat /\ B!MessageAt(p.next) \in Messages(t)
      BY <1>1, <3>1
    <3>3. L[n] = [next |-> p.next + B!PairsOf(file[p.next]) + 1,
                  cache |-> B!Inserted(p.cache, B!MessageAt(p.next))]
      BY <1>7, <2>2, <2>3, <2>5 DEF Round
    <3>4. \A m \in Messages(t) : m.time \in Nat /\ m.priority \in Nat
      BY DEF Messages
    <3>5. /\ ToSet(B!Inserted(p.cache, B!MessageAt(p.next)))
               = ToSet(p.cache) \cup {B!MessageAt(p.next)}
          /\ Len(B!Inserted(p.cache, B!MessageAt(p.next))) = Len(p.cache) + 1
      BY <2>3, <3>2, <3>4, InsertedFacts
    <3>6. Len(p.cache) \in Nat
      BY <2>3
    <3> QED
      BY <2>1, <2>3, <2>5, <3>2, <3>3, <3>5, <3>6 DEF p
  <2> QED
    BY <2>4, <2>5
<1>9. \A n \in 0..len : L[n].next > n
  <2> DEFINE Off == {n \in 0..len : ~(L[n].next > n)}
  <2> SUFFICES ASSUME Off # {} PROVE FALSE
    OBVIOUS
  <2>1. PICK n \in Off : \A k \in Off : n <= k
    <3>1. Off \subseteq Nat
      BY <1>0
    <3> HIDE DEF Off
    <3> QED
      BY <3>1, LeastNumber
  <2>2. n \in 0..len /\ n # 0
    BY <1>1
  <2>3. n \in 1..len /\ n - 1 \in 0..len /\ ~(n <= n - 1)
    BY <1>0, <2>2
  <2>4. L[n - 1].next > n - 1
    BY <2>1, <2>3
  <2>5. ~(L[n].next > n)
    OBVIOUS
  <2> HIDE DEF Off
  <2>6. L[n - 1].next \in Nat
    BY <1>8, <2>3
  <2>7. CASE L[n - 1].next > len
    BY <1>0, <1>8, <2>3, <2>5, <2>7
  <2>8. CASE L[n - 1].next <= len
    BY <1>0, <1>8, <2>3, <2>4, <2>5, <2>8
  <2> QED
    BY <1>0, <2>6, <2>7, <2>8
<1>10. ASSUME NEW n \in 0..len PROVE \A k \in n..len : ToSet(L[n].cache) \subseteq ToSet(L[k].cache)
  <2> DEFINE Off == {k \in n..len : ~(ToSet(L[n].cache) \subseteq ToSet(L[k].cache))}
  <2> SUFFICES ASSUME Off # {} PROVE FALSE
    OBVIOUS
  <2>1. PICK k \in Off : \A j \in Off : k <= j
    <3>1. Off \subseteq Nat
      BY <1>0
    <3> HIDE DEF Off
    <3> QED
      BY <3>1, LeastNumber
  <2>2. k \in n..len /\ k # n /\ ~(ToSet(L[n].cache) \subseteq ToSet(L[k].cache))
    OBVIOUS
  <2>3. k \in 1..len /\ k - 1 \in n..len /\ ~(k <= k - 1)
    BY <1>0, <2>2
  <2>4. ToSet(L[n].cache) \subseteq ToSet(L[k - 1].cache)
    BY <2>1, <2>3
  <2> QED
    BY <1>8, <2>2, <2>3, <2>4
<1> DEFINE Reached(q) == \E n \in 0..len : L[n].next = q
<1>11. ASSUME NEW q \in 1..len, Reached(q)
       PROVE  /\ Reached(q + B!PairsOf(file[q]) + 1)
              /\ B!MessageAt(q) \in ToSet(L[len].cache)
  <2>1. PICK n \in 0..len : L[n].next = q
    BY <1>11
  <2>2. n + 1 \in 1..len /\ (n + 1) - 1 = n /\ q <= len
    BY <1>0, <1>9, <2>1
  <2>3. /\ L[n + 1].next = q + B!PairsOf(file[q]) + 1
        /\ B!MessageAt(q) \in ToSet(L[n + 1].cache)
    BY <1>8, <2>1, <2>2
  <2>4. n + 1 \in 0..len /\ len \in (n + 1)..len
    BY <1>0, <2>2
  <2> QED
    BY <1>10, <2>3, <2>4
<1>12. Reached(1)
  BY <1>0, <1>1
<1> HIDE DEF Reached
\* The lines that were written are read as what they are.
<1>13. ASSUME NEW i \in 1..many, B!Written(i), NEW k \in 1..i
       PROVE  /\ upTo[k - 1] + 1 \in 1..len
              /\ file[upTo[k - 1] + 1] = B!Header(promised[k])
              /\ B!PairsOf(file[upTo[k - 1] + 1]) = promised[k].pairs
              /\ B!TimeOf(file[upTo[k - 1] + 1]) = promised[k].time
              /\ \A j \in 1..Len(promised[k].values) :
                   /\ upTo[k - 1] + 1 + j \in 1..len
                   /\ file[upTo[k - 1] + 1 + j] = B!ValueLine(promised[k].values[j])
                   /\ B!PairsOf(file[upTo[k - 1] + 1 + j]) = 0
                   /\ B!Reads(file[upTo[k - 1] + 1 + j]) = B!AsRead(promised[k].values[j])
  <2> DEFINE b == upTo[k - 1]
             n == Len(promised[k].values)
  <2>1. k \in 1..many /\ i \in k..many /\ i \in 0..many
    BY <1>0
  <2>2. upTo[i] <= Len(all) - torn
    BY <1>4, <1>13, <2>1 DEF B!Written, all
  <2>3. /\ n \in Nat /\ b \in Nat /\ upTo[k] = b + 1 + n /\ upTo[k] <= upTo[i]
        /\ all[b + 1] = B!Header(promised[k])
        /\ \A j \in 1..n : all[b + 1 + j] = B!ValueLine(promised[k].values[j])
    BY <1>5, <2>1
  <2>4. upTo[i] \in Nat
    BY <2>1
  <2> HIDE DEF b, n
  <2>5. b + 1 + n <= Len(all) - torn /\ Len(all) - torn <= len /\ Len(all) - torn \in Nat
    BY <1>3, <1>6, <2>2, <2>3, <2>4
  <2>6. b + 1 \in 1..len /\ b + 1 \in 1..(Len(all) - torn)
    BY <1>0, <2>3, <2>5
  <2>7. file[b + 1] = B!Header(promised[k])
    BY <1>6, <2>3, <2>6
  <2>8. B!PairsOf(file[b + 1]) = promised[k].pairs /\ B!TimeOf(file[b + 1]) = promised[k].time
    BY <2>7 DEF B!PairsOf, B!TimeOf, B!Header
  <2>9. ASSUME NEW j \in 1..n
        PROVE  /\ b + 1 + j \in 1..len
               /\ file[b + 1 + j] = B!ValueLine(promised[k].values[j])
    <3>1. b + 1 + j \in 1..len /\ b + 1 + j \in 1..(Len(all) - torn)
      BY <1>0, <2>3, <2>5
    <3> QED
      BY <1>6, <2>3, <3>1
  <2>10. ASSUME NEW j \in 1..n
         PROVE  /\ B!PairsOf(file[b + 1 + j]) = 0
                /\ B!Reads(file[b + 1 + j]) = B!AsRead(promised[k].values[j])
    <3> DEFINE line == file[b + 1 + j]
               v == promised[k].values[j]
    <3>1. line = B!ValueLine(v)
      BY <2>9
    <3> HIDE DEF line, v
    <3>2. B!PairsOf(line) = 0 /\ B!Reads(line) = B!AsRead(v)
      BY <3>1 DEF B!PairsOf, B!Reads, B!ValueLine
    <3> QED
      BY <3>2 DEF line, v
  <2> QED
    BY <2>6, <2>7, <2>8, <2>9, <2>10 DEF b, n
<1>14. ASSUME NEW i \in 1..many, B!Written(i), B!Counted(promised[i])
       PROVE  B!MessageAt(upTo[i - 1] + 1) = B!Restored(promised[i])
  <2> DEFINE m == promised[i]
             b == upTo[i - 1] + 1
             n == Len(m.values)
             v == [k \in 1..n |-> IF b + k <= len THEN B!Reads(file[b + k]) ELSE B!NoValue]
             w == [k \in DOMAIN m.values |-> B!AsRead(m.values[k])]
  <2>1. i \in 1..i /\ m \in Messages(t)
    BY <1>0
  <2>2. m.values \in Seq(AValue)
    BY <2>1 DEF Messages
  <2>3. DOMAIN m.values = 1..n /\ n \in Nat
    BY <2>2
  <2>4. /\ B!PairsOf(file[b]) = n /\ B!TimeOf(file[b]) = m.time
        /\ \A k \in 1..n : b + k \in 1..len /\ B!Reads(file[b + k]) = B!AsRead(m.values[k])
    BY <1>13, <1>14, <2>1 DEF B!Counted
  <2>5. v = w
    <3> HIDE DEF b, m, n
    <3>1. \A k \in 1..n : b + k <= len
      BY <1>0, <2>4
    <3> QED
      BY <2>3, <2>4, <3>1
  <2>6. B!MessageAt(b) = [priority |-> 1, time |-> m.time, pairs |-> n, values |-> v]
    BY <2>4 DEF B!MessageAt, B!DefaultPriority, len
  <2>7. B!Restored(m) = [priority |-> 1, time |-> m.time, pairs |-> m.pairs, values |-> w]
    BY DEF B!Restored, B!DefaultPriority
  <2>8. m.pairs = n
    BY <1>14 DEF B!Counted
  <2> HIDE DEF b, n, v, w, m
  <2> QED
    BY <2>5, <2>6, <2>7, <2>8 DEF b, m
<1>15. ASSUME NEW i \in 1..many, B!Written(i), B!NotEaten(i)
       PROVE  \A k \in 1..i : Reached(upTo[k - 1] + 1)
  <2> DEFINE Off == {k \in 1..i : ~Reached(upTo[k - 1] + 1)}
  <2> SUFFICES ASSUME Off # {} PROVE FALSE
    OBVIOUS
  <2>1. PICK k \in Off : \A j \in Off : k <= j
    <3>1. Off \subseteq Nat
      BY <1>0
    <3> HIDE DEF Off
    <3> QED
      BY <3>1, LeastNumber
  <2>2. k \in 1..i /\ ~Reached(upTo[k - 1] + 1)
    OBVIOUS
  <2>3. k # 1
    <3>1. CASE k = 1
      <4>1. upTo[k - 1] + 1 = 1
        BY <1>4, <3>1
      <4> QED
        BY <1>12, <2>2, <4>1
    <3> QED
      BY <3>1
  <2> DEFINE j == k - 1
  <2>4. j \in 1..i /\ j \in 1..(i - 1) /\ j \in 1..many /\ ~(k <= j)
    BY <1>0, <2>2, <2>3
  <2>5. Reached(upTo[j - 1] + 1)
    BY <2>1, <2>4
  <2> HIDE DEF Off
  <2> DEFINE b == upTo[j - 1] + 1
             n == Len(promised[j].values)
             c == promised[j].pairs
  <2>6. /\ b \in 1..len /\ B!PairsOf(file[b]) = c
        /\ \A h \in 1..n : b + h \in 1..len /\ B!PairsOf(file[b + h]) = 0
    BY <1>13, <1>15, <2>4
  <2>7. n \in Nat /\ c \in Nat /\ c <= n /\ b \in Nat /\ upTo[j] = b + n
    <3>1. /\ n \in Nat /\ c \in Nat /\ upTo[j - 1] \in Nat
          /\ upTo[j] = upTo[j - 1] + 1 + n
      BY <1>5, <2>4
    <3>2. c <= n
      BY <1>15, <2>4 DEF B!NotEaten
    <3> QED
      BY <3>1, <3>2
  <2>8. ~Reached(upTo[j] + 1)
    BY <2>2
  <2> HIDE DEF b, n, c
  <2>9. Reached(b + c + 1)
    BY <1>11, <2>5, <2>6 DEF b
  <2>10. \A q \in (b + c + 1)..(b + n + 1) : Reached(q)
    <3> DEFINE Far == {q \in (b + c + 1)..(b + n + 1) : ~Reached(q)}
    <3> SUFFICES ASSUME Far # {} PROVE FALSE
      OBVIOUS
    <3>1. PICK q \in Far : \A p \in Far : q <= p
      <4>1. Far \subseteq Nat
        BY <2>7
      <4> HIDE DEF Far
      <4> QED
        BY <4>1, LeastNumber
    <3>2. q \in (b + c + 1)..(b + n + 1) /\ q # b + c + 1 /\ ~Reached(q)
      BY <2>9
    <3>3. q - 1 \in (b + c + 1)..(b + n + 1) /\ ~(q <= q - 1)
      BY <2>7, <3>2
    <3>4. Reached(q - 1)
      BY <3>1, <3>3
    <3> HIDE DEF Far
    <3>5. (q - 1) - b \in 1..n /\ b + ((q - 1) - b) = q - 1
      BY <2>7, <3>2
    <3>6. q - 1 \in 1..len /\ B!PairsOf(file[q - 1]) = 0
      BY <2>6, <3>5
    <3>7. Reached((q - 1) + B!PairsOf(file[q - 1]) + 1)
      BY <1>11, <3>4, <3>6
    <3>8. (q - 1) + B!PairsOf(file[q - 1]) + 1 = q
      BY <2>7, <3>2, <3>6
    <3> QED
      BY <3>2, <3>7, <3>8
  <2>11. b + n + 1 \in (b + c + 1)..(b + n + 1)
    BY <2>7
  <2> QED
    BY <2>7, <2>8, <2>10, <2>11
<1>16. ASSUME NEW i \in 1..many, B!Written(i), B!Counted(promised[i]), B!NotEaten(i)
       PROVE  B!Restored(promised[i]) \in ToSet(L[len].cache)
  <2>1. i \in 1..i
    BY <1>0
  <2>2. Reached(upTo[i - 1] + 1) /\ upTo[i - 1] + 1 \in 1..len
    BY <1>13, <1>15, <1>16, <2>1
  <2> QED
    BY <1>11, <1>14, <1>16, <2>2
<1>17. ASSUME torn = 0, \A i \in 1..many : B!Counted(promised[i])
       PROVE  /\ Len(L[len].cache) = many
              /\ ToSet(L[len].cache) = {B!Restored(promised[i]) : i \in 1..many}
  <2> DEFINE first(k) == {B!Restored(promised[j]) : j \in 1..k}
             Whole(k) == /\ k <= upTo[k] /\ L[k].next = upTo[k] + 1
                         /\ Len(L[k].cache) = k /\ ToSet(L[k].cache) = first(k)
  <2>1. file = all /\ len = Len(all)
    BY <1>6, <1>17 DEF len
  <2>2. \A i \in 1..many : B!Written(i)
    <3> SUFFICES ASSUME NEW i \in 1..many PROVE B!Written(i)
      OBVIOUS
    <3>1. many \in i..many /\ i \in 0..many
      BY <1>0
    <3>2. upTo[i] <= upTo[many]
      BY <1>5, <3>1
    <3> QED
      BY <1>3, <1>4, <1>17, <3>1, <3>2 DEF B!Written, all
  <2>4. \A k \in 0..many : Whole(k)
    <3> DEFINE Off == {k \in 0..many : ~Whole(k)}
    <3> SUFFICES ASSUME Off # {} PROVE FALSE
      OBVIOUS
    <3>1. PICK k \in Off : \A j \in Off : k <= j
      <4>1. Off \subseteq Nat
        BY <1>0
      <4> HIDE DEF Off
      <4> QED
        BY <4>1, LeastNumber
    <3> HIDE DEF Whole
    <3>2. k \in 0..many /\ ~Whole(k)
      OBVIOUS
    <3>3. Whole(0)
      <4>1. first(0) = {} /\ ToSet(<<>>) = {} /\ Len(<<>>) = 0
        BY DEF ToSet
      <4> QED
        BY <1>1, <1>4, <4>1 DEF Whole
    <3>4. k \in 1..many /\ k - 1 \in 0..many /\ ~(k <= k - 1)
      BY <1>0, <3>2, <3>3
    <3>5. Whole(k - 1)
      BY <3>1, <3>4
    <3> HIDE DEF Off, first
    <3> DEFINE b == upTo[k - 1]
               n == Len(promised[k].values)
               R == B!Restored(promised[k])
    <3>6. /\ k - 1 <= b /\ L[k - 1].next = b + 1
          /\ Len(L[k - 1].cache) = k - 1 /\ ToSet(L[k - 1].cache) = first(k - 1)
      BY <3>5 DEF Whole
    <3>7. /\ b \in Nat /\ n \in Nat /\ upTo[k] = b + 1 + n /\ upTo[k] <= upTo[many]
      BY <1>0, <1>5, <3>4
    <3>8. k \in 1..k
      BY <3>4
    <3>9. b + 1 \in 1..len /\ B!PairsOf(file[b + 1]) = n /\ B!MessageAt(b + 1) = R
      BY <1>13, <1>14, <1>17, <2>2, <3>4, <3>8 DEF B!Counted
    <3> HIDE DEF b, n, R
    <3>10. k <= upTo[k] /\ k \in 1..len
      BY <1>0, <1>4, <2>1, <3>4, <3>6, <3>7
    <3>11. /\ L[k].next = b + 1 + n + 1
           /\ Len(L[k].cache) = k /\ ToSet(L[k].cache) = first(k - 1) \cup {R}
      <4>1. L[k - 1].next = b + 1 /\ b + 1 <= len
        BY <1>0, <3>6, <3>9
      <4>2. /\ L[k].next = (b + 1) + B!PairsOf(file[b + 1]) + 1
            /\ ToSet(L[k].cache) = ToSet(L[k - 1].cache) \cup {B!MessageAt(b + 1)}
            /\ Len(L[k].cache) = Len(L[k - 1].cache) + 1
        BY <1>8, <3>10, <4>1
      <4> QED
        BY <3>4, <3>6, <3>9, <4>2
    <3>12. first(k - 1) \cup {R} = first(k)
      <4>1. \A j : j \in 1..k <=> j \in 1..(k - 1) \/ j = k
        BY <3>4
      <4> QED
        BY <4>1 DEF first, R
    <3> QED
      BY <3>2, <3>7, <3>10, <3>11, <3>12 DEF Whole
  <2>5. /\ many \in 0..len /\ L[many].next = len + 1
        /\ Len(L[many].cache) = many /\ ToSet(L[many].cache) = first(many)
    <3>1. Whole(many)
      <4>1. many \in 0..many
        BY <1>0
      <4> HIDE DEF Whole
      <4> QED
        BY <2>4, <4>1
    <3> HIDE DEF first
    <3> QED
      BY <1>0, <1>4, <2>1, <3>1
  <2>6. \A n \in many..len : L[n] = L[many]
    <3> DEFINE Off == {n \in many..len : L[n] # L[many]}
    <3> SUFFICES ASSUME Off # {} PROVE FALSE
      OBVIOUS
    <3>1. PICK n \in Off : \A j \in Off : n <= j
      <4>1. Off \subseteq Nat
        BY <1>0
      <4> HIDE DEF Off
      <4> QED
        BY <4>1, LeastNumber
    <3>2. n \in many..len /\ n # many /\ L[n] # L[many]
      OBVIOUS
    <3>3. n \in 1..len /\ n - 1 \in many..len /\ ~(n <= n - 1)
      BY <1>0, <3>2
    <3>4. L[n - 1] = L[many]
      BY <3>1, <3>3
    <3>5. L[n - 1].next > len
      BY <1>0, <2>5, <3>4
    <3> QED
      BY <1>8, <3>2, <3>3, <3>4, <3>5
  <2>7. len \in many..len
    BY <1>0, <2>5
  <2> QED
    BY <2>5, <2>6, <2>7
<1>18. torn > 0 \/ torn = 0
  BY <1>3, <1>6
<1> QED
  BY <1>0, <1>16, <1>17, <1>18 DEF len, many, L

\* Cache and file have messages of the past, the cache in the order of its keys, and the file
\* is what storeCache wrote of the cache, wherever it was interrupted.
BackupInv ==
  /\ gateway \in {"running", "down", "loaded", "stuck"} /\ time \in Nat
  /\ cache \in Seq(Messages(time)) /\ Sorted(cache) /\ promised \in Seq(Messages(time))
  /\ file \in Seq(FileLines(time)) /\ Wrote
  /\ B!BackupIsFaithful

\* What storeCache had finished to write is restored, nothing else is unless the file is torn
\* or counts values wrongly, and loadCache throws only on a torn file, for any messages,
\* values and moments at which the gateway goes down (Aggregator.cpp:387-391, 412-497,
\* Distributor.cpp:139-168).
THEOREM BackupHolds == RecordsSpec => []BackupIsFaithful
<1>0. <<>> \in Seq(Messages(0)) /\ B!Lines(<<>>) = <<>>
  <2>1. <<>> \in Seq(Messages(0)) /\ 0 \in Nat
    OBVIOUS
  <2>2. PICK upTo \in [0..Len(<<>>) -> Nat] : LastLines(<<>>, upTo)
    BY <2>1, LinesFacts
  <2>3. B!Lines(<<>>) \in Seq(WholeLines(0)) /\ Len(B!Lines(<<>>)) = 0
    <3>1. Len(<<>>) = 0
      OBVIOUS
    <3>2. Len(B!Lines(<<>>)) = 0
      BY <2>2, <3>1 DEF LastLines
    <3> QED
      BY <2>1, <3>2, LinesFacts
  <2> DEFINE none == B!Lines(<<>>)
  <2> HIDE DEF none
  <2>4. none = <<>>
    BY <2>3 DEF none
  <2> QED
    BY <2>1, <2>4 DEF none
<1>1. RecordsInit => BackupInv
  <2> SUFFICES ASSUME RecordsInit PROVE BackupInv
    OBVIOUS
  <2>1. /\ cache = <<>> /\ file = <<>> /\ gateway = "running" /\ promised = <<>> /\ torn = 0
        /\ time = 0
    BY DEF RecordsInit, B!FileInit
  <2>2. Sorted(<<>>)
    BY DEF Sorted
  <2>3. Wrote
    BY <1>0, <2>1 DEF Wrote
  <2>4. B!BackupIsFaithful
    BY <2>1 DEF B!BackupIsFaithful, B!StoredIsRestored, B!NothingInvented, B!StuckIsTorn
  <2> QED
    BY <1>0, <2>1, <2>2, <2>3, <2>4 DEF BackupInv
<1>2. BackupInv /\ [RecordsNext]_<<exercised, vars, backupOf>> => BackupInv'
  <2> SUFFICES ASSUME BackupInv, [RecordsNext]_<<exercised, vars, backupOf>> PROVE BackupInv'
    OBVIOUS
  <2> USE DEF BackupInv
  <2> DEFINE M == Messages(time)
             F == FileLines(time)
  <2>0. /\ time \in Nat /\ cache \in Seq(M) /\ promised \in Seq(M) /\ file \in Seq(F)
        /\ Sorted(cache) /\ Wrote
    OBVIOUS
  <2>1. ASSUME file' = file, promised' = promised, torn' = torn PROVE Wrote'
    BY <2>0, <2>1 DEF Wrote
  <2>2. ASSUME gateway' \in {"running", "down"} PROVE B!BackupIsFaithful'
    BY <2>2 DEF B!BackupIsFaithful, B!StoredIsRestored, B!NothingInvented, B!StuckIsTorn
  <2>3. ASSUME NEW r \in Readings, B!Insert(r) PROVE BackupInv'
    <3>1. /\ gateway' = "running" /\ time' = time + 1
          /\ cache' = B!Inserted(cache, [priority |-> r.priority, time |-> time',
                                         pairs |-> r.pairs, values |-> r.values])
          /\ file' = file /\ promised' = promised /\ torn' = torn
      BY <2>3 DEF B!Insert
    <3> DEFINE m == [priority |-> r.priority, time |-> time', pairs |-> r.pairs, values |-> r.values]
    <3>2. m \in Messages(time')
      BY <2>0, <3>1, ReadingsAssumption DEF Messages, AValue
    <3>3. Messages(time) \subseteq Messages(time')
      BY <2>0, <3>1 DEF Messages
    <3>4. WholeLines(time) \subseteq WholeLines(time')
      BY <3>3 DEF WholeLines
    <3>5. FileLines(time) \subseteq FileLines(time')
      BY <3>4 DEF FileLines
    <3>6. /\ cache \in Seq(Messages(time')) /\ promised' \in Seq(Messages(time'))
          /\ file' \in Seq(FileLines(time'))
      BY <2>0, <3>1, <3>3, <3>5, SeqMonotonic
    <3>7. \A x \in Messages(time') : x.time \in Nat /\ x.priority \in Nat
      BY <2>0, <3>1 DEF Messages
    <3> HIDE DEF m
    <3>8. cache' \in Seq(Messages(time')) /\ Sorted(cache')
      BY <2>0, <3>1, <3>2, <3>6, <3>7, InsertedFacts DEF m
    <3> QED
      BY <2>0, <2>1, <2>2, <3>1, <3>6, <3>8
  <2>4. ASSUME B!Take PROVE BackupInv'
    <3>1. PICK i \in DOMAIN cache : cache' = B!RemoveAt(cache, i)
      BY <2>4 DEF B!Take
    <3>2. /\ gateway' = "running" /\ time' = time /\ file' = file /\ promised' = promised
          /\ torn' = torn
      BY <2>4 DEF B!Take
    <3> DEFINE len == Len(cache)
    <3>3. len \in Nat /\ DOMAIN cache = 1..len /\ i \in 1..len /\ \A j \in 1..len : cache[j] \in M
      BY <2>0
    <3> HIDE DEF M
    <3> DEFINE front == SubSeq(cache, 1, i - 1)
               back == SubSeq(cache, i + 1, len)
    <3>4. /\ front \in Seq(M) /\ Len(front) = i - 1 /\ \A j \in 1..(i - 1) : front[j] = cache[j]
          /\ back \in Seq(M) /\ Len(back) = len - i /\ \A j \in 1..(len - i) : back[j] = cache[i + j]
      <4> HIDE DEF len
      <4>1. \A j \in 1..(i - 1) : cache[j] \in M
        BY <3>3
      <4>2. \A j \in (i + 1)..len : cache[j] \in M
        BY <3>3
      <4>3. /\ front \in Seq(M) /\ Len(front) = i - 1
            /\ \A j \in 1..(i - 1) : front[j] = cache[j]
        BY <3>3, <4>1
      <4>4. back \in Seq(M) /\ Len(back) = len - i
        BY <3>3, <4>2
      <4>5. \A j \in 1..(len - i) : back[j] = cache[i + j]
        BY <3>3, <4>2
      <4> QED
        BY <4>3, <4>4, <4>5
    <3>5. cache' = front \o back
      BY <3>1 DEF B!RemoveAt
    <3> HIDE DEF front, back, len
    <3>6. /\ cache' \in Seq(M) /\ Len(cache') = len - 1
          /\ \A j \in 1..(i - 1) : cache'[j] = cache[j]
          /\ \A j \in i..(len - 1) : cache'[j] = cache[j + 1]
      <4>1. cache' \in Seq(M) /\ Len(cache') = len - 1
        <5>1. cache' \in Seq(M) /\ Len(cache') = Len(front) + Len(back)
          BY <3>4, <3>5, ConcatProperties
        <5>2. (i - 1) + (len - i) = len - 1
          BY <3>3
        <5> QED
          BY <3>4, <5>1, <5>2
      <4>2. ASSUME NEW j \in 1..(i - 1) PROVE cache'[j] = cache[j]
        <5>1. cache'[j] = front[j]
          BY <3>3, <3>4, <3>5
        <5> QED
          BY <3>4, <5>1
      <4>3. ASSUME NEW j \in i..(len - 1) PROVE cache'[j] = cache[j + 1]
        <5>1. cache'[j] = back[j - (i - 1)]
          BY <3>3, <3>4, <3>5
        <5>2. j - (i - 1) \in 1..(len - i) /\ i + (j - (i - 1)) = j + 1
          BY <3>3
        <5> QED
          BY <3>4, <5>1, <5>2
      <4> QED
        BY <4>1, <4>2, <4>3
    <3>7. Sorted(cache')
      <4>1. DOMAIN cache' = 1..(len - 1)
        BY <3>3, <3>6
      <4>2. \A j \in 1..(len - 1) : \E n \in 1..len : cache'[j] = cache[n] /\ n = IF j < i THEN j ELSE j + 1
        <5> SUFFICES ASSUME NEW j \in 1..(len - 1)
                     PROVE  \E n \in 1..len : cache'[j] = cache[n] /\ n = IF j < i THEN j ELSE j + 1
          OBVIOUS
        <5>1. CASE j < i
          BY <3>3, <3>6, <5>1
        <5>2. CASE ~(j < i)
          <6>1. j \in i..(len - 1) /\ j + 1 \in 1..len
            BY <3>3, <5>2
          <6> QED
            BY <3>6, <5>2, <6>1
        <5> QED
          BY <5>1, <5>2
      <4> SUFFICES ASSUME NEW j \in 1..(len - 1), NEW k \in 1..(len - 1), j <= k
                   PROVE  B!NotAfter(cache'[j], cache'[k])
        BY <4>1 DEF Sorted
      <4>3. PICK p \in 1..len : cache'[j] = cache[p] /\ p = IF j < i THEN j ELSE j + 1
        BY <4>2
      <4>4. PICK n \in 1..len : cache'[k] = cache[n] /\ n = IF k < i THEN k ELSE k + 1
        BY <4>2
      <4>5. p <= n
        BY <3>3, <4>3, <4>4
      <4> QED
        BY <2>0, <3>3, <4>3, <4>4, <4>5 DEF Sorted
    <3>8. promised' \in Seq(Messages(time')) /\ file' \in Seq(FileLines(time'))
      BY <2>0, <3>2
    <3>9. cache' \in Seq(Messages(time'))
      BY <3>2, <3>6 DEF M
    <3> QED
      BY <2>0, <2>1, <2>2, <3>2, <3>7, <3>8, <3>9
  <2>5. ASSUME B!StoreCache PROVE BackupInv'
    <3>1. /\ gateway' = "running" /\ time' = time /\ cache' = cache
          /\ file' = B!Lines(cache) /\ promised' = cache /\ torn' = 0
      BY <2>5 DEF B!StoreCache
    <3>2. B!Lines(cache) \in Seq(WholeLines(time))
      BY <2>0, LinesFacts
    <3>3. WholeLines(time) \subseteq FileLines(time)
      BY DEF FileLines
    <3>4. file' \in Seq(FileLines(time'))
      BY <3>1, <3>2, <3>3, SeqMonotonic
    <3>5. Wrote'
      <4>1. Len(B!Lines(cache)) \in Nat
        BY <3>2
      <4> QED
        BY <3>1, <4>1 DEF Wrote
    <3> QED
      BY <2>0, <2>2, <3>1, <3>4, <3>5
  <2>6. ASSUME B!RemoveFile PROVE BackupInv'
    <3>1. /\ gateway' = "running" /\ time' = time /\ cache' = cache
          /\ file' = <<>> /\ promised' = <<>> /\ torn' = 0
      BY <2>6 DEF B!RemoveFile
    <3>2. Wrote'
      BY <1>0, <3>1 DEF Wrote
    <3>3. Sorted(<<>>)
      BY DEF Sorted
    <3>4. promised' \in Seq(Messages(time')) /\ file' \in Seq(FileLines(time'))
      BY <3>1
    <3> QED
      BY <2>0, <2>2, <3>1, <3>2, <3>3, <3>4
  <2>7. ASSUME B!Crash PROVE BackupInv'
    <3>1. /\ gateway' = "down" /\ time' = time /\ cache' = <<>>
          /\ file' = file /\ promised' = promised /\ torn' = torn
      BY <2>7 DEF B!Crash
    <3>2. Sorted(<<>>) /\ <<>> \in Seq(Messages(time'))
      BY DEF Sorted
    <3> QED
      BY <2>0, <2>1, <2>2, <3>1, <3>2
  <2>8. ASSUME B!CrashInStore PROVE BackupInv'
    <3> DEFINE all == B!Lines(cache)
    <3>1. gateway' = "down" /\ time' = time /\ cache' = <<>> /\ promised' = cache
      BY <2>8 DEF B!CrashInStore
    <3>2. PICK n \in 1..Len(all) :
            /\ \/ file' = SubSeq(all, 1, n - 1)
               \/ \E line \in B!CutLines(all[n]) : file' = Append(SubSeq(all, 1, n - 1), line)
            /\ torn' = Len(all) - n + 1
      BY <2>8 DEF B!CrashInStore
    <3>3. all \in Seq(WholeLines(time)) /\ Len(all) \in Nat
      BY <2>0, LinesFacts
    <3>4. \A k \in 1..Len(all) : all[k] \in WholeLines(time) /\ B!CutLines(all[k]) \subseteq F
      BY <3>3 DEF FileLines
    <3>5. \A k \in 1..Len(all) : all[k] \in F
      BY <3>4 DEF FileLines
    <3> HIDE DEF all, F
    <3> DEFINE front == SubSeq(all, 1, n - 1)
    <3>6. /\ front \in Seq(F) /\ Len(front) = n - 1
          /\ \A k \in 1..(n - 1) : front[k] = all[k]
      BY <3>3, <3>5
    <3> HIDE DEF front
    <3>7. /\ file' \in Seq(F) /\ n - 1 <= Len(file') /\ \A k \in 1..(n - 1) : file'[k] = all[k]
      <4>1. CASE file' = front
        BY <3>3, <3>6, <4>1
      <4>2. ASSUME NEW line \in B!CutLines(all[n]), file' = Append(front, line)
            PROVE  /\ file' \in Seq(F) /\ n - 1 <= Len(file')
                   /\ \A k \in 1..(n - 1) : file'[k] = all[k]
        <5>1. line \in F
          BY <3>4, <4>2
        <5> QED
          BY <3>3, <3>6, <4>2, <5>1
      <4> QED
        BY <3>2, <4>1, <4>2 DEF front
    <3>8. Wrote'
      <4>1. torn' \in 0..Len(all) /\ Len(all) - torn' = n - 1 /\ torn' # 0
        BY <3>2, <3>3
      <4>2. B!Lines(promised') = all
        BY <3>1 DEF all
      <4> QED
        BY <3>7, <4>1, <4>2 DEF Wrote
    <3>9. Sorted(<<>>) /\ <<>> \in Seq(Messages(time'))
      BY DEF Sorted
    <3> QED
      BY <2>0, <2>2, <3>1, <3>7, <3>8, <3>9 DEF F
  <2>9. ASSUME B!LoadCache PROVE BackupInv'
    <3>1. /\ gateway' = IF \E i \in DOMAIN file : B!Broken(i) THEN "stuck" ELSE "loaded"
          /\ cache' = B!Loading[Len(file)].cache /\ time' = time
          /\ file' = file /\ promised' = promised /\ torn' = torn
      BY <2>9 DEF B!LoadCache
    <3>2. cache' \in Seq(Messages(time')) /\ Sorted(cache')
      <4>1. Len(file) \in 0..Len(file)
        BY <2>0
      <4>2. B!Loading[Len(file)] \in States(time)
        BY <2>0, <4>1, LoadingFacts
      <4> QED
        BY <3>1, <4>2 DEF States
    <3>3. CASE \E i \in DOMAIN file : B!Broken(i)
      <4>1. gateway' = "stuck"
        BY <3>1, <3>3
      <4>2. torn # 0
        <5> SUFFICES ASSUME torn = 0 PROVE FALSE
          OBVIOUS
        <5>1. file = B!Lines(promised)
          BY <2>0 DEF Wrote
        <5>2. file \in Seq(WholeLines(time))
          BY <2>0, <5>1, LinesFacts
        <5>3. PICK i \in DOMAIN file : file[i].kind = "broken"
          BY <3>3 DEF B!Broken
        <5>4. file[i] \in WholeLines(time)
          BY <5>2
        <5> QED
          BY <5>3, <5>4 DEF WholeLines, B!Header, B!ValueLine
      <4>3. torn > 0
        <5>1. Len(B!Lines(promised)) \in Nat
          BY <2>0, LinesFacts
        <5> QED
          BY <2>0, <4>2, <5>1 DEF Wrote
      <4>4. B!BackupIsFaithful'
        BY <3>1, <4>1, <4>3 DEF B!BackupIsFaithful, B!StoredIsRestored, B!NothingInvented, B!StuckIsTorn
      <4> QED
        BY <2>0, <2>1, <3>1, <3>2, <4>1, <4>4
    <3>4. CASE \A i \in DOMAIN file : ~B!Broken(i)
      <4>1. gateway' = "loaded"
        BY <3>1, <3>4
      <4>2. /\ \A i \in DOMAIN promised :
                 B!Written(i) /\ B!Counted(promised[i]) /\ B!NotEaten(i) =>
                   B!Restored(promised[i]) \in ToSet(cache')
            /\ \/ torn > 0
               \/ \E i \in DOMAIN promised : ~B!Counted(promised[i])
               \/ /\ Len(cache') = Len(promised)
                  /\ ToSet(cache') = {B!Restored(promised[i]) : i \in DOMAIN promised}
        BY <2>0, <3>1, <3>4, Restores
      <4>3. B!StoredIsRestored'
        BY <3>1, <4>2 DEF B!StoredIsRestored, B!Written, B!LinesUpTo, B!NotEaten, B!ToSet, ToSet
      <4>4. B!NothingInvented'
        BY <3>1, <4>2 DEF B!NothingInvented, B!ToSet, ToSet
      <4>5. B!StuckIsTorn'
        BY <4>1 DEF B!StuckIsTorn
      <4> QED
        BY <2>0, <2>1, <3>1, <3>2, <4>1, <4>3, <4>4, <4>5 DEF B!BackupIsFaithful
    <3> QED
      BY <3>3, <3>4
  <2>10. ASSUME B!Loaded PROVE BackupInv'
    <3>1. /\ gateway' = "running" /\ time' = time /\ cache' = cache
          /\ file' = file /\ promised' = promised /\ torn' = torn
      BY <2>10 DEF B!Loaded
    <3> QED
      BY <2>0, <2>1, <2>2, <3>1
  <2>11. ASSUME UNCHANGED backupOf PROVE BackupInv'
    <3>1. /\ gateway' = gateway /\ time' = time /\ cache' = cache
          /\ file' = file /\ promised' = promised /\ torn' = torn
      BY <2>11 DEF backupOf
    <3>2. B!BackupIsFaithful'
      BY <3>1 DEF B!BackupIsFaithful, B!StoredIsRestored, B!NothingInvented, B!StuckIsTorn,
        B!Written, B!LinesUpTo, B!NotEaten, B!ToSet
    <3> QED
      BY <2>0, <2>1, <3>1, <3>2
  <2> QED
    BY <2>3, <2>4, <2>5, <2>6, <2>7, <2>8, <2>9, <2>10, <2>11
    DEF RecordsNext, OfDistributor, OfBackup, B!FileNext
<1>3. BackupInv => BackupIsFaithful
  BY DEF BackupInv, BackupIsFaithful
<1> QED
  BY <1>1, <1>2, <1>3, PTL DEF RecordsSpec

-----------------------------------------------------------------------------
(* The Distributor. *)

USE TimesAssumption, BoundAssumption, ThreadsAssumption

ArgsAreEntries == \A t \in Threads : Busy(t) => arg[t] \in Entries

\* An entry has a second message of its time in the history.
Hidden(e) == \E m \in ToSet(history[e[2]]) : m # e[1]

\* Of two calls with the same entry, past the search, the later one was noted.
RacesAreNoted ==
  \A t, u \in Threads :
    t # u /\ {pc[t], pc[u]} \subseteq {"push", "record", "inserting"} /\ arg[t] = arg[u] =>
      arg[t] \in raced

\* What is about to be queued again has a cause.
PushHasCause ==
  \A t \in Threads :
    pc[t] = "push" /\ arg[t] \in Queued => arg[t] \in raced \cup missed \/ Hidden(arg[t])

Inv ==
  TypeOK /\ ArgsAreEntries /\ QueuedIsRecorded /\ RacesAreNoted /\ PushHasCause /\ RepeatHasCause

\* An entry that is queued is recorded, could not be, or, by QueuedIsRecorded, its call is
\* raced (FindEnd); from then on PushHasCause keeps the cause until RepeatHasCause needs it
\* (Push)
\* (Distributor.cpp:94-117, 119-137).
THEOREM Recorded == RecordsSpec => [](QueuedIsRecorded /\ RepeatHasCause)
<1>1. Init => Inv
  <2> SUFFICES ASSUME Init PROVE Inv
    OBVIOUS
  <2>1. Queued = {} /\ sent \o pending = <<>>
    BY DEF Init, Queued, ToSet
  <2>2. TypeOK
    <3>1. <<>> \in Seq(Entries) /\ <<>> \in Seq(Msgs)
      OBVIOUS
    <3>2. pc \in [Threads -> Pcs] /\ arg \in [Threads -> Entries \cup {<<>>}]
      BY DEF Init, Pcs
    <3>3. history \in [Times -> Seq(Msgs)]
      BY <3>1 DEF Init
    <3>4. retries \in 0..MaxRetries
      BY DEF Init
    <3> QED
      BY <3>1, <3>2, <3>3, <3>4 DEF Init, TypeOK
  <2>3. ArgsAreEntries /\ QueuedIsRecorded /\ RacesAreNoted /\ PushHasCause
    BY <2>1 DEF Init, ArgsAreEntries, Busy, QueuedIsRecorded, RacesAreNoted, PushHasCause
  <2>4. RepeatHasCause
    BY <2>1 DEF RepeatHasCause
  <2> QED
    BY <2>2, <2>3, <2>4 DEF Inv
<1>2. Inv /\ [Next]_vars => Inv'
  <2> SUFFICES ASSUME Inv, [Next]_vars PROVE Inv'
    OBVIOUS
  <2> USE DEF Inv
  <2>r. ASSUME UNCHANGED <<sent, pending, history>>, raced \subseteq raced', missed \subseteq missed'
        PROVE  RepeatHasCause'
    <3> DEFINE all     == sent \o pending
               allThen == sent' \o pending'
    <3>1. allThen = all /\ history' = history
      BY <2>r
    <3>2. \A i, j \in DOMAIN all :
            i < j /\ all[i] = all[j] =>
              all[i] \in raced \cup missed \/ \E m \in ToSet(history[all[i][2]]) : m # all[i][1]
      BY DEF RepeatHasCause
    <3> HIDE DEF all, allThen
    <3>3. \A i, j \in DOMAIN allThen :
            i < j /\ allThen[i] = allThen[j] =>
              allThen[i] \in raced' \cup missed' \/ \E m \in ToSet(history'[allThen[i][2]]) : m # allThen[i][1]
      BY <2>r, <3>1, <3>2
    <3> QED
      BY <3>3 DEF RepeatHasCause, allThen
  <2>0. /\ sent \o pending \in Seq(Entries)
        /\ \A m \in Msgs : <<m, FirstTime[m]>> \in Entries /\ <<m, LaterTime[m]>> \in Entries
        /\ Agg \in Threads /\ Agg \notin Msgs /\ Msgs \subseteq Threads
    BY DEF TypeOK, Entries, Threads, Agg
  <2>a. ASSUME UNCHANGED <<pending, history, sent, missed, raced>>,
               NEW t \in Threads, NEW l \in Pcs \ {"push", "record", "inserting"},
               pc[t] \notin {"record", "inserting"}, Goto(t, l),
               \A u \in Threads \ {t} : arg'[u] = arg[u]
        PROVE  QueuedIsRecorded' /\ RacesAreNoted' /\ PushHasCause' /\ RepeatHasCause'
    <3>1. Queued' = Queued /\ (sent \o pending)' = sent \o pending
      BY <2>a DEF Queued
    <3>2. \A u \in Threads : pc'[u] \in {"push", "record", "inserting"} =>
            u # t /\ pc'[u] = pc[u] /\ arg'[u] = arg[u]
      BY <2>a DEF Goto, TypeOK
    <3>3. \A u \in Threads : pc[u] \in {"record", "inserting"} =>
            u # t /\ pc'[u] = pc[u] /\ arg'[u] = arg[u]
      BY <2>a DEF Goto, TypeOK
    <3>4. QueuedIsRecorded'
      BY <2>a, <3>1, <3>3 DEF QueuedIsRecorded
    <3>5. RacesAreNoted'
      BY <2>a, <3>2 DEF RacesAreNoted
    <3>6. PushHasCause'
      BY <2>a, <3>1, <3>2 DEF PushHasCause, Hidden
    <3> QED
      BY ZenonT(40), <2>a, <3>1, <3>4, <3>5, <3>6 DEF RepeatHasCause
  <2>1. ASSUME NEW m \in Msgs, Call(m) PROVE Inv'
    <3>1. TypeOK' /\ ArgsAreEntries'
      BY <2>1, <2>0 DEF Call, Goto, TypeOK, Pcs, ArgsAreEntries, Busy
    <3>2. m \in Threads /\ pc[m] = "new" /\ Goto(m, "find")
          /\ \A u \in Threads \ {m} : arg'[u] = arg[u]
      BY <2>1, <2>0 DEF Call, TypeOK
    <3> QED
      BY <2>a, <2>1, <3>1, <3>2 DEF Call, Pcs
  <2>2. ASSUME NEW m \in Msgs, CallAgain(m) PROVE Inv'
    <3>1. TypeOK' /\ ArgsAreEntries'
      <4>1. retries' \in 0..MaxRetries
        BY <2>2 DEF CallAgain, TypeOK
      <4>2. pc' = [pc EXCEPT ![Agg] = "find"] /\ arg' = [arg EXCEPT ![Agg] = <<m, LaterTime[m]>>]
        BY <2>2 DEF CallAgain, Goto
      <4>3. UNCHANGED <<pending, history, sending, sent, refused, missed, raced>>
        BY <2>2 DEF CallAgain
      <4>4. TypeOK'
        BY <2>0, <4>1, <4>2, <4>3 DEF TypeOK, Pcs
      <4>5. ArgsAreEntries'
        BY <2>0, <4>2 DEF TypeOK, ArgsAreEntries, Busy
      <4> QED
        BY <4>4, <4>5
    <3>2. pc[Agg] \in {"new", "done"} /\ Goto(Agg, "find")
          /\ \A u \in Threads \ {Agg} : arg'[u] = arg[u]
      BY <2>2, <2>0 DEF CallAgain, TypeOK, Busy
    <3> QED
      BY <2>a, <2>0, <2>2, <3>1, <3>2 DEF CallAgain, Pcs
  <2>3. ASSUME NEW t \in Threads, FindBegin(t) PROVE Inv'
    <3>1. TypeOK' /\ ArgsAreEntries'
      BY <2>3 DEF FindBegin, Goto, TypeOK, Pcs, ArgsAreEntries, Busy
    <3> QED
      BY <2>a, <2>3, <3>1 DEF FindBegin, Pcs
  <2>4. ASSUME NEW t \in Threads, FindEnd(t) PROVE Inv'
    <3>1. TypeOK' /\ ArgsAreEntries'
      BY <2>4 DEF FindEnd, Goto, TypeOK, Pcs, ArgsAreEntries, Busy
    <3>2. CASE Goto(t, "done") /\ UNCHANGED raced
      BY <2>a, <2>4, <3>1, <3>2 DEF FindEnd, Pcs
    <3>3. CASE /\ Exists(arg[t]) => Inserting(t)
               /\ Goto(t, "push")
               /\ raced' = IF Racing(t) \/ Inserting(t) THEN raced \cup {arg[t]} ELSE raced
      <4>1. /\ pc' = [pc EXCEPT ![t] = "push"] /\ pc[t] = "reading" /\ raced \subseteq raced'
            /\ UNCHANGED <<arg, pending, history, sent, missed>> /\ Queued' = Queued
        BY <2>4, <3>3 DEF FindEnd, Goto, Queued
      <4>2. QueuedIsRecorded'
        BY <4>1 DEF QueuedIsRecorded, TypeOK
      <4>3. RacesAreNoted'
        <5>1. \A u \in Threads \ {t} :
                pc[u] \in {"push", "record", "inserting"} /\ arg[u] = arg[t] => arg[t] \in raced'
          BY <3>3 DEF Racing
        <5> QED
          BY <4>1, <5>1 DEF RacesAreNoted, TypeOK
      <4>4. arg[t] \in Queued => arg[t] \in raced' \cup missed \/ Hidden(arg[t])
        <5> SUFFICES ASSUME arg[t] \in Queued, ~Racing(t), ~Inserting(t), arg[t] \notin missed
                     PROVE  Hidden(arg[t])
          BY <3>3
        <5>1. arg[t][1] \in ToSet(history[arg[t][2]])
          BY <4>1 DEF QueuedIsRecorded, Racing
        <5>2. ~Exists(arg[t])
          BY <3>3
        <5> DEFINE same == history[arg[t][2]]
        <5>3. arg[t] \in Entries
          BY <4>1 DEF ArgsAreEntries, Busy
        <5>4. same \in Seq(Msgs)
          BY <5>3 DEF TypeOK, Entries
        <5>5. same # <<>> /\ Head(same) \in ToSet(same) /\ Head(same) # arg[t][1]
          BY <5>1, <5>2, <5>4 DEF Exists, ToSet
        <5> QED
          BY <5>5 DEF Hidden
      <4>5. PushHasCause'
        BY <4>1, <4>4 DEF PushHasCause, Hidden, TypeOK
      <4>6. RepeatHasCause'
        BY <4>1, <2>r
      <4> QED
        BY <3>1, <4>2, <4>3, <4>5, <4>6
    <3> QED
      BY <2>4, <3>2, <3>3 DEF FindEnd
  <2>5. ASSUME NEW t \in Threads, Push(t) PROVE Inv'
    <3>1. /\ pc[t] = "push" /\ pc' = [pc EXCEPT ![t] = "record"] /\ arg[t] \in Entries
          /\ pending' = Append(pending, arg[t])
          /\ UNCHANGED <<arg, retries, history, sending, sent, refused, missed, raced>>
      BY <2>5 DEF Push, Goto, ArgsAreEntries, Busy
    <3>2. TypeOK' /\ ArgsAreEntries'
      BY <2>5, <3>1 DEF TypeOK, Pcs, ArgsAreEntries, Busy, Push
    <3>3. (sent \o pending)' = Append(sent \o pending, arg[t])
      BY <3>1 DEF TypeOK
    <3>4. Queued' = Queued \cup {arg[t]}
      <4> DEFINE all == sent \o pending
      <4>1. all \in Seq(Entries) /\ Queued = ToSet(all) /\ Queued' = ToSet(Append(all, arg[t]))
        BY <2>0, <3>3 DEF Queued
      <4> DEFINE longer == Append(all, arg[t])
      <4> HIDE DEF all
      <4>2. /\ Len(all) \in Nat /\ DOMAIN all = 1..Len(all) /\ DOMAIN longer = 1..(Len(all) + 1)
            /\ longer[Len(all) + 1] = arg[t] /\ \A i \in 1..Len(all) : longer[i] = all[i]
        BY <4>1, <3>1
      <4> HIDE DEF longer
      <4>3. Queued = {all[i] : i \in DOMAIN all} /\ Queued' = {longer[i] : i \in DOMAIN longer}
        BY <4>1 DEF ToSet, longer
      <4>4. ASSUME NEW i \in DOMAIN longer PROVE longer[i] \in Queued \cup {arg[t]}
        BY <4>2, <4>3
      <4>5. ASSUME NEW i \in DOMAIN all PROVE all[i] \in Queued'
        <5>1. i \in DOMAIN longer /\ longer[i] = all[i]
          BY <4>2
        <5> QED
          BY <4>3, <5>1
      <4>6. arg[t] \in Queued'
        <5>1. Len(all) + 1 \in DOMAIN longer
          BY <4>2
        <5> QED
          BY <4>2, <4>3, <5>1
      <4> QED
        BY <4>3, <4>4, <4>5, <4>6
    <3>5. QueuedIsRecorded'
      BY <3>1, <3>4 DEF QueuedIsRecorded, TypeOK
    <3>6. RacesAreNoted'
      BY <3>1 DEF RacesAreNoted, TypeOK
    <3>7. PushHasCause'
      <4> SUFFICES ASSUME NEW u \in Threads, pc'[u] = "push", arg[u] \in Queued'
                   PROVE  arg[u] \in raced \cup missed \/ Hidden(arg[u])
        BY <3>1 DEF PushHasCause, Hidden
      <4>1. u # t /\ pc[u] = "push"
        BY <3>1 DEF TypeOK
      <4>2. CASE arg[u] \in Queued
        BY <4>1, <4>2 DEF PushHasCause
      <4>3. CASE arg[u] = arg[t]
        BY <3>1, <4>1, <4>3 DEF RacesAreNoted
      <4> QED
        BY <3>4, <4>2, <4>3
    <3>8. RepeatHasCause'
      <4> DEFINE all == sent \o pending
      <4>1. all \in Seq(Entries) /\ (sent \o pending)' = Append(all, arg[t])
        BY <2>0, <3>3
      <4>2. \A i, j \in DOMAIN all : i < j /\ all[i] = all[j] => all[i] \in raced \cup missed \/ Hidden(all[i])
        BY DEF RepeatHasCause, Hidden
      <4>3. \A i \in DOMAIN all : all[i] \in Queued
        BY DEF Queued, ToSet
      <4>4. arg[t] \in Queued => arg[t] \in raced \cup missed \/ Hidden(arg[t])
        BY <3>1 DEF PushHasCause
      <4>5. \A i, j \in DOMAIN Append(all, arg[t]) :
              i < j /\ Append(all, arg[t])[i] = Append(all, arg[t])[j] =>
                Append(all, arg[t])[i] \in raced \cup missed \/ Hidden(Append(all, arg[t])[i])
        <5> HIDE DEF all
        <5> QED
          BY <4>1, <4>2, <4>3, <4>4
      <4> DEFINE allThen == sent' \o pending'
      <4>6. raced' = raced /\ missed' = missed /\ history' = history /\ allThen = Append(all, arg[t])
        BY <3>1, <4>1
      <4> HIDE DEF all, allThen
      <4>7. \A i, j \in DOMAIN allThen :
              i < j /\ allThen[i] = allThen[j] =>
                allThen[i] \in raced' \cup missed' \/ \E m \in ToSet(history'[allThen[i][2]]) : m # allThen[i][1]
        BY <4>5, <4>6 DEF Hidden
      <4> QED
        BY <4>7 DEF RepeatHasCause, allThen
    <3> QED
      BY <3>2, <3>5, <3>6, <3>7, <3>8
  <2>6. ASSUME NEW t \in Threads, PushRefused(t) \/ RecordBegin(t) PROVE Inv'
    <3>1. PICK l \in {"record", "inserting"} :
            /\ pc[t] \in {"push", "record"} /\ pc' = [pc EXCEPT ![t] = l]
            /\ UNCHANGED <<arg, retries, pending, history, sending, sent, missed, raced>>
      BY <2>6 DEF PushRefused, RecordBegin, Goto
    <3>2. TypeOK' /\ ArgsAreEntries'
      <4>1. arg[t] \in Entries /\ refused \subseteq Entries
        BY <3>1 DEF TypeOK, ArgsAreEntries, Busy
      <4>2. refused' \subseteq refused \cup {arg[t]}
        BY <2>6 DEF PushRefused, RecordBegin
      <4> QED
        BY <3>1, <4>1, <4>2 DEF TypeOK, Pcs, ArgsAreEntries, Busy
    <3>3. Queued' = Queued
      BY <3>1 DEF Queued
    <3>4. QueuedIsRecorded' /\ RacesAreNoted' /\ PushHasCause'
      BY <3>1, <3>3 DEF QueuedIsRecorded, RacesAreNoted, PushHasCause, Hidden, TypeOK
    <3> QED
      BY <3>1, <3>2, <3>4, <2>r
  <2>11. ASSUME NEW t \in Threads, RecordRefused(t) PROVE Inv'
    <3>1. /\ pc[t] = "record" /\ pc' = [pc EXCEPT ![t] = "done"] /\ arg[t] \in Entries
          /\ missed' = missed \cup {arg[t]}
          /\ UNCHANGED <<arg, retries, pending, history, sending, sent, refused, raced>>
      BY <2>11 DEF RecordRefused, Goto, ArgsAreEntries, Busy
    <3>2. TypeOK' /\ ArgsAreEntries'
      BY <3>1 DEF TypeOK, Pcs, ArgsAreEntries, Busy
    <3>3. Queued' = Queued
      BY <3>1 DEF Queued
    <3>4. QueuedIsRecorded'
      <4> SUFFICES ASSUME NEW e \in Queued, e \notin missed'
                   PROVE  \/ e[1] \in ToSet(history[e[2]])
                          \/ \E u \in Threads : arg[u] = e /\ pc'[u] \in {"record", "inserting"}
        BY <3>1, <3>3 DEF QueuedIsRecorded
      <4>1. e # arg[t] /\ e \notin missed
        BY <3>1
      <4> QED
        BY <3>1, <4>1 DEF QueuedIsRecorded, TypeOK
    <3>5. RacesAreNoted' /\ PushHasCause'
      BY <3>1, <3>3 DEF RacesAreNoted, PushHasCause, Hidden, TypeOK
    <3> QED
      BY <3>1, <3>2, <3>4, <3>5, <2>r
  <2>7. ASSUME NEW t \in Threads, RecordEnd(t) PROVE Inv'
    <3> DEFINE e == arg[t]
    <3>1. /\ pc[t] = "inserting" /\ pc' = [pc EXCEPT ![t] = "done"] /\ e \in Entries
          /\ history' = [history EXCEPT ![e[2]] = Append(@, e[1])]
          /\ UNCHANGED <<arg, retries, pending, sending, sent, refused, missed, raced>>
      BY <2>7 DEF RecordEnd, Goto, ArgsAreEntries, Busy
    <3> HIDE DEF e
    <3>2. e[1] \in Msgs /\ e[2] \in Times
      BY <3>1 DEF Entries
    <3>3. TypeOK' /\ ArgsAreEntries'
      <4>1. history' \in [Times -> Seq(Msgs)]
        BY <3>1, <3>2 DEF TypeOK
      <4> QED
        BY <3>1, <4>1 DEF TypeOK, Pcs, ArgsAreEntries, Busy
    <3>4. \A x \in Times : ToSet(history[x]) \subseteq ToSet(history'[x])
      <4>1. \A s \in Seq(Msgs) : ToSet(s) \subseteq ToSet(Append(s, e[1]))
        BY <3>2 DEF ToSet
      <4> QED
        BY <3>1, <4>1 DEF TypeOK
    <3>5. e[1] \in ToSet(history'[e[2]])
      <4>1. ASSUME NEW s \in Seq(Msgs)
            PROVE  e[1] \in ToSet(Append(s, e[1]))
        <5>1. Len(s) + 1 \in DOMAIN Append(s, e[1]) /\ Append(s, e[1])[Len(s) + 1] = e[1]
          BY <3>2
        <5> QED
          BY <5>1 DEF ToSet
      <4> QED
        BY <3>1, <3>2, <4>1 DEF TypeOK
    <3>6. Queued' = Queued /\ Queued \subseteq Entries /\ (sent \o pending)' = sent \o pending
      BY <2>0, <3>1 DEF Queued, ToSet
    <3>7. \A d \in Entries : d[2] \in Times
      BY DEF Entries
    <3>8. QueuedIsRecorded'
      <4> SUFFICES ASSUME NEW d \in Queued, d \notin missed,
                          \A u \in Threads : ~(arg[u] = d /\ pc'[u] \in {"record", "inserting"})
                   PROVE  d[1] \in ToSet(history'[d[2]])
        BY <3>1, <3>6 DEF QueuedIsRecorded
      <4>1. CASE d = e
        BY <3>5, <4>1
      <4>2. CASE d # e
        <5>1. \A u \in Threads : ~(arg[u] = d /\ pc[u] \in {"record", "inserting"})
          BY <3>1, <4>2 DEF TypeOK, e
        <5> QED
          BY <3>4, <3>6, <3>7, <5>1 DEF QueuedIsRecorded
      <4> QED
        BY <4>1, <4>2
    <3>9. RacesAreNoted'
      BY <3>1 DEF RacesAreNoted, TypeOK
    <3>11. PushHasCause'
      <4>1. ASSUME NEW u \in Threads, pc'[u] = "push", arg[u] \in Queued
            PROVE  arg[u] \in raced \cup missed \/ \E m \in ToSet(history'[arg[u][2]]) : m # arg[u][1]
        <5>1. pc[u] = "push"
          BY <3>1, <4>1 DEF TypeOK
        <5> QED
          BY <3>4, <3>6, <3>7, <4>1, <5>1 DEF PushHasCause, Hidden
      <4> QED
        BY <3>1, <3>6, <4>1 DEF PushHasCause, Hidden
    <3>12. RepeatHasCause'
      <4> DEFINE all == sent \o pending
      <4>1. \A i \in DOMAIN all : all[i] \in Entries
        BY <3>6 DEF Queued, ToSet
      <4>2. \A i \in DOMAIN all : ToSet(history[all[i][2]]) \subseteq ToSet(history'[all[i][2]])
        BY <3>4, <3>7, <4>1
      <4>3. (sent \o pending)' = all /\ raced' = raced /\ missed' = missed
        BY <3>1, <3>6
      <4> HIDE DEF all
      <4>4. \A i, j \in DOMAIN all :
              i < j /\ all[i] = all[j] =>
                all[i] \in raced \cup missed \/ \E m \in ToSet(history[all[i][2]]) : m # all[i][1]
        BY DEF RepeatHasCause, all
      <4>5. \A i, j \in DOMAIN all :
              i < j /\ all[i] = all[j] =>
                all[i] \in raced \cup missed \/ \E m \in ToSet(history'[all[i][2]]) : m # all[i][1]
        BY <4>2, <4>4
      <4> QED
        BY <4>3, <4>5 DEF RepeatHasCause
    <3> QED
      BY <3>3, <3>8, <3>9, <3>11, <3>12
  <2>8. CASE SendBegin
    <3>1. /\ UNCHANGED <<pc, arg, retries, pending, history, sent, refused, missed, raced>>
          /\ sending' = TRUE /\ pending # <<>>
      BY <2>8 DEF SendBegin
    <3>2. RepeatHasCause' /\ Queued' = Queued
      BY <2>r, <3>1 DEF Queued
    <3>3. TypeOK' /\ ArgsAreEntries'
      <4>1. TypeOK'
        BY <3>1 DEF TypeOK
      <4>2. ArgsAreEntries'
        BY <3>1 DEF ArgsAreEntries, Busy
      <4> QED
        BY <4>1, <4>2
    <3>4. QueuedIsRecorded' /\ RacesAreNoted' /\ PushHasCause'
      BY <3>1, <3>2 DEF QueuedIsRecorded, RacesAreNoted, PushHasCause, Hidden
    <3> QED
      BY <3>2, <3>3, <3>4
  <2>9. CASE SendEnd
    <3>1. /\ pending # <<>> /\ pending \in Seq(Entries) /\ sent \in Seq(Entries)
          /\ sent' = Append(sent, Head(pending)) /\ pending' = Tail(pending)
          /\ UNCHANGED <<pc, arg, retries, history, refused, missed, raced>>
      BY <2>9 DEF SendEnd, TypeOK
    <3>2. sent' \o pending' = sent \o pending
      BY <3>1
    <3>3. TypeOK' /\ ArgsAreEntries'
      <4>1. sending' = FALSE /\ Head(pending) \in Entries
        BY <2>9, <3>1 DEF SendEnd
      <4>2. sent' \in Seq(Entries) /\ pending' \in Seq(Entries)
        BY <3>1, <4>1
      <4>3. TypeOK'
        BY <3>1, <4>1, <4>2 DEF TypeOK
      <4>4. ArgsAreEntries'
        BY <3>1 DEF ArgsAreEntries, Busy
      <4> QED
        BY <4>3, <4>4
    <3> QED
      <4>1. Queued' = Queued
        BY <3>2 DEF Queued
      <4>2. QueuedIsRecorded' /\ RacesAreNoted' /\ PushHasCause'
        BY <3>1, <4>1 DEF QueuedIsRecorded, RacesAreNoted, PushHasCause, Hidden
      <4>3. RepeatHasCause'
        <5> DEFINE all     == sent \o pending
                   allThen == sent' \o pending'
        <5>1. allThen = all /\ raced' = raced /\ missed' = missed /\ history' = history
          BY <3>1, <3>2
        <5>2. \A i, j \in DOMAIN all :
                i < j /\ all[i] = all[j] =>
                  all[i] \in raced \cup missed \/ \E m \in ToSet(history[all[i][2]]) : m # all[i][1]
          BY DEF RepeatHasCause
        <5> HIDE DEF all, allThen
        <5>3. \A i, j \in DOMAIN allThen :
                i < j /\ allThen[i] = allThen[j] =>
                  allThen[i] \in raced' \cup missed' \/ \E m \in ToSet(history'[allThen[i][2]]) : m # allThen[i][1]
          BY <5>1, <5>2
        <5> QED
          BY <5>3 DEF RepeatHasCause, allThen
      <4> QED
        BY <3>3, <4>2, <4>3
  <2>10. CASE UNCHANGED vars
    <3>1. UNCHANGED <<pc, arg, retries, pending, history, sending, sent, refused, missed, raced>>
      BY <2>10 DEF vars
    <3>2. RepeatHasCause' /\ Queued' = Queued
      BY <2>r, <3>1 DEF Queued
    <3>3. TypeOK' /\ ArgsAreEntries'
      <4>1. TypeOK'
        BY <3>1 DEF TypeOK
      <4>2. ArgsAreEntries'
        BY <3>1 DEF ArgsAreEntries, Busy
      <4> QED
        BY <4>1, <4>2
    <3>4. QueuedIsRecorded' /\ RacesAreNoted' /\ PushHasCause'
      BY <3>1, <3>2 DEF QueuedIsRecorded, RacesAreNoted, PushHasCause, Hidden
    <3> QED
      BY <3>2, <3>3, <3>4
  <2> QED
    BY <2>1, <2>2, <2>3, <2>4, <2>5, <2>6, <2>7, <2>8, <2>9, <2>10, <2>11 DEF Next, AddNewMessage
<1>3. Inv => QueuedIsRecorded /\ RepeatHasCause
  BY DEF Inv
<1>4. RecordsInit => Init
  BY DEF RecordsInit
<1>5. [RecordsNext]_<<exercised, vars, backupOf>> => [Next]_vars
  BY DEF RecordsNext, OfDistributor, OfBackup
<1> QED
  BY <1>1, <1>2, <1>3, <1>4, <1>5, PTL DEF RecordsSpec
==============================================================================
