---------------------------- MODULE RecursionFacts ----------------------------
(***************************************************************************)
(* Facts about natural numbers and what is defined by recursion over them. *)
(* The library states induction for an operator; here it is the least      *)
(* element of a set of counterexamples, and a recursive definition is a    *)
(* function on sets, which every prover can be given.                      *)
(***************************************************************************)
EXTENDS SequencesExt, SequenceTheorems, WellFoundedInduction, TLAPS

\* A set of natural numbers that is not empty has a least element.
LEMMA LeastNumber ==
  ASSUME NEW S, S \subseteq Nat, S # {}
  PROVE  \E i \in S : \A j \in S : i <= j
<1>1. PICK i \in S : \A j \in S : ~(<<j, i>> \in OpToRel(<, Nat))
  BY NatLessThanWellFounded, WFMin
<1>2. \A j \in S : i \in Nat /\ j \in Nat
  OBVIOUS
<1>3. \A j \in S : ~(j < i)
  BY <1>1, <1>2 DEF OpToRel
<1> QED
  BY <1>2, <1>3

\* What holds for 0 and goes on from each number to the next holds for all up to n.
LEMMA Counting ==
  ASSUME NEW n \in Nat, NEW S, 0 \in S, \A i \in 1..n : i - 1 \in S => i \in S
  PROVE  0..n \subseteq S
<1> DEFINE Off == {i \in 0..n : i \notin S}
<1> SUFFICES ASSUME Off # {} PROVE FALSE
  OBVIOUS
<1>1. PICK i \in Off : \A j \in Off : i <= j
  <2>1. Off \subseteq Nat
    OBVIOUS
  <2> HIDE DEF Off
  <2> QED
    BY <2>1, LeastNumber
<1>2. i \in 1..n /\ i - 1 \in 0..n /\ ~(i <= i - 1)
  BY <1>1
<1> QED
  BY <1>1, <1>2

\* The function f begins with a and goes on by the steps h.
Recurs(f, a, h) == f[0] = a /\ \A n \in Nat : f[n + 1] = h[n][f[n]]

\* A beginning and steps make a function on the natural numbers.
LEMMA Recursion ==
  ASSUME NEW S, NEW a \in S, NEW h \in [Nat -> [S -> S]]
  PROVE  \E f \in [Nat -> S] : Recurs(f, a, h)
<1> DEFINE Part(n, f) == f \in [0..n -> S] /\ f[0] = a /\ \A i \in 0..(n - 1) : f[i + 1] = h[i][f[i]]
           Bad == {n \in Nat : ~\E f \in [0..n -> S] : Part(n, f)}
<1>1. Bad = {}
  <2> SUFFICES ASSUME Bad # {} PROVE FALSE
    OBVIOUS
  <2>1. PICK n \in Bad : \A m \in Bad : n <= m
    <3> HIDE DEF Part
    <3>1. Bad \subseteq Nat
      OBVIOUS
    <3> HIDE DEF Bad
    <3> QED
      BY <3>1, LeastNumber
  <2>2. n # 0
    <3> SUFFICES ASSUME n = 0 PROVE FALSE
      OBVIOUS
    <3>1. [i \in 0..0 |-> a] \in [0..n -> S]
      OBVIOUS
    <3>2. Part(n, [i \in 0..0 |-> a])
      OBVIOUS
    <3> HIDE DEF Part
    <3> QED
      BY <3>1, <3>2, <2>1
  <2>3. n - 1 \in Nat /\ n - 1 \notin Bad
    <3> HIDE DEF Part
    <3>1. n \in Nat
      OBVIOUS
    <3>2. n - 1 \in Nat /\ ~(n <= n - 1)
      BY <3>1, <2>2
    <3> HIDE DEF Bad
    <3> QED
      BY <3>2, <2>1
  <2>4. PICK f \in [0..(n - 1) -> S] : Part(n - 1, f)
    <3> HIDE DEF Part
    <3> QED
      BY <2>3
  <2> DEFINE g == [i \in 0..n |-> IF i = n THEN h[n - 1][f[n - 1]] ELSE f[i]]
  <2>5. f[n - 1] \in S
    BY <2>3, <2>4
  <2>6. g \in [0..n -> S]
    BY <2>3, <2>4, <2>5
  <2>7. g[0] = a
    BY <2>2, <2>3, <2>4
  <2>8. ASSUME NEW i \in 0..(n - 1) PROVE g[i + 1] = h[i][g[i]]
    <3>1. i \in 0..n /\ i + 1 \in 0..n /\ i # n /\ n \in Nat
      BY <2>3
    <3>2. g[i] = f[i]
      BY <3>1
    <3>3. CASE i = n - 1
      BY <3>1, <3>2, <3>3
    <3>4. CASE i # n - 1
      <4>1. i \in 0..((n - 1) - 1) /\ i + 1 # n
        BY <3>1, <3>4
      <4> QED
        BY <3>1, <3>2, <4>1, <2>4
    <3> QED
      BY <3>3, <3>4
  <2>9. Part(n, g)
    <3> HIDE DEF g
    <3> QED
      BY <2>6, <2>7, <2>8
  <2> HIDE DEF g, Part
  <2> QED
    BY <2>1, <2>6, <2>9
<1>2. \A n \in Nat : \E f \in [0..n -> S] : Part(n, f)
  <2> HIDE DEF Part
  <2> QED
    BY <1>1
<1> DEFINE F(n) == CHOOSE f \in [0..n -> S] : Part(n, f)
           r == [n \in Nat |-> F(n)[n]]
<1>3. \A n \in Nat : F(n) \in [0..n -> S] /\ Part(n, F(n))
  <2> HIDE DEF Part
  <2> QED
    BY <1>2
<1>4. ASSUME NEW n \in Nat PROVE F(n + 1)[n] = F(n)[n]
  <2> DEFINE Off == {i \in 0..n : F(n + 1)[i] # F(n)[i]}
  <2>1. Off = {}
    <3> SUFFICES ASSUME Off # {} PROVE FALSE
      OBVIOUS
    <3>1. PICK i \in Off : \A j \in Off : i <= j
      <4> HIDE DEF F
      <4>1. Off \subseteq Nat
        OBVIOUS
      <4> HIDE DEF Off
      <4> QED
        BY <4>1, LeastNumber
    <3>2. Part(n, F(n)) /\ Part(n + 1, F(n + 1))
      <4> HIDE DEF Part, F
      <4> QED
        BY <1>3
    <3> HIDE DEF F
    <3>3. i # 0
      BY <3>1, <3>2
    <3>4. i - 1 \in 0..n /\ i - 1 \in 0..(n - 1) /\ i - 1 \in 0..((n + 1) - 1) /\ (i - 1) + 1 = i
      BY <3>1, <3>3
    <3>5. F(n + 1)[i - 1] = F(n)[i - 1]
      BY <3>1, <3>4
    <3> QED
      BY <3>1, <3>2, <3>4, <3>5
  <2> HIDE DEF F
  <2> QED
    BY <2>1
<1>5. r \in [Nat -> S]
  <2> HIDE DEF F
  <2> QED
    BY <1>3
<1>6. r[0] = a
  <2> HIDE DEF F
  <2> QED
    BY <1>3
<1>7. ASSUME NEW n \in Nat PROVE r[n + 1] = h[n][r[n]]
  <2> HIDE DEF F
  <2>1. F(n + 1)[n + 1] = h[n][F(n + 1)[n]]
    <3>1. n \in 0..((n + 1) - 1) /\ n + 1 \in Nat
      OBVIOUS
    <3> QED
      BY <1>3, <3>1
  <2>2. F(n + 1)[n] = F(n)[n]
    BY <1>4
  <2>3. r[n + 1] = F(n + 1)[n + 1] /\ r[n] = F(n)[n]
    OBVIOUS
  <2> HIDE DEF r
  <2> QED
    BY <2>1, <2>2, <2>3
<1> HIDE DEF r
<1> QED
  BY <1>5, <1>6, <1>7 DEF Recurs

\* Lists one behind the other: the k-th ends at upTo[k], and has its elements there.
Ends(s, upTo) ==
  /\ upTo[0] = 0 /\ upTo[Len(s)] = Len(FlattenSeq(s))
  /\ \A k \in 0..Len(s) : Len(FlattenSeq(SubSeq(s, 1, k))) = upTo[k]
  /\ \A k \in 1..Len(s) :
       /\ upTo[k] = upTo[k - 1] + Len(s[k]) /\ \A n \in k..Len(s) : upTo[k] <= upTo[n]
       /\ \A j \in 1..Len(s[k]) : FlattenSeq(s)[upTo[k - 1] + j] = s[k][j]

LEMMA FlattenFacts ==
  ASSUME NEW T, NEW s \in Seq(Seq(T))
  PROVE  FlattenSeq(s) \in Seq(T) /\ \E upTo \in [0..Len(s) -> Nat] : Ends(s, upTo)
<1>c. ASSUME NEW p \in Seq(T), NEW q \in Seq(T)
      PROVE  /\ Len(p) \in Nat /\ Len(q) \in Nat /\ p \o q \in Seq(T)
             /\ Len(p \o q) = Len(p) + Len(q) /\ <<>> \o q = q
             /\ \A j \in 1..Len(p) : (p \o q)[j] = p[j]
             /\ \A j \in 1..Len(q) : (p \o q)[Len(p) + j] = q[j]
  OBVIOUS
<1> DEFINE len == Len(s)
           h == [n \in Nat |-> [p \in Seq(T) |-> IF n + 1 <= len THEN p \o s[n + 1] ELSE p]]
<1>0. len \in Nat /\ \A k \in 1..len : s[k] \in Seq(T) /\ Len(s[k]) \in Nat
  OBVIOUS
<1> HIDE DEF len
<1>1. PICK f \in [Nat -> Seq(T)] : f[0] = <<>> /\ \A n \in Nat : f[n + 1] = h[n][f[n]]
  <2>1. h \in [Nat -> [Seq(T) -> Seq(T)]]
    <3> SUFFICES ASSUME NEW n \in Nat, NEW p \in Seq(T), n + 1 <= len PROVE p \o s[n + 1] \in Seq(T)
      OBVIOUS
    <3>1. n + 1 \in 1..len
      BY <1>0
    <3> QED
      BY <1>c, <1>0, <3>1
  <2>2. <<>> \in Seq(T)
    OBVIOUS
  <2> HIDE DEF h
  <2>3. \E f \in [Nat -> Seq(T)] : Recurs(f, <<>>, h)
    BY <2>1, <2>2, Recursion
  <2> QED
    BY <2>3 DEF Recurs
<1>2. ASSUME NEW k \in 1..len
      PROVE  /\ k - 1 \in Nat /\ f[k - 1] \in Seq(T) /\ f[k] \in Seq(T)
             /\ f[k] = f[k - 1] \o s[k] /\ Len(f[k]) = Len(f[k - 1]) + Len(s[k])
             /\ Len(f[k - 1]) \in Nat /\ Len(s[k]) \in Nat
             /\ \A j \in 1..Len(f[k - 1]) : f[k][j] = f[k - 1][j]
             /\ \A j \in 1..Len(s[k]) : f[k][Len(f[k - 1]) + j] = s[k][j]
  <2>1. k - 1 \in Nat /\ (k - 1) + 1 = k /\ k \in Nat /\ k <= len
    BY <1>0
  <2>2. f[k - 1] \in Seq(T) /\ f[k] \in Seq(T)
    BY <2>1
  <2>3. f[k] = h[k - 1][f[k - 1]]
    BY <1>1, <2>1
  <2>4. f[k] = f[k - 1] \o s[k]
    BY <2>1, <2>2, <2>3
  <2>5. s[k] \in Seq(T)
    BY <1>0
  <2> DEFINE p == f[k - 1]
             q == s[k]
  <2>6. /\ Len(p) \in Nat /\ Len(q) \in Nat /\ Len(p \o q) = Len(p) + Len(q)
        /\ \A j \in 1..Len(p) : (p \o q)[j] = p[j]
        /\ \A j \in 1..Len(q) : (p \o q)[Len(p) + j] = q[j]
    <3> HIDE DEF h, p, q
    <3>1. p \in Seq(T) /\ q \in Seq(T)
      BY <2>2, <2>5 DEF p, q
    <3> QED
      BY <3>1, <1>c
  <2> HIDE DEF h
  <2> QED
    BY <2>1, <2>2, <2>4, <2>6
<1> HIDE DEF h
<1>3. ASSUME NEW t \in Seq(Seq(T)), Len(t) <= len, \A i \in 1..Len(t) : t[i] = s[i]
      PROVE  FlattenSeq(t) = f[Len(t)]
  <2>0. Len(t) \in Nat
    OBVIOUS
  <2>1. CASE Len(t) = 0
    BY <2>1, <1>1 DEF FlattenSeq
  <2>2. CASE Len(t) # 0
    <3> DEFINE n == Len(t)
               Whole(g) == g = [i \in 1..n |-> IF i = 1 THEN t[i] ELSE g[i - 1] \o t[i]]
               flat == CHOOSE g : Whole(g)
    <3>1. FlattenSeq(t) = flat[n]
      BY <2>2 DEF FlattenSeq
    <3>2. f[0] = <<>> /\ n \in Nat /\ n <= len /\ \A i \in 1..n : i \in 1..len
      BY <1>0, <1>1, <1>3, <2>0
    <3> HIDE DEF n
    <3>3. Whole([i \in 1..n |-> f[i]])
      <4> DEFINE g == [i \in 1..n |-> f[i]]
      <4> SUFFICES ASSUME NEW i \in 1..n PROVE f[i] = IF i = 1 THEN t[i] ELSE g[i - 1] \o t[i]
        OBVIOUS
      <4>1. t[i] = s[i] /\ i \in 1..len /\ s[i] \in Seq(T)
        BY <1>0, <1>3, <3>2 DEF n
      <4>2. CASE i = 1
        <5>1. f[1] = f[0] \o s[1]
          <6>1. 1 \in 1..len /\ 1 - 1 = 0
            BY <4>1, <4>2
          <6> QED
            BY <6>1, <1>2
        <5> QED
          BY <5>1, <4>1, <4>2, <3>2
      <4>3. CASE i # 1
        <5>1. i - 1 \in 1..n
          BY <3>2, <4>3
        <5> QED
          BY <5>1, <4>1, <4>3, <1>2
      <4> QED
        BY <4>2, <4>3
    <3>4. Whole(flat)
      <4> HIDE DEF Whole
      <4> QED
        BY <3>3
    <3> HIDE DEF flat
    <3> DEFINE Off == {i \in 1..n : flat[i] # f[i]}
    <3>5. Off = {}
      <4> SUFFICES ASSUME Off # {} PROVE FALSE
        OBVIOUS
      <4>1. PICK i \in Off : \A j \in Off : i <= j
        <5>1. Off \subseteq Nat
          BY <3>2
        <5> HIDE DEF Off
        <5> QED
          BY <5>1, LeastNumber
      <4>2. i \in 1..n /\ t[i] = s[i] /\ s[i] \in Seq(T) /\ f[i] = f[i - 1] \o s[i]
        BY <1>0, <1>2, <1>3, <3>2 DEF n
      <4>3. flat[i] = IF i = 1 THEN t[i] ELSE flat[i - 1] \o t[i]
        <5>1. i \in 1..n
          OBVIOUS
        <5> HIDE DEF Off
        <5> QED
          BY <5>1, <3>4
      <4>4. CASE i = 1
        <5>1. i - 1 = 0 /\ flat[i] = s[i]
          BY <4>2, <4>3, <4>4
        <5>2. f[i] = <<>> \o s[i]
          BY <3>2, <4>2, <5>1
        <5>3. flat[i] = f[i]
          BY <5>1, <5>2, <4>2, <1>c
        <5> QED
          BY <5>3
      <4>5. CASE i # 1
        <5>1. i - 1 \in 1..n /\ ~(i <= i - 1)
          <6>1. i \in 1..n /\ n \in Nat
            BY <3>2
          <6> HIDE DEF Off
          <6> QED
            BY <6>1, <4>5
        <5>2. flat[i - 1] = f[i - 1]
          BY <4>1, <5>1
        <5> QED
          BY <4>2, <4>3, <4>5, <5>2
      <4> QED
        BY <4>4, <4>5
    <3>6. n \in 1..n
      BY <2>2, <2>0 DEF n
    <3> QED
      BY <3>1, <3>5, <3>6 DEF n
  <2> QED
    BY <2>1, <2>2
<1>4. ASSUME NEW k \in 0..len
      PROVE  /\ SubSeq(s, 1, k) \in Seq(Seq(T)) /\ Len(SubSeq(s, 1, k)) = k
             /\ \A i \in 1..k : SubSeq(s, 1, k)[i] = s[i]
             /\ FlattenSeq(SubSeq(s, 1, k)) = f[k] /\ f[k] \in Seq(T)
  <2>0. \A i \in 1..k : s[i] \in Seq(T)
    BY <1>0
  <2>1. SubSeq(s, 1, k) \in Seq(Seq(T)) /\ Len(SubSeq(s, 1, k)) = k
    BY <1>0, <2>0, SubSeqProperties
  <2>2. \A i \in 1..k : SubSeq(s, 1, k)[i] = s[i]
    BY <1>0, <2>0
  <2>3. k <= len /\ k \in Nat
    BY <1>0
  <2> QED
    BY <1>3, <2>1, <2>2, <2>3
<1>5. FlattenSeq(s) = f[len]
  BY <1>0, <1>3 DEF len
<1> DEFINE upTo == [k \in 0..len |-> Len(f[k])]
<1>6. upTo \in [0..len -> Nat] /\ upTo[0] = 0 /\ upTo[len] = Len(FlattenSeq(s))
  <2>1. \A k \in 0..len : Len(f[k]) \in Nat
    BY <1>4
  <2> QED
    BY <1>0, <1>1, <1>5, <2>1
<1>7. ASSUME NEW k \in 1..len
      PROVE  \A n \in k..len :
               upTo[k] <= upTo[n] /\ \A j \in 1..Len(f[k]) : f[n][j] = f[k][j]
  <2> DEFINE Off == {n \in k..len : ~(upTo[k] <= upTo[n] /\ \A j \in 1..Len(f[k]) : f[n][j] = f[k][j])}
  <2> SUFFICES ASSUME Off # {} PROVE FALSE
    OBVIOUS
  <2>1. PICK n \in Off : \A m \in Off : n <= m
    <3>1. Off \subseteq Nat
      BY <1>0
    <3> HIDE DEF Off
    <3> QED
      BY <3>1, LeastNumber
  <2>2. n \in k..len /\ n \in 1..len /\ Len(f[k]) \in Nat
    BY <1>0, <1>2
  <2>3. n # k
    BY <1>0, <1>2
  <2>4. n - 1 \in k..len /\ n - 1 \in 0..len /\ ~(n <= n - 1)
    BY <2>2, <2>3, <1>0
  <2>5. upTo[k] <= upTo[n - 1] /\ \A j \in 1..Len(f[k]) : f[n - 1][j] = f[k][j]
    BY <2>1, <2>4
  <2>6. /\ f[n - 1] \in Seq(T) /\ s[n] \in Seq(T) /\ f[n] = f[n - 1] \o s[n]
        /\ Len(f[n]) = Len(f[n - 1]) + Len(s[n])
    BY <1>0, <1>2, <2>2
  <2>7. Len(f[k]) <= Len(f[n - 1]) /\ upTo[k] = Len(f[k]) /\ upTo[n] = Len(f[n])
    BY <2>2, <2>4, <2>5, <1>0
  <2>8. \A j \in 1..Len(f[k]) : f[n][j] = f[n - 1][j]
    <3> SUFFICES ASSUME NEW j \in 1..Len(f[k]) PROVE f[n][j] = f[n - 1][j]
      OBVIOUS
    <3>1. j \in 1..Len(f[n - 1])
      <4>1. Len(f[n - 1]) \in Nat /\ Len(f[k]) \in Nat
        BY <1>2, <2>2
      <4> QED
        BY <2>7, <4>1
    <3> QED
      BY <3>1, <2>2, <1>2
  <2>9. upTo[k] <= upTo[n]
    <3>1. Len(f[n - 1]) \in Nat /\ Len(s[n]) \in Nat
      BY <1>2, <2>2
    <3> DEFINE a == Len(f[n - 1])
               b == Len(s[n])
    <3>2. a \in Nat /\ b \in Nat /\ upTo[n] = a + b /\ upTo[k] <= a
      BY <2>2, <2>5, <2>6, <2>7, <3>1
    <3> HIDE DEF a, b, upTo
    <3> QED
      BY <3>2, <2>7, <2>2
  <2>10. \A j \in 1..Len(f[k]) : f[n][j] = f[k][j]
    BY <2>5, <2>8
  <2> HIDE DEF upTo
  <2> QED
    BY <2>1, <2>9, <2>10
<1>8. ASSUME NEW k \in 1..len
      PROVE  /\ upTo[k] = upTo[k - 1] + Len(s[k]) /\ \A n \in k..len : upTo[k] <= upTo[n]
             /\ \A j \in 1..Len(s[k]) : FlattenSeq(s)[upTo[k - 1] + j] = s[k][j]
  <2>1. s[k] \in Seq(T) /\ k \in 0..len /\ k - 1 \in 0..len /\ len \in k..len
    BY <1>0
  <2>2. upTo[k] = Len(f[k]) /\ upTo[k - 1] = Len(f[k - 1])
    BY <2>1
  <2>3. upTo[k] = upTo[k - 1] + Len(s[k])
    BY <1>2, <2>2
  <2>4. /\ \A n \in k..len : upTo[k] <= upTo[n]
        /\ \A j \in 1..Len(f[k]) : f[len][j] = f[k][j]
    BY <1>7, <2>1
  <2>5. ASSUME NEW j \in 1..Len(s[k]) PROVE f[k][upTo[k - 1] + j] = s[k][j]
    <3> HIDE DEF upTo
    <3> QED
      BY <2>2, <1>2
  <2>6. ASSUME NEW j \in 1..Len(s[k]) PROVE upTo[k - 1] + j \in 1..Len(f[k])
    <3> HIDE DEF upTo
    <3>1. upTo[k - 1] \in Nat /\ Len(s[k]) \in Nat
      BY <1>2, <2>2
    <3>2. Len(f[k]) = upTo[k - 1] + Len(s[k])
      BY <1>2, <2>2
    <3> DEFINE a == upTo[k - 1]
               b == Len(s[k])
               c == Len(f[k])
    <3>3. a \in Nat /\ b \in Nat /\ c = a + b /\ j \in 1..b
      BY <3>1, <3>2
    <3> HIDE DEF a, b, c
    <3>4. a + j \in 1..c
      BY <3>3
    <3> QED
      BY <3>4 DEF a, c
  <2> HIDE DEF upTo
  <2> QED
    BY <2>1, <2>3, <2>4, <2>5, <2>6, <1>5
<1>9. \A k \in 0..len : Len(FlattenSeq(SubSeq(s, 1, k))) = upTo[k]
  BY <1>4
<1>10. FlattenSeq(s) \in Seq(T)
  BY <1>0, <1>4, <1>5
<1> HIDE DEF upTo
<1>11. Ends(s, upTo)
  BY <1>6, <1>8, <1>9 DEF len, Ends
<1> QED
  BY <1>6, <1>10, <1>11 DEF len
==============================================================================
