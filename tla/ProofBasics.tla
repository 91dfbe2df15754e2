----------------------------- MODULE ProofBasics -----------------------------
(***************************************************************************)
(* Facts that several proofs rest on.  Induction is done with NatMin: of   *)
(* the numbers a claim does not hold for, take the least.                  *)
(***************************************************************************)
EXTENDS Integers, SequencesExt, FiniteSetTheorems, SequenceTheorems, TLAPS

(* A set of naturals has a least element.  If it had none, the numbers     *)
(* below all of its elements would be finitely many, and as many as there  *)
(* are without 0.                                                          *)
LEMMA NatMin ==
  ASSUME NEW T, T \subseteq Nat, T # {}
  PROVE  \E x \in T : \A y \in T : x <= y
<1> SUFFICES ASSUME ~ \E x \in T : \A y \in T : x <= y
             PROVE  FALSE
  OBVIOUS
<1> DEFINE U == {n \in Nat : \A m \in T : n < m}
           next == [n \in U |-> n + 1]
<1>1. PICK k \in T : TRUE
  OBVIOUS
<1>2. IsFiniteSet(U) /\ Cardinality(U) \in Nat
  <2>1. U \subseteq 0..k
    BY <1>1
  <2>2. IsFiniteSet(0..k)
    BY <1>1, FS_Interval
  <2> HIDE DEF U
  <2>3. IsFiniteSet(U)
    BY <2>1, <2>2, FS_Subset
  <2> QED BY <2>3, FS_CardinalityType
<1>3. 0 \in U
  OBVIOUS
<1>4. \A n \in U : n + 1 \in U
  OBVIOUS
<1>5. next \in Bijection(U, U \ {0})
  <2>1. next \in [U -> U \ {0}]
    BY <1>4
  <2>2. \A a, b \in U : next[a] = next[b] => a = b
    OBVIOUS
  <2>3. \A c \in U \ {0} : \E a \in U : next[a] = c
    <3> SUFFICES ASSUME NEW c \in U \ {0} PROVE \E a \in U : next[a] = c
      OBVIOUS
    <3>1. c - 1 \in U /\ c - 1 + 1 = c
      OBVIOUS
    <3> QED BY <3>1
  <2> HIDE DEF U, next
  <2> QED BY <2>1, <2>2, <2>3 DEF Bijection, Injection, Surjection, IsInjective
<1>6. Cardinality(U) = Cardinality(U \ {0})
  <2> HIDE DEF U, next
  <2> QED BY <1>2, <1>5, FS_Bijection DEF ExistsBijection
<1>7. Cardinality(U \ {0}) = Cardinality(U) - 1
  <2> HIDE DEF U
  <2> QED BY <1>2, <1>3, FS_RemoveElement
<1> QED BY <1>2, <1>6, <1>7

(* A bounded set of naturals has a greatest element. *)
LEMMA NatMax ==
  ASSUME NEW T, T \subseteq Nat, T # {}, NEW b \in Nat, \A n \in T : n <= b
  PROVE  \E x \in T : \A y \in T : y <= x
<1> DEFINE U == {n \in Nat : \A m \in T : m <= n}
<1>1. U \subseteq Nat /\ b \in U
  OBVIOUS
<1>2. PICK x \in U : \A y \in U : x <= y
  <2> HIDE DEF U
  <2> QED BY <1>1, NatMin
<1>3. x \in T
  <2> SUFFICES ASSUME x \notin T PROVE FALSE
    OBVIOUS
  <2>1. \A m \in T : m <= x /\ m # x
    BY <1>2
  <2>2. x # 0
    <3>1. PICK m \in T : TRUE
      OBVIOUS
    <3> QED BY <2>1, <3>1
  <2>3. x - 1 \in U
    BY <2>1, <2>2, <1>2
  <2> QED BY <2>3, <1>2
<1> QED BY <1>2, <1>3

(* Inserting into a sequence. *)
LEMMA InsertedAt ==
  ASSUME NEW S, NEW s \in Seq(S), NEW i \in 1..(Len(s) + 1), NEW e \in S
  PROVE  /\ InsertAt(s, i, e) \in Seq(S)
         /\ Len(InsertAt(s, i, e)) = Len(s) + 1
         /\ \A j \in 1..(Len(s) + 1) :
              InsertAt(s, i, e)[j] = IF j < i THEN s[j] ELSE IF j = i THEN e ELSE s[j - 1]
<1> DEFINE front == SubSeq(s, 1, i - 1)
           back == SubSeq(s, i, Len(s))
<1>1. /\ front \in Seq(S) /\ Len(front) = i - 1
      /\ \A j \in 1..(i - 1) : front[j] = s[j]
  BY SubSeqProperties
<1>2. /\ back \in Seq(S) /\ Len(back) = Len(s) - i + 1
      /\ \A j \in 1..(Len(s) - i + 1) : back[j] = s[i + j - 1]
  BY SubSeqProperties
<1> HIDE DEF front, back
<1>3. /\ front \o <<e>> \in Seq(S) /\ Len(front \o <<e>>) = i
      /\ \A j \in 1..i : (front \o <<e>>)[j] = IF j < i THEN s[j] ELSE e
  <2>1. <<e>> \in Seq(S) /\ Len(<<e>>) = 1 /\ <<e>>[1] = e
    OBVIOUS
  <2> QED BY <1>1, <2>1, ConcatProperties
<1> DEFINE start == front \o <<e>>
           all == start \o back
<1> HIDE DEF start
<1>4. /\ all \in Seq(S) /\ Len(all) = Len(s) + 1
      /\ \A j \in 1..(Len(s) + 1) :
           all[j] = IF j <= i THEN start[j] ELSE back[j - i]
  <2>1. start \in Seq(S) /\ Len(start) = i
    BY <1>3 DEF start
  <2>2. Len(start) + Len(back) = Len(s) + 1
    BY <1>2, <2>1
  <2>3. \A j \in 1..(Len(start) + Len(back)) :
          all[j] = IF j <= Len(start) THEN start[j] ELSE back[j - Len(start)]
    BY <1>2, <2>1, ConcatProperties
  <2> QED BY <1>2, <2>1, <2>2, <2>3, ConcatProperties
<1>5. InsertAt(s, i, e) = all
  BY DEF InsertAt, front, back, start
<1> HIDE DEF all
<1> QED
  <2> SUFFICES ASSUME NEW j \in 1..(Len(s) + 1)
               PROVE  all[j] = IF j < i THEN s[j] ELSE IF j = i THEN e ELSE s[j - 1]
    BY <1>4, <1>5
  <2>1. CASE j <= i
    BY <1>3, <1>4, <2>1 DEF start
  <2>2. CASE j > i
    <3>1. j - i \in 1..(Len(s) - i + 1) /\ i + (j - i) - 1 = j - 1
      BY <2>2
    <3>2. all[j] = back[j - i]
      BY <1>4, <2>2
    <3>3. back[j - i] = s[i + (j - i) - 1]
      BY <1>2, <3>1
    <3> QED BY <2>2, <3>1, <3>2, <3>3
  <2> QED BY <2>1, <2>2
(* A function that is defined by recursion on the number before exists:    *)
(* here the sums of a sequence from its start.                             *)
IsRunningSum(f, d, n) == f = [c \in 0..n |-> IF c = 0 THEN 0 ELSE f[c - 1] + d[c]]

LEMMA RunningSums ==
  ASSUME NEW n \in Nat, NEW d, \A c \in 1..n : d[c] \in Nat
  PROVE  /\ \E f : IsRunningSum(f, d, n)
         /\ \A f : IsRunningSum(f, d, n) =>
              /\ f \in [0..n -> Nat] /\ f[0] = 0
              /\ \A c \in 1..n : f[c] = f[c - 1] + d[c]
              /\ \A c \in 0..n : f[c] <= f[n]
<1>1. \E f : IsRunningSum(f, d, n)
  <2> DEFINE T == {m \in Nat : ~ \E f : IsRunningSum(f, d, m)}
  <2> SUFFICES ASSUME T # {} PROVE FALSE
    OBVIOUS
  <2>1. PICK m \in T : \A i \in T : m <= i
    <3>1. T \subseteq Nat
      OBVIOUS
    <3> HIDE DEF T
    <3> QED BY <3>1, NatMin
  <2>2. CASE m = 0
    <3> DEFINE f == [i \in 0..0 |-> 0]
    <3>1. IsRunningSum(f, d, 0)
      BY DEF IsRunningSum
    <3> QED BY <2>1, <2>2, <3>1
  <2>3. CASE m # 0
    <3>1. m - 1 \in Nat /\ m - 1 \notin T
      BY <2>1, <2>3
    <3>2. PICK g : IsRunningSum(g, d, m - 1)
      BY <3>1
    <3> DEFINE f == [i \in 0..m |-> IF i = m THEN g[m - 1] + d[m] ELSE g[i]]
    <3>3. ASSUME NEW i \in 0..m
          PROVE  f[i] = IF i = 0 THEN 0 ELSE f[i - 1] + d[i]
      <4>1. CASE i = m
        BY <2>3, <3>1, <4>1
      <4>2. CASE i # m
        <5>1. i \in 0..(m - 1) /\ (i # 0 => i - 1 \in 0..(m - 1) /\ i - 1 # m)
          BY <3>1, <4>2
        <5>2. g[i] = IF i = 0 THEN 0 ELSE g[i - 1] + d[i]
          BY <3>2, <5>1 DEF IsRunningSum
        <5> QED BY <4>2, <5>1, <5>2
      <4> QED BY <4>1, <4>2
    <3>4. f = [i \in 0..m |-> f[i]]
      OBVIOUS
    <3>5. IsRunningSum(f, d, m)
      <4> HIDE DEF f
      <4> QED BY <3>3, <3>4 DEF IsRunningSum
    <3> QED BY <2>1, <3>5
  <2> QED BY <2>2, <2>3
<1>2. ASSUME NEW f, IsRunningSum(f, d, n)
      PROVE  /\ f \in [0..n -> Nat] /\ f[0] = 0
             /\ \A c \in 1..n : f[c] = f[c - 1] + d[c]
             /\ \A c \in 0..n : f[c] <= f[n]
  <2>1. f[0] = 0 /\ DOMAIN f = 0..n /\ f = [c \in 0..n |-> f[c]]
        /\ \A c \in 1..n : f[c] = f[c - 1] + d[c]
    <3>1. \A c \in 0..n : f[c] = IF c = 0 THEN 0 ELSE f[c - 1] + d[c]
      BY <1>2 DEF IsRunningSum
    <3>2. DOMAIN f = 0..n /\ f = [c \in 0..n |-> f[c]]
      BY <1>2, Zenon DEF IsRunningSum
    <3>3. f[0] = 0
      BY <3>1
    <3>4. ASSUME NEW c \in 1..n PROVE f[c] = f[c - 1] + d[c]
      BY <3>1
    <3> QED BY <3>2, <3>3, <3>4
  <2> DEFINE T == {c \in 0..n : f[c] \notin Nat}
             U == {c \in 0..n : ~(f[c] <= f[n])}
  <2>2. T = {}
    <3> SUFFICES ASSUME T # {} PROVE FALSE
      OBVIOUS
    <3>1. PICK m \in T : \A i \in T : m <= i
      <4>1. T \subseteq Nat
        OBVIOUS
      <4> HIDE DEF T
      <4> QED BY <4>1, NatMin
    <3>2. m # 0
      BY <2>1, <3>1
    <3>3. m \in 1..n /\ m - 1 \in 0..n /\ m - 1 \notin T
      BY <3>1, <3>2
    <3>4. f[m] = f[m - 1] + d[m] /\ d[m] \in Nat /\ f[m - 1] \in Nat
      BY <2>1, <3>3
    <3> QED BY <3>1, <3>4
  <2>3. f \in [0..n -> Nat]
    BY <2>1, <2>2
  <2>4. U = {}
    <3> SUFFICES ASSUME U # {} PROVE FALSE
      OBVIOUS
    <3>1. PICK m \in U : \A i \in U : i <= m
      <4>1. U \subseteq Nat /\ \A i \in U : i <= n
        OBVIOUS
      <4> HIDE DEF U
      <4> QED BY <4>1, NatMax
    <3>2. m # n /\ m + 1 \in 1..n /\ m + 1 - 1 = m
      BY <2>3, <3>1
    <3>3. m + 1 \notin U
      BY <3>1
    <3>4. f[m + 1] = f[m] + d[m + 1] /\ d[m + 1] \in Nat /\ f[m] \in Nat
      <4>3. PICK q \in 1..n : q = m + 1
        BY <3>2
      <4>4. f[q] = f[q - 1] + d[q]
        BY <2>1
      <4>1. f[m + 1] = f[m] + d[m + 1]
        BY <3>1, <4>3, <4>4
      <4>2. d[m + 1] \in Nat /\ f[m] \in Nat
        BY <2>3, <3>1, <3>2
      <4> QED BY <3>2, <4>1, <4>2
    <3>5. f[m + 1] <= f[n] /\ f[n] \in Nat
      BY <2>3, <3>2, <3>3
    <3> QED BY <3>1, <3>4, <3>5
  <2> QED BY <2>1, <2>3, <2>4
<1> QED BY <1>1, <1>2

(* FlattenSeq of triples: every third element is from the same place. *)
IsFlat(f, s, n) == f = [i \in 1..n |-> IF i = 1 THEN s[i] ELSE f[i - 1] \o s[i]]

LEMMA FlatExists ==
  ASSUME NEW s, NEW n \in Nat
  PROVE  \E f : IsFlat(f, s, n)
<1> DEFINE T == {m \in Nat : ~ \E f : IsFlat(f, s, m)}
<1> SUFFICES ASSUME T # {} PROVE FALSE
  OBVIOUS
<1>1. PICK m \in T : \A i \in T : m <= i
  <2>1. T \subseteq Nat
    OBVIOUS
  <2> HIDE DEF T
  <2> QED BY <2>1, NatMin
<1>2. CASE m = 0
  <2> DEFINE f == [i \in 1..0 |-> 0]
  <2>1. f = [i \in 1..0 |-> IF i = 1 THEN s[i] ELSE f[i - 1] \o s[i]]
    <3>1. 1..0 = {}
      OBVIOUS
    <3> QED BY <3>1
  <2> HIDE DEF f
  <2>2. IsFlat(f, s, 0)
    BY <2>1 DEF IsFlat
  <2> QED BY <1>1, <1>2, <2>2
<1>3. CASE m # 0
  <2>1. m - 1 \in Nat /\ m - 1 \notin T
    BY <1>1, <1>3
  <2>2. PICK g : IsFlat(g, s, m - 1)
    BY <2>1
  <2> DEFINE last == IF m = 1 THEN s[m] ELSE g[m - 1] \o s[m]
             f == [i \in 1..m |-> IF i = m THEN last ELSE g[i]]
  <2>3. ASSUME NEW i \in 1..m
        PROVE  f[i] = IF i = 1 THEN s[i] ELSE f[i - 1] \o s[i]
    <3>1. CASE i = m
      <4>1. f[i] = last /\ (i # 1 => i - 1 \in 1..m /\ i - 1 # m)
        BY <3>1
      <4>2. i # 1 => f[i - 1] = g[i - 1]
        BY <4>1
      <4> QED BY <3>1, <4>1, <4>2
    <3>2. CASE i # m
      <4>1. i \in 1..(m - 1) /\ (i # 1 => i - 1 \in 1..m /\ i - 1 # m)
        BY <2>1, <3>2
      <4>2. g[i] = IF i = 1 THEN s[i] ELSE g[i - 1] \o s[i]
        BY <2>2, <4>1 DEF IsFlat
      <4>3. f[i] = g[i] /\ (i # 1 => f[i - 1] = g[i - 1])
        BY <3>2, <4>1
      <4> QED BY <4>2, <4>3
    <3> QED BY <3>1, <3>2
  <2>4. f = [i \in 1..m |-> f[i]]
    OBVIOUS
  <2>5. IsFlat(f, s, m)
    <3> HIDE DEF f
    <3> QED BY <2>3, <2>4 DEF IsFlat
  <2> QED BY <1>1, <2>5
<1> QED BY <1>2, <1>3

LEMMA FlattenTriples ==
  ASSUME NEW S, NEW n \in Nat, NEW s \in Seq(Seq(S)), Len(s) = n,
         \A i \in 1..n : Len(s[i]) = 3
  PROVE  /\ FlattenSeq(s) \in Seq(S) /\ Len(FlattenSeq(s)) = 3 * n
         /\ \A i \in 1..n : /\ FlattenSeq(s)[3 * i - 2] = s[i][1]
                            /\ FlattenSeq(s)[3 * i - 1] = s[i][2]
                            /\ FlattenSeq(s)[3 * i] = s[i][3]
<1>1. CASE n = 0
  <2>1. FlattenSeq(s) = s /\ s = <<>>
    BY <1>1 DEF FlattenSeq
  <2>2. s \in Seq(S) /\ Len(s) = 3 * n
    BY <1>1, <2>1, EmptySeq
  <2> QED BY <1>1, <2>1, <2>2
<1>2. CASE n # 0
  <2> DEFINE f == CHOOSE f : IsFlat(f, s, n)
             P(i) == /\ f[i] \in Seq(S) /\ Len(f[i]) = 3 * i
                     /\ \A q \in 1..i : /\ f[i][3 * q - 2] = s[q][1]
                                        /\ f[i][3 * q - 1] = s[q][2]
                                        /\ f[i][3 * q] = s[q][3]
             T == {i \in 1..n : ~P(i)}
  <2>1. IsFlat(f, s, n)
    BY FlatExists
  <2>2. FlattenSeq(s) = f[n]
    BY <1>2 DEF FlattenSeq, IsFlat
  <2> HIDE DEF f
  <2>3. \A i \in 1..n : f[i] = IF i = 1 THEN s[i] ELSE f[i - 1] \o s[i]
    BY <2>1 DEF IsFlat
  <2>4. T = {}
    <3> SUFFICES ASSUME T # {} PROVE FALSE
      OBVIOUS
    <3>1. PICK i \in T : \A j \in T : i <= j
      <4>1. T \subseteq Nat
        OBVIOUS
      <4> HIDE DEF T
      <4> QED BY <4>1, NatMin
    <3>2. i \in 1..n /\ ~P(i)
      BY <3>1
    <3>3. s[i] \in Seq(S) /\ Len(s[i]) = 3
      BY <3>2
    <3>4. CASE i = 1
      <4>1. f[i] = s[1]
        BY <2>3, <3>2, <3>4
      <4>2. \A q \in 1..1 : q = 1
        OBVIOUS
      <4>3. P(1)
        BY <3>3, <3>4, <4>1, <4>2
      <4> QED BY <3>2, <3>4, <4>3
    <3>5. CASE i # 1
      <4>1. PICK h \in 1..n : h = i - 1 /\ i = h + 1
        BY <3>2, <3>5
      <4>2. P(h)
        <5>1. h \notin T
          <6> HIDE DEF T
          <6> QED BY <3>1, <4>1
        <5> HIDE DEF P
        <5> QED BY <4>1, <5>1
      <4>3. f[i] = f[h] \o s[i]
        BY <2>3, <3>2, <3>5, <4>1
      <4>4. f[h] \in Seq(S) /\ Len(f[h]) = 3 * h
        BY <4>2
      <4>5. /\ f[i] \in Seq(S) /\ Len(f[i]) = 3 * i
            /\ \A x \in 1..(3 * h) : f[i][x] = f[h][x]
            /\ \A x \in 1..3 : f[i][3 * h + x] = s[i][x]
        <5>1. PICK u \in Seq(S) : u = f[h] /\ Len(u) = 3 * h
          BY <4>4
        <5>2. PICK v \in Seq(S) : v = s[i] /\ Len(v) = 3
          BY <3>3
        <5>3. f[i] = u \o v
          BY <4>3, <5>1, <5>2
        <5>4. PICK k \in Nat : k = 3 * h
          BY <4>1
        <5>5. Len(u) = k /\ 3 * i = k + 3
          BY <4>1, <5>1, <5>4
        <5>6. /\ u \o v \in Seq(S) /\ Len(u \o v) = k + 3
              /\ \A x \in 1..k : (u \o v)[x] = u[x]
              /\ \A x \in 1..3 : (u \o v)[k + x] = v[x]
          <6>1. /\ u \o v \in Seq(S) /\ Len(u \o v) = Len(u) + Len(v)
                /\ \A x \in 1..(Len(u) + Len(v)) :
                     (u \o v)[x] = IF x <= Len(u) THEN u[x] ELSE v[x - Len(u)]
            BY ConcatProperties
          <6>2. \A x \in 1..k : (u \o v)[x] = u[x]
            BY <5>2, <5>5, <6>1
          <6>3. ASSUME NEW x \in 1..3 PROVE (u \o v)[k + x] = v[x]
            <7>1. PICK y \in 1..(k + 3) : y = k + x /\ y - k = x /\ ~(y <= k)
              BY <5>5
            <7> QED BY <5>2, <5>5, <6>1, <7>1
          <6> QED BY <5>2, <5>5, <6>1, <6>2, <6>3
        <5> QED BY <5>1, <5>2, <5>3, <5>4, <5>5, <5>6
      <4>6. ASSUME NEW q \in 1..i
            PROVE  /\ f[i][3 * q - 2] = s[q][1]
                   /\ f[i][3 * q - 1] = s[q][2]
                   /\ f[i][3 * q] = s[q][3]
        <5>1. CASE q = i
          <6>1. f[i][3 * h + 1] = s[i][1] /\ f[i][3 * h + 2] = s[i][2] /\ f[i][3 * h + 3] = s[i][3]
            BY <4>5
          <6>2. 3 * q - 2 = 3 * h + 1 /\ 3 * q - 1 = 3 * h + 2 /\ 3 * q = 3 * h + 3
            BY <4>1, <5>1
          <6> QED BY <5>1, <6>1, <6>2
        <5>2. CASE q # i
          <6>1. q \in 1..h /\ 3 * q - 2 \in 1..(3 * h) /\ 3 * q - 1 \in 1..(3 * h)
                /\ 3 * q \in 1..(3 * h)
            BY <4>1, <5>2
          <6>2. /\ f[h][3 * q - 2] = s[q][1]
                /\ f[h][3 * q - 1] = s[q][2]
                /\ f[h][3 * q] = s[q][3]
            BY <4>2, <6>1
          <6> QED BY <4>5, <6>1, <6>2
        <5> QED BY <5>1, <5>2
      <4>7. P(i)
        BY <4>5, <4>6
      <4> QED BY <3>2, <4>7
    <3> QED BY <3>4, <3>5
  <2>5. P(n)
    BY <1>2, <2>4
  <2> QED BY <2>2, <2>5
<1> QED BY <1>1, <1>2

LEMMA RunningSumsRise ==
  ASSUME NEW n \in Nat, NEW d, \A c \in 1..n : d[c] \in Nat, NEW f, IsRunningSum(f, d, n),
         NEW a \in 0..n, NEW b \in 0..n, a <= b
  PROVE  f[a] <= f[b]
<1>1. f \in [0..n -> Nat] /\ \A c \in 1..n : f[c] = f[c - 1] + d[c]
  BY RunningSums
<1> DEFINE T == {c \in 0..n : a <= c /\ ~(f[a] <= f[c])}
<1>2. T = {}
  <2> SUFFICES ASSUME T # {} PROVE FALSE
    OBVIOUS
  <2>1. PICK m \in T : \A i \in T : m <= i
    <3>1. T \subseteq Nat
      OBVIOUS
    <3> HIDE DEF T
    <3> QED BY <3>1, NatMin
  <2>2. m # a
    BY <1>1, <2>1
  <2>3. m \in 1..n /\ m - 1 \in 0..n /\ a <= m - 1 /\ m - 1 \notin T
    BY <2>1, <2>2
  <2>4. f[m] = f[m - 1] + d[m] /\ d[m] \in Nat /\ f[m - 1] \in Nat /\ f[a] <= f[m - 1] /\ f[a] \in Nat
    BY <1>1, <2>3
  <2> QED BY <2>1, <2>4
<1> QED BY <1>2

LEMMA RunningSumsSame ==
  ASSUME NEW n \in Nat, NEW d, \A c \in 1..n : d[c] \in Nat
  PROVE  \A f, g : IsRunningSum(f, d, n) /\ IsRunningSum(g, d, n) => \A c \in 0..n : f[c] = g[c]
<1> SUFFICES ASSUME NEW f, IsRunningSum(f, d, n), NEW g, IsRunningSum(g, d, n)
             PROVE  \A c \in 0..n : f[c] = g[c]
  OBVIOUS
<1>1. f[0] = 0 /\ \A c \in 1..n : f[c] = f[c - 1] + d[c]
  BY RunningSums
<1>2. g[0] = 0 /\ \A c \in 1..n : g[c] = g[c - 1] + d[c]
  BY RunningSums
<1> DEFINE T == {c \in 0..n : f[c] # g[c]}
<1> SUFFICES ASSUME T # {} PROVE FALSE
  OBVIOUS
<1>3. PICK m \in T : \A i \in T : m <= i
  <2>1. T \subseteq Nat
    OBVIOUS
  <2> HIDE DEF T
  <2> QED BY <2>1, NatMin
<1>4. m # 0
  BY <1>1, <1>2, <1>3
<1>5. m \in 1..n /\ m - 1 \in 0..n /\ m - 1 \notin T
  BY <1>3, <1>4
<1> QED BY <1>1, <1>2, <1>3, <1>5

(* Appending to a sequence of anything. *)
LEMMA Appended ==
  ASSUME NEW s, s \in Seq(Range(s)), NEW e
  PROVE  /\ Append(s, e) \in Seq(Range(Append(s, e))) /\ Len(s) \in Nat
         /\ Len(Append(s, e)) = Len(s) + 1 /\ Append(s, e)[Len(s) + 1] = e
         /\ \A x \in 1..Len(s) : Append(s, e)[x] = s[x]
<1> DEFINE R == Range(s) \cup {e}
           new == Append(s, e)
           m == Len(s) + 1
<1>1. s \in Seq(R)
  <2>1. s \in [1..Len(s) -> Range(s)] /\ Len(s) \in Nat
    OBVIOUS
  <2>2. s \in [1..Len(s) -> R]
    BY <2>1
  <2> QED BY <2>1, <2>2
<1>2. e \in R
  OBVIOUS
<1> HIDE DEF R
<1>3. /\ new \in Seq(R) /\ Len(s) \in Nat /\ Len(new) = m /\ new[m] = e
      /\ \A x \in 1..Len(s) : new[x] = s[x]
  BY <1>1, <1>2
<1> HIDE DEF new
<1>4. new \in Seq(Range(new))
  <2>1. Len(new) \in Nat /\ DOMAIN new = 1..Len(new) /\ new = [x \in 1..Len(new) |-> new[x]]
    <3>1. new \in [1..Len(new) -> R] /\ Len(new) \in Nat
      BY <1>3
    <3> QED BY <3>1
  <2>2. \A x \in 1..Len(new) : new[x] \in Range(new)
    BY <2>1 DEF Range
  <2>3. new \in [1..Len(new) -> Range(new)]
    BY <2>1, <2>2
  <2> QED BY <2>1, <2>3
<1> QED BY <1>3, <1>4 DEF new

(* The sequences that have one element or none, one behind the other.      *)
Selects(pos, t, P, e, n) ==
  /\ pos \in [1..Len(t) -> P \cap (1..n)]
  /\ \A q \in 1..Len(t) : t[q] = e[pos[q]]
  /\ \A q, r \in 1..Len(t) : q < r => pos[q] < pos[r]
  /\ \A i \in P \cap (1..n) : \E q \in 1..Len(t) : pos[q] = i

(* One more element, taken or not.                                         *)
LEMMA SelectsMore ==
  ASSUME NEW n \in Nat, NEW V, NEW e, e[n + 1] \in V, NEW P, NEW t \in Seq(V),
         NEW pos, Selects(pos, t, P, e, n)
  PROVE  /\ n + 1 \in P => \E more : Selects(more, Append(t, e[n + 1]), P, e, n + 1)
         /\ n + 1 \notin P => Selects(pos, t, P, e, n + 1)
<1>1. P \cap (1..(n + 1)) = IF n + 1 \in P THEN (P \cap (1..n)) \cup {n + 1} ELSE P \cap (1..n)
  OBVIOUS
<1>2. CASE n + 1 \notin P
  BY <1>1, <1>2 DEF Selects
<1>3. CASE n + 1 \in P
  <2> DEFINE len == Len(t)
             u == Append(t, e[n + 1])
             more == [q \in 1..(len + 1) |-> IF q = len + 1 THEN n + 1 ELSE pos[q]]
  <2>1. /\ len \in Nat /\ Len(u) = len + 1 /\ u[len + 1] = e[n + 1]
        /\ \A q \in 1..len : u[q] = t[q] /\ q # len + 1
    OBVIOUS
  <2>2. \A q \in 1..len : pos[q] \in P \cap (1..n) /\ more[q] = pos[q]
    BY <2>1 DEF Selects
  <2>3. \A q \in 1..(len + 1) : q \in 1..len \/ q = len + 1
    BY <2>1
  <2>4. more[len + 1] = n + 1
    BY <2>1
  <2>5. more \in [1..(len + 1) -> P \cap (1..(n + 1))]
    BY <1>1, <1>3, <2>2, <2>3, <2>4
  <2> HIDE DEF more, u
  <2>6. \A q \in 1..(len + 1) : u[q] = e[more[q]]
    BY <2>1, <2>2, <2>3, <2>4 DEF Selects
  <2>7. ASSUME NEW q \in 1..(len + 1), NEW r \in 1..(len + 1), q < r
        PROVE  more[q] < more[r]
    <3>1. q \in 1..len
      BY <2>1, <2>7
    <3>2. CASE r = len + 1
      <4>1. pos[q] \in 1..n
        BY <2>2, <3>1
      <4>2. more[q] = pos[q] /\ more[r] = n + 1
        BY <2>2, <2>4, <3>1, <3>2
      <4> QED BY <4>1, <4>2
    <3>3. CASE r # len + 1
      BY <2>2, <2>3, <2>7, <3>1, <3>3 DEF Selects
    <3> QED BY <3>2, <3>3
  <2>8. ASSUME NEW i \in P \cap (1..(n + 1)) PROVE \E q \in 1..(len + 1) : more[q] = i
    <3>1. CASE i = n + 1
      BY <2>1, <2>4, <3>1
    <3>2. CASE i # n + 1
      <4>1. PICK q \in 1..len : pos[q] = i
        BY <3>2 DEF Selects
      <4> QED BY <2>1, <2>2, <4>1
    <3> QED BY <3>1, <3>2
  <2>9. Selects(more, u, P, e, n + 1)
    BY <2>1, <2>5, <2>6, <2>7, <2>8 DEF Selects
  <2> QED BY <1>3, <2>9 DEF u
<1> QED BY <1>2, <1>3

(* Some of the elements of a sequence, in their order.                     *)
LEMMA FlattenSome ==
  ASSUME NEW n \in Nat, NEW P, NEW e, NEW s,
         s = [i \in 1..n |-> IF i \in P THEN <<e[i]>> ELSE <<>>]
  PROVE  /\ \E V : FlattenSeq(s) \in Seq(V)
         /\ \E pos : Selects(pos, FlattenSeq(s), P, e, n)
<1> DEFINE V == {e[i] : i \in 1..n}
           f == CHOOSE f : IsFlat(f, s, n)
           G(i) == IF i = 0 THEN <<>> ELSE f[i]
           Claim(i) == G(i) \in Seq(V) /\ \E pos : Selects(pos, G(i), P, e, i)
           T == {i \in 0..n : ~Claim(i)}
<1>1. IsFlat(f, s, n)
  BY FlatExists
<1>2. Len(s) = n /\ (n = 0 => s = <<>>)
  OBVIOUS
<1>3. FlattenSeq(s) = G(n)
  BY <1>2 DEF FlattenSeq, IsFlat
<1> HIDE DEF f
<1>4. ASSUME NEW i \in Nat, i + 1 <= n, G(i) \in Seq(V)
      PROVE  G(i + 1) = IF i + 1 \in P THEN Append(G(i), e[i + 1]) ELSE G(i)
  <2>1. i + 1 \in 1..n /\ i + 1 # 0 /\ (i + 1) - 1 = i
    BY <1>4
  <2>2. f[i + 1] = IF i + 1 = 1 THEN s[i + 1] ELSE f[i] \o s[i + 1]
    BY <1>1, <2>1 DEF IsFlat
  <2>3. G(i + 1) = G(i) \o s[i + 1]
    <3>1. CASE i = 0
      <4>1. s[1] \in Seq(V)
        <5>1. <<>> \in Seq(V) /\ <<e[1]>> \in Seq(V)
          BY <2>1, <3>1
        <5>2. s[1] = IF 1 \in P THEN <<e[1]>> ELSE <<>>
          BY <2>1, <3>1
        <5> HIDE DEF V
        <5> QED BY <5>1, <5>2
      <4>2. <<>> \o s[1] = s[1]
        BY <4>1
      <4> QED BY <2>2, <3>1, <4>2
    <3>2. CASE i # 0
      <4>1. G(i) = f[i] /\ G(i + 1) = f[i + 1] /\ i + 1 # 1
        BY <2>1, <3>2
      <4> HIDE DEF G
      <4> QED BY <2>2, <4>1
    <3> QED BY <3>1, <3>2
  <2>4. s[i + 1] = IF i + 1 \in P THEN <<e[i + 1]>> ELSE <<>>
    BY <2>1
  <2> HIDE DEF G
  <2>5. PICK g \in Seq(V) : g = G(i)
    BY <1>4
  <2>6. g \o <<>> = g /\ g \o <<e[i + 1]>> = Append(g, e[i + 1])
    <3>1. e[i + 1] \in V
      BY <2>1
    <3> HIDE DEF V
    <3> QED BY <3>1
  <2> QED BY <2>3, <2>4, <2>5, <2>6
<1>5. Claim(0)
  <2> DEFINE pos == [q \in 1..0 |-> 0]
  <2>1. 1..0 = {} /\ <<>> \in Seq(V) /\ Len(<<>>) = 0
    OBVIOUS
  <2>2. Selects(pos, <<>>, P, e, 0)
    BY <2>1 DEF Selects
  <2> QED BY <2>1, <2>2
<1>6. ASSUME NEW i \in Nat, i + 1 <= n, Claim(i) PROVE Claim(i + 1)
  <2>1. e[i + 1] \in V
    BY <1>6
  <2>2. G(i + 1) = IF i + 1 \in P THEN Append(G(i), e[i + 1]) ELSE G(i)
    BY <1>4, <1>6
  <2> HIDE DEF G
  <2>3. PICK g \in Seq(V) : g = G(i)
    BY <1>6
  <2>4. PICK pos : Selects(pos, g, P, e, i)
    BY <1>6, <2>3
  <2> HIDE DEF V
  <2>5. Append(g, e[i + 1]) \in Seq(V)
    BY <2>1
  <2>6. /\ i + 1 \in P => \E more : Selects(more, Append(g, e[i + 1]), P, e, i + 1)
        /\ i + 1 \notin P => Selects(pos, g, P, e, i + 1)
    BY <2>1, <2>4, SelectsMore
  <2> QED BY <2>2, <2>3, <2>5, <2>6
<1> HIDE DEF Claim
<1>7. T = {}
  <2> SUFFICES ASSUME T # {} PROVE FALSE
    OBVIOUS
  <2>1. PICK i \in T : \A j \in T : i <= j
    <3>1. T \subseteq Nat
      OBVIOUS
    <3> HIDE DEF T
    <3> QED BY <3>1, NatMin
  <2>2. i \in 0..n /\ ~Claim(i) /\ i # 0
    BY <1>5, <2>1
  <2>3. PICK h \in Nat : i = h + 1
    <3>1. i - 1 \in Nat /\ i = (i - 1) + 1
      BY <2>2
    <3> QED BY <3>1
  <2>4. h \in 0..n /\ h \notin T
    BY <2>1, <2>2, <2>3
  <2>5. Claim(h) /\ h + 1 <= n
    BY <2>2, <2>3, <2>4
  <2> QED BY <1>6, <2>2, <2>3, <2>5
<1>8. Claim(n)
  BY <1>7
<1> QED BY <1>3, <1>8 DEF Claim

(* All of them.                                                            *)
LEMMA FlattenAll ==
  ASSUME NEW n \in Nat, NEW V, NEW v \in Seq(V), Len(v) = n, NEW s,
         s = [i \in 1..n |-> <<v[i]>>]
  PROVE  FlattenSeq(s) = v
<1> DEFINE f == CHOOSE f : IsFlat(f, s, n)
           Claim(i) == f[i] = [q \in 1..i |-> v[q]]
           T == {i \in 1..n : ~Claim(i)}
<1>1. IsFlat(f, s, n)
  BY FlatExists
<1>2. Len(s) = n /\ (n = 0 => s = <<>>)
  OBVIOUS
<1>3. CASE n = 0
  <2>1. FlattenSeq(s) = <<>> /\ v = <<>>
    BY <1>2, <1>3 DEF FlattenSeq
  <2> QED BY <2>1
<1>4. CASE n # 0
  <2>1. FlattenSeq(s) = f[n]
    BY <1>2, <1>4 DEF FlattenSeq, IsFlat
  <2> HIDE DEF f
  <2>2. \A i \in 1..n : f[i] = IF i = 1 THEN s[i] ELSE f[i - 1] \o s[i]
    BY <1>1 DEF IsFlat
  <2>3. T = {}
    <3> SUFFICES ASSUME T # {} PROVE FALSE
      OBVIOUS
    <3>1. PICK i \in T : \A j \in T : i <= j
      <4>1. T \subseteq Nat
        OBVIOUS
      <4> HIDE DEF T
      <4> QED BY <4>1, NatMin
    <3>2. i \in 1..n /\ ~Claim(i)
      BY <3>1
    <3>3. CASE i = 1
      <4>1. f[i] = <<v[1]>> /\ \A q \in 1..1 : q = 1
        BY <2>2, <3>2, <3>3
      <4>2. <<v[1]>> = [q \in 1..1 |-> v[q]]
        BY <4>1
      <4> QED BY <3>2, <3>3, <4>1, <4>2
    <3>4. CASE i # 1
      <4>1. PICK h \in 1..n : h = i - 1 /\ i = h + 1
        BY <3>2, <3>4
      <4>2. h \notin T
        <5> HIDE DEF T
        <5> QED BY <3>1, <4>1
      <4>3. f[h] = [q \in 1..h |-> v[q]]
        BY <4>1, <4>2
      <4>4. f[i] = f[h] \o <<v[i]>>
        BY <2>2, <3>2, <3>4, <4>1
      <4> DEFINE g == [q \in 1..h |-> v[q]]
      <4>5. g \in Seq(V) /\ Len(g) = h /\ v[i] \in V
        BY <3>2, <4>1
      <4>6. g \o <<v[i]>> = Append(g, v[i])
        <5> HIDE DEF g
        <5> QED BY <4>5
      <4>7. Append(g, v[i]) = [q \in 1..i |-> v[q]]
        BY <4>1, <4>5
      <4> QED BY <3>2, <4>3, <4>4, <4>6, <4>7
    <3> QED BY <3>3, <3>4
  <2>4. Claim(n)
    <3>1. n \in 1..n
      BY <1>4
    <3> HIDE DEF Claim
    <3> QED BY <2>3, <3>1
  <2>5. v = [q \in 1..n |-> v[q]]
    OBVIOUS
  <2> QED BY <2>1, <2>4, <2>5
<1> QED BY <1>3, <1>4

(* Where each element of some sequences, one behind the other, comes from: *)
(* the sequence f[q] and the place p[q] in it.                             *)
Parts(f, p, t, s, n) ==
  /\ f \in [1..Len(t) -> 1..n] /\ p \in [1..Len(t) -> Nat]
  /\ \A q \in 1..Len(t) : p[q] \in 1..Len(s[f[q]]) /\ t[q] = s[f[q]][p[q]]
  /\ \A q, r \in 1..Len(t) : q < r => f[q] < f[r] \/ (f[q] = f[r] /\ p[q] < p[r])
  /\ \A i \in 1..n : \A k \in 1..Len(s[i]) : \E q \in 1..Len(t) : f[q] = i /\ p[q] = k

(* One more sequence.                                                      *)
LEMMA PartsMore ==
  ASSUME NEW n \in Nat, NEW V, NEW s, NEW t \in Seq(V), s[n + 1] \in Seq(V),
         NEW f, NEW p, Parts(f, p, t, s, n)
  PROVE  \E g, r : Parts(g, r, t \o s[n + 1], s, n + 1)
<1> DEFINE a == Len(t)
           b == Len(s[n + 1])
           u == t \o s[n + 1]
           g == [q \in 1..(a + b) |-> IF q <= a THEN f[q] ELSE n + 1]
           r == [q \in 1..(a + b) |-> IF q <= a THEN p[q] ELSE q - a]
<1>1. /\ a \in Nat /\ b \in Nat /\ Len(u) = a + b
      /\ \A q \in 1..(a + b) : u[q] = IF q <= a THEN t[q] ELSE s[n + 1][q - a]
  OBVIOUS
<1>2. \A q \in 1..a : f[q] \in 1..n /\ p[q] \in Nat
  BY DEF Parts
<1>3. \A q \in 1..(a + b) : q \in 1..a \/ (q > a /\ q - a \in 1..b)
  BY <1>1
<1>4. \A q \in 1..a : q \in 1..(a + b) /\ q <= a
  BY <1>1
<1>5. /\ \A q \in 1..a : g[q] = f[q] /\ r[q] = p[q]
      /\ \A q \in 1..(a + b) : q > a => g[q] = n + 1 /\ r[q] = q - a
  BY <1>1, <1>4
<1>6. g \in [1..(a + b) -> 1..(n + 1)] /\ r \in [1..(a + b) -> Nat]
  <2>1. \A q \in 1..(a + b) : g[q] \in 1..(n + 1) /\ r[q] \in Nat
    BY <1>2, <1>3, <1>5
  <2>2. DOMAIN g = 1..(a + b) /\ DOMAIN r = 1..(a + b)
    OBVIOUS
  <2> QED BY <2>1, <2>2
<1> HIDE DEF g, r, u
<1>7. ASSUME NEW q \in 1..(a + b)
      PROVE  r[q] \in 1..Len(s[g[q]]) /\ u[q] = s[g[q]][r[q]]
  <2>1. CASE q \in 1..a
    <3>1. p[q] \in 1..Len(s[f[q]]) /\ t[q] = s[f[q]][p[q]]
      BY <2>1 DEF Parts
    <3> QED BY <1>1, <1>4, <1>5, <2>1, <3>1
  <2>2. CASE q > a
    BY <1>1, <1>3, <1>5, <2>2
  <2> QED BY <1>1, <1>3, <2>1, <2>2
<1>8. ASSUME NEW q \in 1..(a + b), NEW v \in 1..(a + b), q < v
      PROVE  g[q] < g[v] \/ (g[q] = g[v] /\ r[q] < r[v])
  <2>1. CASE v \in 1..a
    <3>1. q \in 1..a
      BY <1>1, <1>8, <2>1
    <3>2. f[q] < f[v] \/ (f[q] = f[v] /\ p[q] < p[v])
      BY <1>8, <2>1, <3>1 DEF Parts
    <3> QED BY <1>5, <2>1, <3>1, <3>2
  <2>2. CASE v > a /\ q \in 1..a
    BY <1>2, <1>5, <2>2
  <2>3. CASE v > a /\ q > a
    BY <1>1, <1>5, <1>8, <2>3
  <2> QED BY <1>1, <1>3, <2>1, <2>2, <2>3
<1>9. ASSUME NEW i \in 1..(n + 1), NEW k \in 1..Len(s[i])
      PROVE  \E q \in 1..(a + b) : g[q] = i /\ r[q] = k
  <2>1. CASE i = n + 1
    <3>1. a + k \in 1..(a + b) /\ a + k > a /\ (a + k) - a = k
      BY <1>1, <2>1
    <3> QED BY <1>5, <2>1, <3>1
  <2>2. CASE i # n + 1
    <3>1. i \in 1..n
      BY <2>2
    <3>2. PICK q \in 1..a : f[q] = i /\ p[q] = k
      BY <3>1 DEF Parts
    <3> QED BY <1>4, <1>5, <3>2
  <2> QED BY <2>1, <2>2
<1>10. Parts(g, r, u, s, n + 1)
  BY <1>1, <1>6, <1>7, <1>8, <1>9 DEF Parts
<1> QED BY <1>10 DEF u

(* Sequences that are put one behind the other have all of their elements, *)
(* in their order.                                                         *)
LEMMA FlattenParts ==
  ASSUME NEW n \in Nat, NEW V, NEW s, s = [i \in 1..n |-> s[i]],
         \A i \in 1..n : s[i] \in Seq(V)
  PROVE  FlattenSeq(s) \in Seq(V) /\ \E f, p : Parts(f, p, FlattenSeq(s), s, n)
<1> DEFINE h == CHOOSE h : IsFlat(h, s, n)
           G(i) == IF i = 0 THEN <<>> ELSE h[i]
           Claim(i) == G(i) \in Seq(V) /\ \E f, p : Parts(f, p, G(i), s, i)
           T == {i \in 0..n : ~Claim(i)}
<1>1. IsFlat(h, s, n)
  BY FlatExists
<1>2. Len(s) = n /\ (n = 0 => s = <<>>)
  OBVIOUS
<1>3. FlattenSeq(s) = G(n)
  BY <1>2 DEF FlattenSeq, IsFlat
<1> HIDE DEF h
<1>4. ASSUME NEW i \in Nat, i + 1 <= n, G(i) \in Seq(V)
      PROVE  G(i + 1) = G(i) \o s[i + 1] /\ s[i + 1] \in Seq(V) /\ G(i + 1) \in Seq(V)
  <2>1. i + 1 \in 1..n /\ i + 1 # 0 /\ (i + 1) - 1 = i
    BY <1>4
  <2>2. h[i + 1] = IF i + 1 = 1 THEN s[i + 1] ELSE h[i] \o s[i + 1]
    BY <1>1, <2>1 DEF IsFlat
  <2>3. s[i + 1] \in Seq(V)
    BY <2>1
  <2>4. G(i + 1) = G(i) \o s[i + 1]
    <3>1. CASE i = 0
      <4>1. <<>> \o s[1] = s[1]
        BY <2>3, <3>1
      <4> QED BY <2>2, <3>1, <4>1
    <3>2. CASE i # 0
      <4>1. G(i) = h[i] /\ G(i + 1) = h[i + 1] /\ i + 1 # 1
        BY <2>1, <3>2
      <4> HIDE DEF G
      <4> QED BY <2>2, <4>1
    <3> QED BY <3>1, <3>2
  <2> HIDE DEF G
  <2>5. PICK t \in Seq(V) : t = G(i)
    BY <1>4
  <2>6. t \o s[i + 1] \in Seq(V)
    BY <2>3
  <2> QED BY <2>3, <2>4, <2>5, <2>6
<1>5. Claim(0)
  <2> DEFINE none == [q \in 1..0 |-> 0]
  <2>1. 1..0 = {} /\ <<>> \in Seq(V) /\ Len(<<>>) = 0
    OBVIOUS
  <2>2. Parts(none, none, <<>>, s, 0)
    BY <2>1 DEF Parts
  <2> QED BY <2>1, <2>2
<1>6. ASSUME NEW i \in Nat, i + 1 <= n, Claim(i) PROVE Claim(i + 1)
  <2>1. G(i + 1) = G(i) \o s[i + 1] /\ s[i + 1] \in Seq(V) /\ G(i + 1) \in Seq(V)
    BY <1>4, <1>6
  <2> HIDE DEF G
  <2>2. PICK t \in Seq(V) : t = G(i)
    BY <1>6
  <2>3. PICK f, p : Parts(f, p, t, s, i)
    BY <1>6, <2>2
  <2>4. \E g, r : Parts(g, r, t \o s[i + 1], s, i + 1)
    BY <2>1, <2>3, PartsMore
  <2> QED BY <2>1, <2>2, <2>4
<1> HIDE DEF Claim
<1>7. T = {}
  <2> SUFFICES ASSUME T # {} PROVE FALSE
    OBVIOUS
  <2>1. PICK i \in T : \A j \in T : i <= j
    <3>1. T \subseteq Nat
      OBVIOUS
    <3> HIDE DEF T
    <3> QED BY <3>1, NatMin
  <2>2. i \in 0..n /\ ~Claim(i) /\ i # 0
    BY <1>5, <2>1
  <2>3. PICK k \in Nat : i = k + 1
    <3>1. i - 1 \in Nat /\ i = (i - 1) + 1
      BY <2>2
    <3> QED BY <3>1
  <2>4. k \in 0..n /\ k \notin T
    BY <2>1, <2>2, <2>3
  <2>5. Claim(k) /\ k + 1 <= n
    BY <2>2, <2>3, <2>4
  <2> QED BY <1>6, <2>2, <2>3, <2>5
<1>8. Claim(n)
  BY <1>7
<1> QED BY <1>3, <1>8 DEF Claim

(* What is picked from one block of a sequence is that block.              *)
LEMMA SelectsBlock ==
  ASSUME NEW n \in Nat, NEW V, NEW t \in Seq(V), NEW e, NEW P,
         NEW l \in 0..n, NEW r \in l..n, \A i \in 1..n : i \in P <=> l < i /\ i <= r,
         NEW pos, Selects(pos, t, P, e, n)
  PROVE  Len(t) = r - l /\ \A q \in 1..Len(t) : t[q] = e[l + q]
<1> DEFINE len == Len(t)
           T == {q \in 1..len : pos[q] # l + q}
<1>1. len \in Nat /\ l \in Nat /\ r \in Nat /\ l <= r /\ r <= n
  OBVIOUS
<1>2. \A q \in 1..len : pos[q] \in 1..n /\ pos[q] \in P /\ l < pos[q] /\ pos[q] <= r
  BY DEF Selects
<1>3. \A q, p \in 1..len : q < p => pos[q] < pos[p]
  BY DEF Selects
<1>4. \A i \in 1..n : l < i /\ i <= r => \E q \in 1..len : pos[q] = i
  BY DEF Selects
<1>5. T = {}
  <2> SUFFICES ASSUME T # {} PROVE FALSE
    OBVIOUS
  <2>1. PICK q \in T : \A p \in T : q <= p
    <3>1. T \subseteq Nat
      BY <1>1
    <3> HIDE DEF T
    <3> QED BY <3>1, NatMin
  <2>2. q \in 1..len /\ pos[q] # l + q
    BY <2>1
  <2>3. l + q < pos[q]
    <3>1. CASE q = 1
      BY <1>1, <1>2, <2>2, <3>1
    <3>2. CASE q # 1
      <4>1. q - 1 \in 1..len /\ q - 1 \notin T
        BY <1>1, <2>1, <2>2, <3>2
      <4>2. pos[q - 1] = l + (q - 1) /\ pos[q - 1] < pos[q]
        BY <1>3, <2>2, <4>1
      <4>3. pos[q] \in Nat /\ q \in Nat
        BY <1>2, <2>2
      <4>4. l + (q - 1) < pos[q]
        BY <4>2
      <4> QED BY ONLY <1>1, <2>2, <4>3, <4>4
    <3> QED BY <3>1, <3>2
  <2>4. PICK p \in 1..len : pos[p] = l + q
    <3>1. l + q \in 1..n /\ l < l + q /\ l + q <= r
      BY <1>1, <1>2, <2>2, <2>3
    <3> QED BY <1>4, <3>1
  <2>5. p < q
    <3>1. q < p => pos[q] < pos[p]
      BY <1>3, <2>2
    <3> QED BY <1>1, <1>2, <2>2, <2>3, <2>4, <3>1
  <2>6. pos[p] = l + p
    BY <2>1, <2>5
  <2> QED BY <1>1, <2>2, <2>4, <2>5, <2>6
<1>6. \A q \in 1..len : pos[q] = l + q
  BY <1>5
<1>7. len = r - l
  <2>1. len <= r - l
    <3>1. CASE len = 0
      BY <1>1, <3>1
    <3>2. CASE len # 0
      <4>1. len \in 1..len
        BY <1>1, <3>2
      <4> QED BY <1>1, <1>2, <1>6, <4>1
    <3> QED BY <3>1, <3>2
  <2>2. r - l <= len
    <3> SUFFICES ASSUME len < r - l PROVE FALSE
      BY <1>1
    <3>1. l + len + 1 \in 1..n /\ l < l + len + 1 /\ l + len + 1 <= r
      BY <1>1
    <3>2. PICK q \in 1..len : pos[q] = l + len + 1
      BY <1>4, <3>1
    <3> QED BY <1>1, <1>6, <3>2
  <2> QED BY <1>1, <2>1, <2>2
<1>8. \A q \in 1..len : t[q] = e[l + q]
  BY <1>6 DEF Selects
<1> QED BY <1>7, <1>8
(* Sequences one behind the other: each is where the lengths of those      *)
(* before it add up to.                                                    *)
AreBlocks(s, V, n, end) ==
  /\ n \in Nat /\ s = [i \in 1..n |-> s[i]] /\ \A i \in 1..n : s[i] \in Seq(V)
  /\ end \in [0..n -> Nat] /\ end[0] = 0
  /\ \A i \in 1..n : end[i] = end[i - 1] + Len(s[i])

LEMMA FlattenBlocks ==
  ASSUME NEW s, NEW V, NEW n, NEW end, AreBlocks(s, V, n, end)
  PROVE  /\ FlattenSeq(s) \in Seq(V) /\ Len(FlattenSeq(s)) = end[n]
         /\ \A i \in 1..n : \A q \in 1..Len(s[i]) : FlattenSeq(s)[end[i - 1] + q] = s[i][q]
<1>9. /\ n \in Nat /\ s = [i \in 1..n |-> s[i]] /\ \A i \in 1..n : s[i] \in Seq(V)
      /\ end \in [0..n -> Nat] /\ end[0] = 0
      /\ \A i \in 1..n : end[i] = end[i - 1] + Len(s[i])
  BY DEF AreBlocks
<1> USE <1>9
<1> DEFINE h == CHOOSE h : IsFlat(h, s, n)
           G(m) == IF m = 0 THEN <<>> ELSE h[m]
           Claim(m) ==
             /\ G(m) \in Seq(V) /\ Len(G(m)) = end[m]
             /\ \A i \in 1..m : \A q \in 1..Len(s[i]) : G(m)[end[i - 1] + q] = s[i][q]
           T == {m \in 0..n : ~Claim(m)}
<1>1. IsFlat(h, s, n)
  BY FlatExists
<1>2. Len(s) = n /\ (n = 0 => s = <<>>)
  OBVIOUS
<1>3. FlattenSeq(s) = G(n)
  BY <1>2 DEF FlattenSeq, IsFlat
<1> HIDE DEF h
<1>4. ASSUME NEW m \in Nat, m + 1 <= n, G(m) \in Seq(V)
      PROVE  G(m + 1) = G(m) \o s[m + 1] /\ s[m + 1] \in Seq(V)
  <2>1. m + 1 \in 1..n /\ m + 1 # 0 /\ (m + 1) - 1 = m
    BY <1>4
  <2>2. h[m + 1] = IF m + 1 = 1 THEN s[m + 1] ELSE h[m] \o s[m + 1]
    BY <1>1, <2>1 DEF IsFlat
  <2>3. s[m + 1] \in Seq(V)
    BY <2>1
  <2>4. G(m + 1) = G(m) \o s[m + 1]
    <3>1. CASE m = 0
      <4>1. <<>> \o s[1] = s[1]
        BY <2>3, <3>1
      <4> QED BY <2>2, <3>1, <4>1
    <3>2. CASE m # 0
      <4>1. G(m) = h[m] /\ G(m + 1) = h[m + 1] /\ m + 1 # 1
        BY <2>1, <3>2
      <4> HIDE DEF G
      <4> QED BY <2>2, <4>1
    <3> QED BY <3>1, <3>2
  <2> QED BY <2>3, <2>4
<1>5. Claim(0)
  <2>1. <<>> \in Seq(V) /\ Len(<<>>) = 0 /\ 1..0 = {}
    OBVIOUS
  <2> QED BY <2>1
<1>6. ASSUME NEW m \in Nat, m + 1 <= n, Claim(m) PROVE Claim(m + 1)
  <2>1. G(m + 1) = G(m) \o s[m + 1] /\ s[m + 1] \in Seq(V)
    BY <1>4, <1>6
  <2> HIDE DEF G
  <2>2. PICK t \in Seq(V) : t = G(m)
    BY <1>6
  <2>3. PICK u \in Seq(V) : u = s[m + 1]
    BY <2>1
  <2>4. PICK w : w = t \o u
    OBVIOUS
  <2>5. /\ w \in Seq(V) /\ Len(w) = Len(t) + Len(u) /\ Len(t) \in Nat /\ Len(u) \in Nat
        /\ \A x \in 1..Len(t) : w[x] = t[x]
        /\ \A x \in 1..Len(u) : w[Len(t) + x] = u[x]
    BY <2>4
  <2>6. m + 1 \in 1..n /\ (m + 1) - 1 = m /\ m \in 0..n
    <3> HIDE DEF Claim
    <3> QED BY <1>6
  <2>7. Len(t) = end[m] /\ end[m + 1] = end[m] + Len(u) /\ end[m] \in Nat
    BY <1>6, <2>2, <2>3, <2>6
  <2>8. ASSUME NEW i \in 1..(m + 1), NEW q \in 1..Len(s[i])
        PROVE  w[end[i - 1] + q] = s[i][q]
    <3>1. CASE i = m + 1
      BY <2>3, <2>5, <2>6, <2>7, <3>1
    <3>2. CASE i # m + 1
      <4>1. i \in 1..m /\ i \in 1..n /\ i - 1 \in 0..n /\ i \in 0..n
        BY <1>6, <3>2
      <4>2. end[i] <= end[m]
        <5>1. PICK d : d = [c \in 1..n |-> Len(s[c])]
          OBVIOUS
        <5>2. \A c \in 1..n : Len(s[c]) \in Nat
          OBVIOUS
        <5>3. \A c \in 1..n : d[c] \in Nat /\ end[c] = end[c - 1] + d[c]
          BY <5>1, <5>2
        <5>4. IsRunningSum(end, d, n)
          <6>1. \A c \in 0..n : end[c] = IF c = 0 THEN 0 ELSE end[c - 1] + d[c]
            <7>1. \A c \in 0..n : c = 0 \/ c \in 1..n
              OBVIOUS
            <7> QED BY <5>3, <7>1
          <6> QED BY <6>1 DEF IsRunningSum
        <5>5. i \in 0..n /\ m \in 0..n /\ i <= m
          BY <2>6, <4>1
        <5>6. \A c \in 1..n : d[c] \in Nat
          BY <5>3
        <5> QED BY <5>4, <5>5, <5>6, RunningSumsRise
      <4>3. Len(s[i]) \in Nat /\ end[i] = end[i - 1] + Len(s[i]) /\ end[i - 1] \in Nat /\ end[i] \in Nat
        BY <4>1
      <4>4. end[i - 1] + q \in 1..Len(t)
        <5>1. PICK x \in Nat : x = end[i - 1]
          BY <4>3
        <5>2. q \in Nat /\ 1 <= q /\ q <= Len(s[i])
          BY <4>3
        <5>3. x + q <= end[i]
          BY <4>3, <5>1, <5>2
        <5>4. x + q <= Len(t) /\ x + q \in Nat /\ 1 <= x + q
          <6>1. PICK y \in Nat : y = end[i]
            BY <4>3
          <6>2. PICK z \in Nat : z = Len(t) /\ z = end[m]
            BY <2>5, <2>7
          <6>3. x + q <= y /\ y <= z
            BY ONLY <4>2, <5>3, <6>1, <6>2
          <6>4. x + q <= z /\ x + q \in Nat /\ 1 <= x + q
            BY ONLY <5>2, <6>3, x \in Nat, y \in Nat, z \in Nat
          <6> QED BY <6>2, <6>4
        <5> QED BY <2>5, <5>1, <5>4
      <4>5. t[end[i - 1] + q] = s[i][q]
        BY <1>6, <2>2, <4>1
      <4> QED BY <2>5, <4>4, <4>5
    <3> QED BY <3>1, <3>2
  <2> QED BY <2>1, <2>2, <2>3, <2>4, <2>5, <2>7, <2>8
<1> HIDE DEF Claim
<1>7. T = {}
  <2> SUFFICES ASSUME T # {} PROVE FALSE
    OBVIOUS
  <2>1. PICK i \in T : \A j \in T : i <= j
    <3>1. T \subseteq Nat
      OBVIOUS
    <3> HIDE DEF T
    <3> QED BY <3>1, NatMin
  <2>2. i \in 0..n /\ ~Claim(i) /\ i # 0
    BY <1>5, <2>1
  <2>3. PICK m \in Nat : i = m + 1
    <3>1. i - 1 \in Nat /\ i = (i - 1) + 1
      BY <2>2
    <3> QED BY <3>1
  <2>4. m \in 0..n /\ m \notin T
    BY <2>1, <2>2, <2>3
  <2>5. Claim(m) /\ m + 1 <= n
    BY <2>2, <2>3, <2>4
  <2> QED BY <1>6, <2>2, <2>3, <2>5
<1>8. Claim(n)
  BY <1>7
<1> QED BY <1>3, <1>8 DEF Claim
=============================================================================
