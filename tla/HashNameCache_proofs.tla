------------------------ MODULE HashNameCache_proofs ------------------------
(***************************************************************************)
(* Theorems about HashNameCache, for any number of runs of the toolset and *)
(* any lists of names.                                                     *)
(***************************************************************************)
EXTENDS HashNameCache, ProofBasics

-----------------------------------------------------------------------------
(* The table of a list and its fields in the cache file. *)

Keys(l) == DOMAIN TableOf(l)
Count(l) == Cardinality(Keys(l))
KeyAt(l) == SetToSeq(Keys(l))
Words(l) == Fields(NamesHash(l), TableOf(l))

(* Where the fields end: Off(l)[j] is the number of words in the first j. *)
FieldLens(l) == [j \in 1..Len(Words(l)) |-> Len(Words(l)[j])]
Off(l) == CHOOSE f : IsRunningSum(f, FieldLens(l), Len(Words(l)))

(* SetToSeq enumerates a finite set. *)
LEMMA Enumerates ==
  ASSUME NEW S, IsFiniteSet(S)
  PROVE  /\ Cardinality(S) \in Nat
         /\ SetToSeq(S) \in [1..Cardinality(S) -> S]
         /\ \A i, j \in 1..Cardinality(S) : SetToSeq(S)[i] = SetToSeq(S)[j] => i = j
         /\ \A x \in S : \E i \in 1..Cardinality(S) : SetToSeq(S)[i] = x
<1> DEFINE n == Cardinality(S)
<1>1. n \in Nat /\ ExistsBijection(1..n, S)
  BY FS_CardinalityType
<1>2. \E f \in [1..n -> S] : IsInjective(f)
  BY <1>1, Zenon DEF ExistsBijection, Bijection, Injection
<1>3. SetToSeq(S) \in [1..n -> S] /\ IsInjective(SetToSeq(S))
  BY <1>2, Zenon DEF SetToSeq
<1>4. SetToSeq(S) \in Injection(1..n, S)
  BY <1>3 DEF Injection
<1>5. Cardinality(1..n) = n
  BY <1>1, FS_Interval
<1>6. SetToSeq(S) \in Surjection(1..n, S)
  BY <1>4, <1>5, FS_Injection
<1>7. \A x \in S : \E i \in 1..n : SetToSeq(S)[i] = x
  BY <1>6, Zenon DEF Surjection
<1>8. \A i, j \in 1..n : SetToSeq(S)[i] = SetToSeq(S)[j] => i = j
  BY <1>3, Zenon DEF IsInjective
<1> QED BY <1>1, <1>3, <1>7, <1>8

LEMMA Lists ==
  ASSUME NEW l \in NameLists
  PROVE  /\ l \in Seq(Seq(Nat)) /\ NamesHash(l) \in Nat
         /\ \A i \in 1..Len(l) : l[i] \in Seq(Nat) /\ Key(l[i]) \in Nat
<1>1. PICK m \in Modes : l \in m.lists
  BY DEF NameLists
<1>2. m \in Mode /\ Hash(FlattenSeq(l)) \in Nat /\ \A i \in DOMAIN l : Key(l[i]) \in Nat
  BY <1>1, CacheAssumption DEF CacheAssumption
<1>3. l \in Seq(Seq(Nat))
  BY <1>1, <1>2 DEF Mode
<1> QED BY <1>2, <1>3 DEF NamesHash

(* Each key of a table has one of the names. *)
LEMMA Tables ==
  ASSUME NEW l \in NameLists
  PROVE  /\ IsFiniteSet(Keys(l)) /\ Keys(l) \subseteq Nat
         /\ TableOf(l) = [x \in Keys(l) |-> TableOf(l)[x]]
         /\ \A x \in Keys(l) : \E i \in 1..Len(l) : TableOf(l)[x] = l[i]
<1>1. /\ l \in Seq(Seq(Nat)) /\ \A i \in 1..Len(l) : Key(l[i]) \in Nat
      /\ DOMAIN l = 1..Len(l) /\ Len(l) \in Nat
  BY Lists
<1>2. Keys(l) = {Key(l[i]) : i \in 1..Len(l)}
  BY <1>1 DEF Keys, TableOf
<1>3. IsFiniteSet(Keys(l))
  <2> DEFINE g == [i \in 1..Len(l) |-> Key(l[i])]
  <2>1. g \in Surjection(1..Len(l), Keys(l))
    <3>1. g \in [1..Len(l) -> Keys(l)]
      BY <1>2
    <3>2. \A x \in Keys(l) : \E i \in 1..Len(l) : g[i] = x
      BY <1>2
    <3> HIDE DEF g
    <3> QED BY <3>1, <3>2 DEF Surjection
  <2>2. IsFiniteSet(1..Len(l))
    BY <1>1, FS_Interval
  <2> HIDE DEF g
  <2> QED BY <2>1, <2>2, FS_Surjection
<1>4. ASSUME NEW x \in Keys(l)
      PROVE  \E i \in 1..Len(l) : TableOf(l)[x] = l[i]
  <2> DEFINE T == {i \in 1..Len(l) : Key(l[i]) = x}
  <2>1. T # {} /\ T \subseteq Nat /\ \A i \in T : i <= Len(l)
    BY <1>1, <1>2
  <2>2. PICK i \in T : \A j \in T : j <= i
    <3> HIDE DEF T
    <3> QED BY <1>1, <2>1, NatMax
  <2> DEFINE c == CHOOSE h \in 1..Len(l) : Key(l[h]) = x /\ \A j \in 1..Len(l) : Key(l[j]) = x => j <= h
  <2>3. c \in 1..Len(l)
    <3>1. i \in 1..Len(l) /\ Key(l[i]) = x /\ \A j \in 1..Len(l) : Key(l[j]) = x => j <= i
      BY <2>2
    <3> QED BY <3>1
  <2>4. TableOf(l)[x] = l[c]
    <3>1. TableOf(l)[x] = LineOf(l, x)
      BY <1>1, <1>2 DEF TableOf
    <3> QED BY <1>1, <3>1 DEF LineOf
  <2> QED BY <2>3, <2>4
<1>5. TableOf(l) = [x \in Keys(l) |-> TableOf(l)[x]]
  BY DEF TableOf, Keys
<1> QED BY <1>1, <1>2, <1>3, <1>4, <1>5

LEMMA FieldsAre ==
  ASSUME NEW l \in NameLists
  PROVE  /\ Count(l) \in Nat /\ KeyAt(l) \in [1..Count(l) -> Keys(l)]
         /\ Words(l) \in Seq(Seq(Nat)) /\ Len(Words(l)) = 2 + 3 * Count(l)
         /\ Words(l)[1] = <<NamesHash(l)>> /\ Words(l)[2] = <<Count(l)>>
         /\ \A i \in 1..Count(l) :
              LET text == TableOf(l)[KeyAt(l)[i]]
              IN  /\ KeyAt(l)[i] \in Nat /\ text \in Seq(Nat)
                  /\ ~TooLong(l) => LenField(text) = Len(text)
                  /\ Words(l)[3 * i] = <<KeyAt(l)[i]>>
                  /\ Words(l)[3 * i + 1] = <<LenField(text)>>
                  /\ Words(l)[3 * i + 2] = text
<1> DEFINE n == Count(l)
           text(i) == TableOf(l)[KeyAt(l)[i]]
           body == [i \in 1..n |-> Entry(KeyAt(l)[i], text(i))]
           flat == FlattenSeq(body)
           head == << <<NamesHash(l)>>, <<n>> >>
<1>1. n \in Nat /\ KeyAt(l) \in [1..n -> Keys(l)]
  BY Tables, Enumerates DEF Count, KeyAt
<1>2. ASSUME NEW i \in 1..n
      PROVE  /\ KeyAt(l)[i] \in Nat /\ text(i) \in Seq(Nat)
             /\ LenField(text(i)) \in Nat
             /\ ~TooLong(l) => LenField(text(i)) = Len(text(i))
  <2>1. KeyAt(l)[i] \in Keys(l)
    BY <1>1
  <2>2. PICK j \in 1..Len(l) : text(i) = l[j]
    BY <2>1, Tables
  <2>3. KeyAt(l)[i] \in Nat /\ text(i) \in Seq(Nat) /\ Len(text(i)) \in Nat
    BY <2>1, <2>2, Tables, Lists
  <2>4. LenMax \in Nat
    BY CacheAssumption DEF CacheAssumption
  <2>5. ~TooLong(l) => Len(text(i)) <= LenMax
    <3>1. j \in DOMAIN l
      BY Lists
    <3> QED BY <2>2, <2>3, <2>4, <3>1 DEF TooLong
  <2> HIDE DEF text
  <2>6. LenField(text(i)) \in Nat /\ (~TooLong(l) => LenField(text(i)) = Len(text(i)))
    BY <2>3, <2>4, <2>5 DEF LenField
  <2> QED BY <2>3, <2>6
<1>3. /\ body \in Seq(Seq(Seq(Nat))) /\ Len(body) = n
      /\ \A i \in 1..n : Len(body[i]) = 3 /\ body[i] = << <<KeyAt(l)[i]>>, <<LenField(text(i))>>, text(i) >>
  <2> HIDE DEF text
  <2>1. ASSUME NEW i \in 1..n
        PROVE  Entry(KeyAt(l)[i], text(i)) \in Seq(Seq(Nat)) /\ Len(Entry(KeyAt(l)[i], text(i))) = 3
    BY <1>2 DEF Entry
  <2> HIDE DEF n
  <2> QED BY <1>1, <2>1 DEF Entry
<1>4. /\ flat \in Seq(Seq(Nat)) /\ Len(flat) = 3 * n
      /\ \A i \in 1..n : /\ flat[3 * i - 2] = body[i][1]
                         /\ flat[3 * i - 1] = body[i][2]
                         /\ flat[3 * i] = body[i][3]
  <2>1. PICK S : S = Seq(Nat)
    OBVIOUS
  <2>2. n \in Nat /\ body \in Seq(Seq(S)) /\ Len(body) = n /\ \A i \in 1..n : Len(body[i]) = 3
    <3> HIDE DEF body, n
    <3> QED BY <1>1, <1>3, <2>1
  <2> HIDE DEF body, n
  <2>3. /\ FlattenSeq(body) \in Seq(S) /\ Len(FlattenSeq(body)) = 3 * n
        /\ \A i \in 1..n : /\ FlattenSeq(body)[3 * i - 2] = body[i][1]
                           /\ FlattenSeq(body)[3 * i - 1] = body[i][2]
                           /\ FlattenSeq(body)[3 * i] = body[i][3]
    BY <2>2, FlattenTriples
  <2> QED BY <2>1, <2>3
<1>5. head \in Seq(Seq(Nat)) /\ Len(head) = 2 /\ head[1] = <<NamesHash(l)>> /\ head[2] = <<n>>
  BY <1>1, Lists
<1>6. Words(l) = head \o flat
  <2>1. DOMAIN KeyAt(l) = 1..n
    BY <1>1
  <2> QED BY <2>1 DEF Words, Fields, KeyAt, Keys, CountField, Count
<1> HIDE DEF flat, head, body, n, text
<1>7. /\ Words(l) \in Seq(Seq(Nat)) /\ Len(Words(l)) = 2 + 3 * n
      /\ \A x \in 1..(2 + 3 * n) : Words(l)[x] = IF x <= 2 THEN head[x] ELSE flat[x - 2]
  <2>1. PICK S : S = Seq(Nat)
    OBVIOUS
  <2>2. head \in Seq(S) /\ flat \in Seq(S) /\ Len(head) = 2 /\ Len(flat) = 3 * n
    BY <1>4, <1>5, <2>1
  <2>3. /\ head \o flat \in Seq(S) /\ Len(head \o flat) = Len(head) + Len(flat)
        /\ \A x \in 1..(Len(head) + Len(flat)) :
             (head \o flat)[x] = IF x <= Len(head) THEN head[x] ELSE flat[x - Len(head)]
    BY <2>2, ConcatProperties
  <2> QED BY <1>6, <2>1, <2>2, <2>3
<1>8. Words(l)[1] = head[1] /\ Words(l)[2] = head[2]
  BY <1>1, <1>7
<1>9. ASSUME NEW i \in 1..n
      PROVE  /\ Words(l)[3 * i] = <<KeyAt(l)[i]>>
             /\ Words(l)[3 * i + 1] = <<LenField(text(i))>>
             /\ Words(l)[3 * i + 2] = text(i)
  <2>1. /\ body[i][1] = <<KeyAt(l)[i]>> /\ body[i][2] = <<LenField(text(i))>> /\ body[i][3] = text(i)
    BY <1>3
  <2>2. PICK a, b, c \in 1..(2 + 3 * n) : /\ a = 3 * i /\ b = 3 * i + 1 /\ c = 3 * i + 2
                                          /\ ~(a <= 2) /\ ~(b <= 2) /\ ~(c <= 2)
                                          /\ a - 2 = 3 * i - 2 /\ b - 2 = 3 * i - 1 /\ c - 2 = 3 * i
    BY <1>1
  <2>3. Words(l)[a] = flat[a - 2] /\ Words(l)[b] = flat[b - 2] /\ Words(l)[c] = flat[c - 2]
    BY <1>7, <2>2
  <2> QED BY <1>4, <2>1, <2>2, <2>3
<1> QED BY <1>1, <1>2, <1>5, <1>7, <1>8, <1>9 DEF n, text

LEMMA FieldEnds ==
  ASSUME NEW l \in NameLists
  PROVE  /\ Len(Words(l)) \in Nat /\ Off(l) \in [0..Len(Words(l)) -> Nat]
         /\ Off(l)[0] = 0 /\ Off(l)[1] = 1 /\ Off(l)[2] = 2
         /\ \A j \in 1..Len(Words(l)) :
              /\ Words(l)[j] \in Seq(Nat) /\ Len(Words(l)[j]) \in Nat
              /\ Off(l)[j] = Off(l)[j - 1] + Len(Words(l)[j])
         /\ \A i, j \in 0..Len(Words(l)) : i <= j => Off(l)[i] <= Off(l)[j]
<1> DEFINE n == Len(Words(l))
           d == FieldLens(l)
<1>1. /\ Words(l) \in Seq(Seq(Nat)) /\ n \in Nat /\ n >= 2
      /\ Words(l)[1] = <<NamesHash(l)>> /\ Words(l)[2] = <<Count(l)>>
  <2>1. /\ Words(l) \in Seq(Seq(Nat)) /\ Len(Words(l)) = 2 + 3 * Count(l) /\ Count(l) \in Nat
        /\ Words(l)[1] = <<NamesHash(l)>> /\ Words(l)[2] = <<Count(l)>>
    BY FieldsAre
  <2> QED BY <2>1
<1>2. \A j \in 1..n : Words(l)[j] \in Seq(Nat) /\ Len(Words(l)[j]) \in Nat /\ d[j] = Len(Words(l)[j])
  BY <1>1 DEF FieldLens
<1> HIDE DEF d
<1>3. IsRunningSum(Off(l), d, n)
  <2>1. \A j \in 1..n : d[j] \in Nat
    BY <1>2
  <2>2. \E f : IsRunningSum(f, d, n)
    BY <1>1, <2>1, RunningSums
  <2> QED BY <2>2 DEF Off, d
<1> HIDE DEF n
<1>4. /\ Off(l) \in [0..n -> Nat] /\ Off(l)[0] = 0
      /\ \A c \in 1..n : Off(l)[c] = Off(l)[c - 1] + d[c]
  <2>1. \A j \in 1..n : d[j] \in Nat
    BY <1>2
  <2> QED BY <1>1, <1>3, <2>1, RunningSums
<1>5. \A i, j \in 0..n : i <= j => Off(l)[i] <= Off(l)[j]
  <2>1. \A j \in 1..n : d[j] \in Nat
    BY <1>2
  <2> QED BY <1>1, <1>3, <2>1, RunningSumsRise
<1>6. Off(l)[1] = 1 /\ Off(l)[2] = 2
  <2>1. 1 \in 1..n /\ 2 \in 1..n /\ d[1] = 1 /\ d[2] = 1
    <3>1. 1 \in 1..n /\ 2 \in 1..n
      BY <1>1
    <3>2. d[1] = Len(Words(l)[1]) /\ d[2] = Len(Words(l)[2])
      BY <1>2, <3>1
    <3>3. Len(<<NamesHash(l)>>) = 1 /\ Len(<<Count(l)>>) = 1
      OBVIOUS
    <3> QED BY <1>1, <3>1, <3>2, <3>3
  <2>2. Off(l)[1] = Off(l)[1 - 1] + 1
    BY <1>4, <2>1
  <2>3. Off(l)[2] = Off(l)[2 - 1] + 1
    BY <1>4, <2>1
  <2> QED BY <1>4, <2>2, <2>3
<1>7. \A j \in 1..n : Off(l)[j] = Off(l)[j - 1] + Len(Words(l)[j])
  BY <1>2, <1>4
<1> QED BY <1>1, <1>2, <1>4, <1>5, <1>6, <1>7 DEF n

-----------------------------------------------------------------------------
(* Writing fields one after another, over whatever the file holds. *)

(* Of the first e words of a file, those that a list has there are its.    *)
AgreesOn(l, f, e) ==
  \A j \in 1..Len(Words(l)) : \A m \in 1..Len(Words(l)[j]) :
    Off(l)[j - 1] + m <= e => f[Off(l)[j - 1] + m] = Words(l)[j][m]

LEMMA Overwrites ==
  ASSUME NEW f \in Seq(Nat), NEW p \in 1..(Len(f) + 1), NEW new \in Seq(Nat),
         NEW g, g = Overwrite(f, p, new)
  PROVE  /\ g \in Seq(Nat)
         /\ Len(g) = IF p + Len(new) - 1 > Len(f) THEN p + Len(new) - 1 ELSE Len(f)
         /\ \A x \in 1..Len(g) : g[x] = IF x >= p /\ x < p + Len(new) THEN new[x - p + 1] ELSE f[x]
<1> DEFINE a == Len(f)
           b == p + Len(new) - 1
           n == IF b > a THEN b ELSE a
<1>1. a \in Nat /\ b \in Nat /\ n \in Nat
  OBVIOUS
<1>2. Max({a, b}) = n
  <2> HIDE DEF a, b
  <2>1. n \in {a, b} /\ \A y \in {a, b} : n >= y
    BY <1>1
  <2>2. \A x \in {a, b} : (\A y \in {a, b} : x >= y) => x = n
    BY <1>1
  <2> HIDE DEF n
  <2> QED BY <2>1, <2>2 DEF Max
<1>3. g = [x \in 1..n |-> IF x >= p /\ x < p + Len(new) THEN new[x - p + 1] ELSE f[x]]
  BY <1>2 DEF Overwrite
<1>4. \A x \in 1..n : (IF x >= p /\ x < p + Len(new) THEN new[x - p + 1] ELSE f[x]) \in Nat
  OBVIOUS
<1> HIDE DEF n, a, b
<1>5. g \in Seq(Nat) /\ Len(g) = n
  BY <1>1, <1>3, <1>4
<1> QED BY <1>3, <1>5 DEF n, a, b

IsOverwritten(f, p, new, g) ==
  /\ g \in Seq(Nat)
  /\ Len(g) = IF p + Len(new) - 1 > Len(f) THEN p + Len(new) - 1 ELSE Len(f)
  /\ \A x \in 1..Len(g) : g[x] = IF x >= p /\ x < p + Len(new) THEN new[x - p + 1] ELSE f[x]

LEMMA OverwritesAll ==
  \A f \in Seq(Nat) : \A p \in 1..(Len(f) + 1) : \A new \in Seq(Nat) : \A g :
    g = Overwrite(f, p, new) => IsOverwritten(f, p, new, g)
BY Overwrites DEF IsOverwritten

LEMMA WritesField ==
  ASSUME NEW l \in NameLists, NEW f \in Seq(Nat), NEW j \in 1..Len(Words(l)),
         Off(l)[j - 1] <= Len(f), NEW g, g = Overwrite(f, Off(l)[j - 1] + 1, Words(l)[j])
  PROVE  /\ g \in Seq(Nat) /\ Len(g) >= Off(l)[j] /\ Len(g) >= Len(f)
         /\ AgreesOn(l, f, Off(l)[j - 1]) => AgreesOn(l, g, Off(l)[j])
         /\ AgreesOn(l, f, Len(f)) => AgreesOn(l, g, Len(g))
<1> DEFINE n == Len(Words(l))
           o == Off(l)[j - 1]
           new == Words(l)[j]
<1>1. /\ n \in Nat /\ o \in Nat /\ new \in Seq(Nat) /\ Len(new) \in Nat
      /\ Off(l)[j] = o + Len(new) /\ Len(f) \in Nat /\ j - 1 \in 0..n
  <2>1. n \in Nat /\ Off(l) \in [0..n -> Nat]
        /\ new \in Seq(Nat) /\ Len(new) \in Nat /\ Off(l)[j] = o + Len(new)
    BY FieldEnds
  <2>2. j - 1 \in 0..n
    BY <2>1
  <2> HIDE DEF new, n
  <2>3. o \in Nat
    BY <2>1, <2>2
  <2> QED BY <2>1, <2>2, <2>3
<1>2. /\ g \in Seq(Nat)
      /\ Len(g) = IF o + Len(new) > Len(f) THEN o + Len(new) ELSE Len(f)
      /\ \A x \in 1..Len(g) : g[x] = IF x > o /\ x <= o + Len(new) THEN new[x - o] ELSE f[x]
  <2> HIDE DEF o, new
  <2>1. PICK p \in 1..(Len(f) + 1) : p = o + 1
    BY <1>1 DEF o
  <2>2. g = Overwrite(f, p, new)
    BY <2>1 DEF o, new
  <2>3. /\ g \in Seq(Nat)
        /\ Len(g) = IF p + Len(new) - 1 > Len(f) THEN p + Len(new) - 1 ELSE Len(f)
        /\ \A x \in 1..Len(g) : g[x] = IF x >= p /\ x < p + Len(new) THEN new[x - p + 1] ELSE f[x]
    <3>1. PICK v \in Seq(Nat) : v = new
      BY <1>1
    <3>2. g = Overwrite(f, p, v)
      BY <2>2, <3>1
    <3>3. /\ g \in Seq(Nat)
          /\ Len(g) = IF p + Len(v) - 1 > Len(f) THEN p + Len(v) - 1 ELSE Len(f)
          /\ \A x \in 1..Len(g) : g[x] = IF x >= p /\ x < p + Len(v) THEN v[x - p + 1] ELSE f[x]
      <4>1. f \in Seq(Nat) /\ p \in 1..(Len(f) + 1) /\ v \in Seq(Nat)
        BY <2>1, <3>1
      <4>2. IsOverwritten(f, p, v, g)
        BY <3>2, <4>1, OverwritesAll, Zenon
      <4> QED BY <4>2 DEF IsOverwritten
    <3> QED BY <3>1, <3>3
  <2>4. p + Len(new) - 1 = o + Len(new)
    BY <1>1, <2>1
  <2>5. ASSUME NEW x \in 1..Len(g)
        PROVE  g[x] = IF x > o /\ x <= o + Len(new) THEN new[x - o] ELSE f[x]
    <3>1. x - p + 1 = x - o /\ (x >= p <=> x > o) /\ (x < p + Len(new) <=> x <= o + Len(new))
      BY <1>1, <2>1
    <3> QED BY <2>3, <3>1
  <2> QED BY <2>3, <2>4, <2>5
<1> HIDE DEF o, new, n
<1>3. Len(g) \in Nat /\ Len(g) >= o + Len(new) /\ Len(g) >= Len(f)
  BY <1>1, <1>2
<1>4. ASSUME NEW e \in Nat, NEW h \in Nat, e <= Len(f), h <= Len(g),
             o <= e, e = o => h = o + Len(new), h > o + Len(new) => h <= e,
             AgreesOn(l, f, e)
      PROVE  AgreesOn(l, g, h)
  <2> SUFFICES ASSUME NEW i \in 1..n, NEW m \in 1..Len(Words(l)[i]), Off(l)[i - 1] + m <= h
               PROVE  g[Off(l)[i - 1] + m] = Words(l)[i][m]
    BY DEF AgreesOn, n
  <2>1. /\ Off(l)[i - 1] \in Nat /\ Off(l)[i] \in Nat /\ Off(l)[i] = Off(l)[i - 1] + Len(Words(l)[i])
        /\ Len(Words(l)[i]) \in Nat /\ i \in Nat
    <3>1. i - 1 \in 0..n /\ i \in 0..n /\ i \in Nat
      BY <1>1
    <3>2. Off(l) \in [0..n -> Nat]
      BY FieldEnds DEF n
    <3>3. Off(l)[i] = Off(l)[i - 1] + Len(Words(l)[i]) /\ Len(Words(l)[i]) \in Nat
      BY FieldEnds DEF n
    <3> QED BY <3>1, <3>2, <3>3
  <2>2. PICK a \in Nat : a = Off(l)[i - 1]
    BY <2>1
  <2>3. PICK w \in Nat : w = Len(new)
    BY <1>1
  <2>4. PICK x \in Nat : x = a + m
    BY <2>1, <2>2
  <2>11. PICK b \in Nat : b = Off(l)[i]
    BY <2>1
  <2>12. PICK lw \in Nat : lw = Len(Words(l)[i])
    BY <2>1
  <2>5. b = a + lw /\ x <= b /\ x > a /\ x <= h
    <3>1. m \in 1..lw /\ a + m <= h
      BY <2>2, <2>12
    <3>2. b = a + lw
      BY <2>1, <2>2, <2>11, <2>12
    <3> QED BY <2>4, <3>1, <3>2
  <2>6. g[x] = IF x > o /\ x <= o + w THEN new[x - o] ELSE f[x]
    <3>1. x \in 1..Len(g)
      BY <1>3, <1>4, <2>4, <2>5
    <3> QED BY <1>2, <2>3, <3>1
  <2>7. x <= e => f[x] = Words(l)[i][m]
    BY <1>4, <2>2, <2>4 DEF AgreesOn, n
  <2>8. CASE i = j
    <3>1. x - o = m /\ x > o /\ x <= o + w
      <4>1. a = o /\ lw = w /\ o \in Nat /\ m \in 1..lw
        BY <1>1, <2>2, <2>3, <2>8, <2>12 DEF o, new
      <4> QED BY <2>4, <4>1
    <3>2. g[x] = new[m]
      BY <2>6, <3>1
    <3> QED BY <2>2, <2>4, <2>8, <3>2 DEF new
  <2>9. CASE i < j
    <3>1. Off(l)[i] <= o
      <4>1. i \in 0..n /\ i <= j - 1
        BY <1>1, <2>1, <2>9
      <4> QED BY <1>1, <4>1, FieldEnds DEF n, o
    <3>2. x <= o /\ x <= e
      BY <1>1, <1>4, <2>4, <2>5, <2>11, <3>1
    <3>3. g[x] = f[x]
      BY <1>1, <2>6, <3>2
    <3> QED BY <2>2, <2>4, <2>7, <3>2, <3>3
  <2>10. CASE i > j
    <3>1. o + w <= a
      <4>1. j \in 0..n /\ i - 1 \in 0..n /\ j <= i - 1
        BY <1>1, <2>1, <2>10
      <4>2. Off(l)[j] <= Off(l)[i - 1]
        BY <4>1, FieldEnds DEF n
      <4> QED BY <1>1, <2>2, <2>3, <4>2
    <3>2. x > o + w /\ h > o + w
      BY <1>1, <2>3, <2>4, <2>5, <3>1
    <3>3. x <= e
      BY <1>1, <1>4, <2>3, <2>4, <2>5, <3>2
    <3>4. g[x] = f[x]
      BY <1>1, <2>6, <3>2
    <3> QED BY <2>2, <2>4, <2>7, <3>3, <3>4
  <2> QED BY <1>1, <2>1, <2>8, <2>9, <2>10
<1>5. AgreesOn(l, f, o) => AgreesOn(l, g, Off(l)[j])
  <2>1. o + Len(new) \in Nat /\ o + Len(new) <= Len(g) /\ o <= Len(f)
    BY <1>1, <1>3 DEF o
  <2>2. AgreesOn(l, f, o) => AgreesOn(l, g, o + Len(new))
    BY <1>1, <1>4, <2>1
  <2> QED BY <1>1, <2>2
<1>6. AgreesOn(l, f, Len(f)) => AgreesOn(l, g, Len(g))
  <2>1. o <= Len(f)
    BY DEF o
  <2>2. Len(f) = o => Len(g) = o + Len(new)
    BY <1>1, <1>2
  <2>3. Len(g) > o + Len(new) => Len(g) <= Len(f)
    BY <1>1, <1>2
  <2>4. PICK e \in Nat : e = Len(f)
    BY <1>1
  <2>5. PICK h \in Nat : h = Len(g)
    BY <1>3
  <2>6. AgreesOn(l, f, e) => AgreesOn(l, g, h)
    BY <1>4, <2>1, <2>2, <2>3, <2>4, <2>5
  <2> QED BY <2>4, <2>5, <2>6
<1> QED BY <1>1, <1>2, <1>3, <1>5, <1>6 DEF o

-----------------------------------------------------------------------------
(* Reading what was written. *)

Last3(l) == Off(l)[Len(Words(l))]
Complete(l) == Last3(l) <= Len(file) /\ AgreesOn(l, file, Last3(l))

(* So many entries were read, and read right. *)
Read(p, i) ==
  /\ at[p] = Off(names[p])[2 + 3 * i] + 1 /\ left[p] = Count(names[p]) - i
  /\ got[p] = [x \in {KeyAt(names[p])[q] : q \in 1..i} |-> TableOf(names[p])[x]]

(* The words of entry i + 1. *)
LEMMA EntryPlaces ==
  ASSUME NEW l \in NameLists, NEW i \in Nat, i < Count(l)
  PROVE  LET key == KeyAt(l)[i + 1]
             text == TableOf(l)[key]
             a == Off(l)[2 + 3 * i]
         IN  /\ text \in Seq(Nat) /\ Len(text) \in Nat /\ a \in Nat /\ Last3(l) \in Nat
             /\ Off(l)[2 + 3 * (i + 1)] = a + 2 + Len(text) /\ a + 2 + Len(text) <= Last3(l)
             /\ \A f, e : AgreesOn(l, f, e) =>
                  /\ a + 1 <= e => f[a + 1] = key
                  /\ a + 2 <= e => f[a + 2] = LenField(text)
                  /\ \A m \in 1..Len(text) : a + 2 + m <= e => f[a + 2 + m] = text[m]
<1> DEFINE key == KeyAt(l)[i + 1]
           text == TableOf(l)[key]
           a == Off(l)[2 + 3 * i]
           n == Len(Words(l))
<1>1. Count(l) \in Nat /\ n = 2 + 3 * Count(l) /\ Words(l) \in Seq(Seq(Nat))
  BY FieldsAre
<1>2. PICK b, c, d \in 1..n : /\ b = 3 * (i + 1) /\ c = 3 * (i + 1) + 1 /\ d = 3 * (i + 1) + 2
                              /\ b - 1 = 2 + 3 * i /\ c - 1 = b /\ d - 1 = c
  BY <1>1
<1>3. /\ Words(l)[b] = <<key>> /\ Words(l)[c] = <<LenField(text)>> /\ Words(l)[d] = text
      /\ text \in Seq(Nat)
  <2>1. PICK h \in 1..Count(l) : h = i + 1
    BY <1>1
  <2>2. LET t == TableOf(l)[KeyAt(l)[h]]
        IN  /\ t \in Seq(Nat)
            /\ Words(l)[3 * h] = <<KeyAt(l)[h]>>
            /\ Words(l)[3 * h + 1] = <<LenField(t)>>
            /\ Words(l)[3 * h + 2] = t
    BY FieldsAre
  <2> QED BY <1>2, <2>1, <2>2
<1> HIDE DEF n, key, text, a
<1>4. /\ Off(l)[b] = Off(l)[b - 1] + Len(Words(l)[b])
      /\ Off(l)[c] = Off(l)[c - 1] + Len(Words(l)[c])
      /\ Off(l)[d] = Off(l)[d - 1] + Len(Words(l)[d])
  BY FieldEnds DEF n
<1>5. a \in Nat /\ Last3(l) \in Nat /\ Off(l)[b] \in Nat /\ Off(l)[c] \in Nat
  <2>1. Off(l) \in [0..n -> Nat] /\ n \in Nat
    BY FieldEnds DEF n
  <2>2. b - 1 \in 0..n /\ b \in 0..n /\ c \in 0..n /\ n \in 0..n
    BY <1>2, <2>1
  <2>3. a = Off(l)[b - 1]
    BY <1>2 DEF a
  <2> QED BY <2>1, <2>2, <2>3 DEF Last3, n
<1>6. Len(text) \in Nat /\ Len(<<key>>) = 1 /\ Len(<<LenField(text)>>) = 1
  BY <1>3
<1>7. Off(l)[b] = a + 1 /\ Off(l)[c] = a + 2 /\ Off(l)[d] = a + 2 + Len(text)
  <2>1. Off(l)[b] = a + 1
    BY <1>2, <1>3, <1>4, <1>6 DEF a
  <2>2. Off(l)[c] = a + 1 + 1
    BY <1>2, <1>3, <1>4, <1>6, <2>1
  <2> QED BY <1>2, <1>3, <1>4, <1>5, <2>1, <2>2
<1>8. a + 2 + Len(text) <= Last3(l)
  <2>1. d \in 0..n /\ n \in 0..n /\ d <= n
    BY <1>1, <1>2
  <2>2. Off(l)[d] <= Off(l)[n]
    BY <2>1, FieldEnds DEF n
  <2> QED BY <1>7, <2>2 DEF Last3, n
<1>9. ASSUME NEW f, NEW e, AgreesOn(l, f, e)
      PROVE  /\ a + 1 <= e => f[a + 1] = key
             /\ a + 2 <= e => f[a + 2] = LenField(text)
             /\ \A m \in 1..Len(text) : a + 2 + m <= e => f[a + 2 + m] = text[m]
  <2>1. \A j \in 1..n : \A m \in 1..Len(Words(l)[j]) :
          Off(l)[j - 1] + m <= e => f[Off(l)[j - 1] + m] = Words(l)[j][m]
    BY <1>9 DEF AgreesOn, n
  <2>2. Off(l)[b - 1] = a /\ Off(l)[c - 1] = a + 1 /\ Off(l)[d - 1] = a + 2
    BY <1>2, <1>7 DEF a
  <2>3. a + 1 <= e => f[a + 1] = key
    <3>1. 1 \in 1..Len(Words(l)[b]) /\ Words(l)[b][1] = key
      BY <1>3, <1>6
    <3>2. Off(l)[b - 1] + 1 <= e => f[Off(l)[b - 1] + 1] = Words(l)[b][1]
      BY <2>1, <3>1
    <3> QED BY <2>2, <3>1, <3>2
  <2>4. a + 2 <= e => f[a + 2] = LenField(text)
    <3>1. 1 \in 1..Len(Words(l)[c]) /\ Words(l)[c][1] = LenField(text)
      BY <1>3, <1>6
    <3>2. Off(l)[c - 1] + 1 <= e => f[Off(l)[c - 1] + 1] = Words(l)[c][1]
      BY <2>1, <3>1
    <3>3. Off(l)[c - 1] + 1 = a + 2
      BY <1>5, <2>2
    <3> QED BY <3>1, <3>2, <3>3
  <2>5. ASSUME NEW m \in 1..Len(text), a + 2 + m <= e
        PROVE  f[a + 2 + m] = text[m]
    <3>1. Off(l)[d - 1] + m <= e => f[Off(l)[d - 1] + m] = Words(l)[d][m]
      BY <1>3, <2>1
    <3> QED BY <1>3, <2>2, <2>5, <3>1
  <2> QED BY <2>3, <2>4, <2>5
<1>10. Off(l)[2 + 3 * (i + 1)] = a + 2 + Len(text)
  <2>1. d = 2 + 3 * (i + 1)
    BY <1>2
  <2> QED BY <1>7, <2>1
<1> QED BY <1>3, <1>5, <1>6, <1>8, <1>9, <1>10 DEF key, text, a

-----------------------------------------------------------------------------
(* What every state satisfies. *)

Phases == {"idle"} \cup Active \cup Ended

TypeInv ==
  /\ mode \in Modes /\ file \in Seq(Nat)
  /\ torn \in BOOLEAN /\ sawTorn \in [Procs -> BOOLEAN]
  /\ pc \in [Procs -> Phases]
  /\ at \in [Procs -> Nat] /\ left \in [Procs -> Nat]
  /\ names = [p \in Procs |-> names[p]] /\ got = [p \in Procs |-> got[p]]
  /\ todo = [p \in Procs |-> todo[p]]
  /\ \A p \in Procs : IF pc[p] = "idle" THEN names[p] = Nobody ELSE names[p] \in mode.lists

(* Nothing is read before the cache was looked at. *)
Early(p) ==
  /\ pc[p] \in {"idle", "check", "count"} => got[p] = Empty
  /\ pc[p] = "count" => at[p] = 2
  /\ pc[p] = "entries" => at[p] > 0

(* A writer has j fields behind it, wherever the others are. *)
Writes(p, j) ==
  /\ j \in 0..Len(Words(names[p]))
  /\ at[p] = Off(names[p])[j] + 1 /\ Off(names[p])[j] <= Len(file)
  /\ Len(todo[p]) = Len(Words(names[p])) - j /\ todo[p] \in Seq(Seq(Nat))
  /\ \A k \in 1..(Len(Words(names[p])) - j) : todo[p][k] = Words(names[p])[j + k]
Writer(p) ==
  pc[p] = "write" => got[p] = TableOf(names[p]) /\ \E j \in Nat : Writes(p, j)

BaseInv == TypeInv /\ \A p \in Procs : Early(p) /\ Writer(p)

(* A step of one run leaves the others where they are. *)
LEMMA Others ==
  ASSUME TypeInv, NEW p \in Procs, Run(p), NEW q \in Procs, q # p
  PROVE  /\ pc'[q] = pc[q] /\ names'[q] = names[q] /\ got'[q] = got[q] /\ at'[q] = at[q]
         /\ left'[q] = left[q] /\ todo'[q] = todo[q] /\ sawTorn'[q] = sawTorn[q]
<1>1. CASE Open(p)
  BY <1>1 DEF TypeInv, Open, Goto
<1>2. CASE Check(p)
  BY <1>2 DEF TypeInv, Check, Goto
<1>3. CASE ReadCount(p)
  BY <1>3 DEF TypeInv, ReadCount, Goto, Fail
<1>4. CASE ReadEntry(p)
  BY <1>4 DEF TypeInv, ReadEntry, Goto, Fail
<1>5. CASE ReadDone(p) \/ WriteDone(p) \/ Crash(p)
  BY <1>5 DEF TypeInv, ReadDone, WriteDone, Crash, Goto, private
<1>6. CASE WriteField(p)
  BY <1>6 DEF TypeInv, WriteField
<1> QED BY <1>1, <1>2, <1>3, <1>4, <1>5, <1>6 DEF Run

(* No step changes the circumstances, or the names and the end of a run,   *)
(* and the file only grows.                                                *)
LEMMA Kept ==
  ASSUME TypeInv, NEW p \in Procs, Run(p)
  PROVE  /\ mode' = mode /\ (pc[p] # "idle" => names'[p] = names[p]) /\ pc'[p] # "idle"
         /\ pc[p] \notin Ended
         /\ pc[p] # "write" => file' = file
<1>1. CASE Open(p)
  BY <1>1 DEF TypeInv, Open, Goto, Ended
<1>2. CASE Check(p)
  BY <1>2 DEF TypeInv, Check, Goto, Ended
<1>3. CASE ReadCount(p)
  BY <1>3 DEF TypeInv, ReadCount, Goto, Fail, Ended
<1>4. CASE ReadEntry(p)
  BY <1>4 DEF TypeInv, ReadEntry, Goto, Fail, Ended
<1>5. CASE ReadDone(p) \/ WriteDone(p) \/ Crash(p)
  BY <1>5 DEF TypeInv, ReadDone, WriteDone, Crash, Goto, private, Ended, Active
<1>6. CASE WriteField(p)
  BY <1>6 DEF TypeInv, WriteField, Ended
<1> QED BY <1>1, <1>2, <1>3, <1>4, <1>5, <1>6 DEF Run

(* The lists of a run are among those of the circumstances. *)
LEMMA RunLists ==
  ASSUME TypeInv, NEW p \in Procs, pc[p] # "idle"
  PROVE  names[p] \in mode.lists /\ names[p] \in NameLists /\ names[p] # Nobody
BY CacheAssumption DEF TypeInv, NameLists, CacheAssumption

(* What a writer does to the file. *)
LEMMA WriteFieldStep ==
  ASSUME TypeInv, NEW p \in Procs, Writer(p), WriteField(p)
  PROVE  /\ file' \in Seq(Nat) /\ Len(file') >= Len(file)
         /\ \E j \in 1..Len(Words(names[p])) :
              /\ Off(names[p])[j - 1] <= Len(file) /\ at[p] = Off(names[p])[j - 1] + 1
              /\ file' = Overwrite(file, at[p], Words(names[p])[j])
              /\ Writes(p, j)'
              /\ AgreesOn(names[p], file, at[p] - 1) => AgreesOn(names[p], file', at'[p] - 1)
              /\ AgreesOn(names[p], file, Len(file)) => AgreesOn(names[p], file', Len(file'))
<1> DEFINE l == names[p]
           n == Len(Words(l))
<1>1. pc[p] = "write" /\ todo[p] # <<>>
  BY DEF WriteField
<1>2. l \in NameLists
  BY <1>1, RunLists
<1>3. PICK j0 \in Nat : Writes(p, j0)
  BY <1>1 DEF Writer
<1>4. /\ n \in Nat /\ Off(l) \in [0..n -> Nat]
      /\ \A j \in 1..n : Words(l)[j] \in Seq(Nat) /\ Len(Words(l)[j]) \in Nat
                         /\ Off(l)[j] = Off(l)[j - 1] + Len(Words(l)[j])
  BY <1>2, FieldEnds
<1> HIDE DEF n
<1>5. /\ j0 \in 0..n /\ at[p] = Off(l)[j0] + 1 /\ Off(l)[j0] <= Len(file)
      /\ Len(todo[p]) = n - j0 /\ todo[p] \in Seq(Seq(Nat))
      /\ \A k \in 1..(n - j0) : todo[p][k] = Words(l)[j0 + k]
  BY <1>3 DEF Writes, n
<1>6. Len(todo[p]) # 0
  BY <1>1, <1>5
<1>7. PICK j \in 1..n : j - 1 = j0 /\ j = j0 + 1 /\ n - j = n - j0 - 1
  BY <1>4, <1>5, <1>6
<1>8. Head(todo[p]) = Words(l)[j]
  <2>1. 1 \in 1..(n - j0) /\ j0 + 1 = j
    BY <1>4, <1>5, <1>7
  <2>2. todo[p][1] = Words(l)[j]
    BY <1>5, <2>1
  <2> QED BY <1>1, <1>5, <2>2
<1>9. file' = Overwrite(file, at[p], Words(l)[j])
  BY <1>8 DEF WriteField
<1>10. Off(l)[j - 1] <= Len(file) /\ file \in Seq(Nat) /\ at[p] = Off(l)[j - 1] + 1
  BY <1>5, <1>7 DEF TypeInv
<1>11. file' = Overwrite(file, Off(l)[j - 1] + 1, Words(l)[j])
  BY <1>9, <1>10
<1>12. /\ file' \in Seq(Nat) /\ Len(file') >= Off(l)[j] /\ Len(file') >= Len(file)
       /\ AgreesOn(l, file, Off(l)[j - 1]) => AgreesOn(l, file', Off(l)[j])
       /\ AgreesOn(l, file, Len(file)) => AgreesOn(l, file', Len(file'))
  <2>1. j \in 1..Len(Words(l))
    BY DEF n
  <2> HIDE DEF l
  <2> QED BY <1>2, <1>10, <1>11, <2>1, WritesField
<1>13. at'[p] = Off(l)[j] + 1 /\ Off(l)[j - 1] \in Nat /\ Off(l)[j] \in Nat
  <2>1. at'[p] = at[p] + Len(Head(todo[p]))
    BY DEF WriteField, TypeInv
  <2>2. Off(l)[j - 1] \in Nat /\ Off(l)[j] \in Nat
    <3>1. j - 1 \in 0..n /\ j \in 0..n
      BY <1>4
    <3> QED BY <1>4, <3>1
  <2>3. PICK a, b, w \in Nat : a = Off(l)[j - 1] /\ b = Off(l)[j] /\ w = Len(Words(l)[j])
    BY <1>4, <2>2
  <2>4. b = a + w
    BY <1>4, <2>3
  <2>5. at'[p] = at[p] + w /\ at[p] = a + 1
    BY <1>8, <1>10, <2>1, <2>3
  <2> QED BY <2>3, <2>4, <2>5, SMTT(30)
<1>14. names' = names /\ todo'[p] = Tail(todo[p])
  BY DEF WriteField, TypeInv
<1>15. /\ Len(todo'[p]) = n - j /\ todo'[p] \in Seq(Seq(Nat))
       /\ \A k \in 1..(n - j) : todo'[p][k] = Words(l)[j + k]
  <2>1. PICK t \in Seq(Seq(Nat)) : t = todo[p]
    BY <1>5
  <2>2. t # <<>>
    BY <1>1, <2>1
  <2>3. Tail(t) \in Seq(Seq(Nat)) /\ Len(Tail(t)) = Len(t) - 1 /\ \A k \in 1..(Len(t) - 1) : Tail(t)[k] = t[k + 1]
    BY <2>2
  <2>4. ASSUME NEW k \in 1..(n - j)
        PROVE  todo'[p][k] = Words(l)[j + k]
    <3>1. k + 1 \in 1..(n - j0) /\ j0 + (k + 1) = j + k /\ k \in 1..(Len(t) - 1)
      BY <1>4, <1>5, <1>7, <2>1
    <3>2. t[k + 1] = Words(l)[j0 + (k + 1)]
      BY <1>5, <2>1, <3>1
    <3> QED BY <1>14, <2>1, <2>3, <3>1, <3>2
  <2> QED BY <1>5, <1>7, <1>14, <2>1, <2>3, <2>4
<1>16. Writes(p, j)'
  <2>1. j \in 0..n /\ Off(l)[j] <= Len(file')
    BY <1>4, <1>12
  <2> QED BY <1>13, <1>14, <1>15, <2>1 DEF Writes, n
<1>17. at[p] - 1 = Off(l)[j - 1] /\ at'[p] - 1 = Off(l)[j]
  BY <1>10, <1>13
<1> QED BY <1>9, <1>10, <1>12, <1>16, <1>17 DEF n

LEMMA TypeStep ==
  ASSUME BaseInv, NEW p \in Procs, Run(p)
  PROVE  TypeInv'
<1>1. TypeInv
  BY DEF BaseInv
<1>2. ASSUME /\ mode' = mode /\ file' \in Seq(Nat) /\ torn' \in BOOLEAN
             /\ sawTorn' \in [Procs -> BOOLEAN]
             /\ pc' \in [Procs -> Phases] /\ at' \in [Procs -> Nat] /\ left' \in [Procs -> Nat]
             /\ names' = [q \in Procs |-> names'[q]] /\ got' = [q \in Procs |-> got'[q]]
             /\ todo' = [q \in Procs |-> todo'[q]] /\ names'[p] \in mode.lists
      PROVE  TypeInv'
  <2>1. ASSUME NEW q \in Procs
        PROVE  IF pc'[q] = "idle" THEN names'[q] = Nobody ELSE names'[q] \in mode.lists
    <3>1. CASE q = p
      BY <1>1, <1>2, <3>1, Kept
    <3>2. CASE q # p
      <4>1. pc'[q] = pc[q] /\ names'[q] = names[q]
        BY <1>1, <3>2, Others
      <4> QED BY <1>1, <4>1 DEF TypeInv
    <3> QED BY <3>1, <3>2
  <2>2. mode' \in Modes
    BY <1>1, <1>2 DEF TypeInv
  <2> QED BY <1>2, <2>1, <2>2 DEF TypeInv
<1>3. pc[p] # "idle" => names[p] \in mode.lists
  BY <1>1 DEF TypeInv
<1>4. pc[p] # "idle" => names'[p] \in mode.lists
  BY <1>1, <1>3, Kept
<1>5. CASE Open(p)
  <2>1. names'[p] \in mode.lists /\ names' = [q \in Procs |-> names'[q]]
    BY <1>1, <1>5 DEF TypeInv, Open
  <2> QED BY <1>1, <1>2, <1>5, <2>1 DEF TypeInv, Open, Goto, Phases, Active
<1>6. CASE Check(p)
  <2>1. at' \in [Procs -> Nat] /\ pc' \in [Procs -> Phases] /\ pc[p] # "idle"
    <3>1. at' \in [Procs -> Nat]
      <4>1. at' = [at EXCEPT ![p] = 2] \/ at' = [at EXCEPT ![p] = 1]
        BY <1>6, Zenon DEF Check, Rewound
      <4>2. at \in [Procs -> Nat]
        BY <1>1 DEF TypeInv
      <4> QED BY <4>1, <4>2
    <3>2. pc' \in [Procs -> Phases]
      BY <1>1, <1>6 DEF TypeInv, Check, Goto, Phases, Active
    <3>3. pc[p] # "idle"
      BY <1>6 DEF Check
    <3> QED BY <3>1, <3>2, <3>3
  <2>2. sawTorn' \in [Procs -> BOOLEAN]
    BY <1>1, <1>6 DEF TypeInv, Check
  <2>3. got' = [q \in Procs |-> got'[q]] /\ todo' = [q \in Procs |-> todo'[q]]
    BY <1>1, <1>6 DEF TypeInv, Check
  <2>4. UNCHANGED <<mode, file, names, left, torn>>
    BY <1>6 DEF Check
  <2> QED BY <1>1, <1>2, <1>4, <2>1, <2>2, <2>3, <2>4 DEF TypeInv
<1>7. CASE ReadCount(p)
  <2>1. UNCHANGED <<mode, file, names, todo, torn, sawTorn, got>> /\ pc[p] = "count"
    BY <1>7 DEF ReadCount, Fail
  <2>2. pc' \in [Procs -> Phases]
    BY <1>1, <1>7 DEF TypeInv, ReadCount, Goto, Fail, Phases, Active, Ended
  <2>3. at' \in [Procs -> Nat] /\ left' \in [Procs -> Nat]
    <3>1. CASE ~Eof(at[p]) /\ left' = [left EXCEPT ![p] = file[at[p]]] /\ at' = [at EXCEPT ![p] = @ + 1]
      <4>1. at[p] = 2 /\ file \in Seq(Nat)
        BY <1>1, <2>1 DEF BaseInv, Early, TypeInv
      <4>2. file[at[p]] \in Nat
        BY <3>1, <4>1 DEF Eof
      <4> QED BY <1>1, <3>1, <4>2 DEF TypeInv
    <3>2. CASE Fail(p)
      BY <1>1, <3>2 DEF TypeInv, Fail
    <3> QED BY <1>7, <3>1, <3>2 DEF ReadCount
  <2> QED BY <1>1, <1>2, <1>4, <2>1, <2>2, <2>3 DEF TypeInv
<1>8. CASE ReadEntry(p)
  <2>1. UNCHANGED <<mode, file, names, todo, torn, sawTorn>> /\ pc[p] = "entries" /\ left[p] > 0
    BY <1>8 DEF ReadEntry
  <2>2. pc' \in [Procs -> Phases] /\ got' = [q \in Procs |-> got'[q]]
    BY <1>1, <1>8 DEF TypeInv, ReadEntry, Goto, Fail, Phases, Ended
  <2>3. at' \in [Procs -> Nat] /\ left' \in [Procs -> Nat]
    <3>1. CASE ~Eof(EntryEnd(at[p])) /\ at' = [at EXCEPT ![p] = EntryEnd(at[p]) + 1]
               /\ left' = [left EXCEPT ![p] = @ - 1]
      <4>1. at[p] \in Nat /\ at[p] > 0 /\ file \in Seq(Nat) /\ left[p] \in Nat
        BY <1>1, <2>1 DEF BaseInv, Early, TypeInv
      <4>2. EntryEnd(at[p]) \in Nat
        BY <4>1 DEF EntryEnd, Eof
      <4> QED BY <1>1, <2>1, <3>1, <4>1, <4>2 DEF TypeInv
    <3>2. CASE Fail(p)
      BY <1>1, <3>2 DEF TypeInv, Fail
    <3> QED BY <1>8, <3>1, <3>2 DEF ReadEntry
  <2> QED BY <1>1, <1>2, <1>4, <2>1, <2>2, <2>3 DEF TypeInv
<1>9. CASE ReadDone(p) \/ WriteDone(p) \/ Crash(p)
  <2>1. UNCHANGED <<mode, file, names, got, at, left, todo, sawTorn>> /\ torn' \in BOOLEAN
    BY <1>1, <1>9 DEF ReadDone, WriteDone, Crash, private, TypeInv
  <2>2. pc' \in [Procs -> Phases]
    BY <1>1, <1>9 DEF TypeInv, ReadDone, WriteDone, Crash, Goto, Phases, Ended
  <2>3. pc[p] # "idle"
    BY <1>9 DEF ReadDone, WriteDone, Crash, Active
  <2> QED BY <1>1, <1>2, <1>4, <2>1, <2>2, <2>3 DEF TypeInv
<1>10. CASE WriteField(p)
  <2>1. Writer(p)
    BY DEF BaseInv
  <2>2. file' \in Seq(Nat)
    BY <1>1, <1>10, <2>1, WriteFieldStep
  <2>3. UNCHANGED <<mode, pc, names, got, left, sawTorn>> /\ torn' = TRUE /\ pc[p] = "write"
    BY <1>10 DEF WriteField
  <2>4. todo' = [q \in Procs |-> todo'[q]]
    BY <1>1, <1>10 DEF TypeInv, WriteField
  <2>5. at' \in [Procs -> Nat]
    <3>1. at'[p] \in Nat
      <4>1. PICK j \in 1..Len(Words(names[p])) : Writes(p, j)'
        BY <1>1, <1>10, <2>1, WriteFieldStep
      <4>2. at'[p] = Off(names[p])[j] + 1
        BY <2>3, <4>1 DEF Writes
      <4>3. names[p] \in NameLists
        BY <1>1, <2>3, RunLists
      <4>4. Off(names[p])[j] \in Nat
        BY <4>1, <4>3, FieldEnds
      <4> QED BY <4>2, <4>4
    <3>2. at' = [at EXCEPT ![p] = at'[p]]
      BY <1>1, <1>10 DEF TypeInv, WriteField
    <3> QED BY <1>1, <3>1, <3>2 DEF TypeInv
  <2> QED BY <1>1, <1>2, <1>4, <2>2, <2>3, <2>4, <2>5 DEF TypeInv
<1> QED BY <1>5, <1>6, <1>7, <1>8, <1>9, <1>10 DEF Run

(* A file that no step shortens leaves every writer its place. *)
LEMMA FileGrows ==
  ASSUME BaseInv, NEW p \in Procs, Run(p)
  PROVE  Len(file') >= Len(file) /\ Len(file) \in Nat
<1>1. TypeInv /\ Writer(p) /\ file \in Seq(Nat)
  BY DEF BaseInv, TypeInv
<1>2. CASE WriteField(p)
  BY <1>1, <1>2, WriteFieldStep
<1>3. CASE ~WriteField(p)
  <2>1. file' = file
    BY <1>3 DEF Run, Open, Check, ReadCount, ReadEntry, ReadDone, WriteDone, Crash
  <2> QED BY <1>1, <2>1
<1> QED BY <1>2, <1>3

LEMMA BaseStep ==
  ASSUME BaseInv, NEW p \in Procs, Run(p)
  PROVE  BaseInv'
<1>1. TypeInv /\ TypeInv'
  BY TypeStep DEF BaseInv
<1>2. \A q \in Procs : Early(q) /\ Writer(q)
  BY DEF BaseInv
<1>3. ASSUME NEW q \in Procs, q # p
      PROVE  (Early(q) /\ Writer(q))'
  <2>1. /\ pc'[q] = pc[q] /\ names'[q] = names[q] /\ got'[q] = got[q] /\ at'[q] = at[q]
        /\ todo'[q] = todo[q]
    BY <1>1, <1>3, Others
  <2>2. Early(q)'
    BY <1>2, <2>1 DEF Early
  <2>3. ASSUME pc[q] = "write"
        PROVE  Writer(q)'
    <3>1. PICK j \in Nat : Writes(q, j)
      BY <1>2, <2>3 DEF Writer
    <3>2. names[q] \in NameLists
      BY <1>1, <2>3, RunLists
    <3>3. Off(names[q])[j] \in Nat
      BY <3>1, <3>2, FieldEnds DEF Writes
    <3>4. Off(names[q])[j] <= Len(file')
      <4>1. Len(file') >= Len(file) /\ Len(file) \in Nat /\ Len(file') \in Nat
        BY <1>1, FileGrows DEF TypeInv
      <4> QED BY <3>1, <3>3, <4>1 DEF Writes
    <3>5. Writes(q, j)'
      BY <2>1, <3>1, <3>4 DEF Writes
    <3> QED BY <1>2, <2>1, <2>3, <3>5 DEF Writer
  <2>4. pc[q] # "write" => Writer(q)'
    BY <2>1 DEF Writer
  <2> QED BY <2>2, <2>3, <2>4
<1>4. Early(p)'
  <2>1. CASE Open(p)
    BY <1>1, <1>2, <2>1 DEF Early, Open, Goto, TypeInv
  <2>2. CASE Check(p)
    BY <1>1, <1>2, <2>2 DEF Early, Check, Goto, TypeInv
  <2>3. CASE ReadCount(p)
    BY <1>1, <1>2, <2>3 DEF Early, ReadCount, Goto, Fail, TypeInv
  <2>4. CASE ReadEntry(p)
    <3>1. pc[p] = "entries" /\ at[p] \in Nat /\ at[p] > 0 /\ file \in Seq(Nat)
      BY <1>1, <1>2, <2>4 DEF ReadEntry, Early, TypeInv
    <3>2. EntryEnd(at[p]) \in Nat
      BY <3>1 DEF EntryEnd, Eof
    <3>3. CASE pc' = pc /\ at' = [at EXCEPT ![p] = EntryEnd(at[p]) + 1]
      BY <1>1, <3>1, <3>2, <3>3 DEF Early, TypeInv
    <3>4. CASE Fail(p)
      BY <1>1, <3>4 DEF Early, Fail, Goto, TypeInv
    <3> QED BY <2>4, <3>3, <3>4 DEF ReadEntry
  <2>5. CASE ReadDone(p) \/ WriteDone(p) \/ Crash(p)
    BY <1>1, <2>5 DEF Early, ReadDone, WriteDone, Crash, Goto, TypeInv
  <2>6. CASE WriteField(p)
    BY <1>1, <2>6 DEF Early, WriteField, TypeInv
  <2> QED BY <2>1, <2>2, <2>3, <2>4, <2>5, <2>6 DEF Run
<1>5. Writer(p)'
  <2>1. CASE WriteField(p)
    <3>1. PICK j \in 1..Len(Words(names[p])) : Writes(p, j)'
      BY <1>1, <1>2, <2>1, WriteFieldStep
    <3>2. j \in Nat
      <4>1. pc[p] # "idle"
        BY <2>1 DEF WriteField
      <4> QED BY <1>1, <3>1, <4>1, RunLists, FieldEnds
    <3>3. got'[p] = TableOf(names'[p])
      BY <1>2, <2>1 DEF Writer, WriteField
    <3> QED BY <3>1, <3>2, <3>3 DEF Writer
  <2>2. CASE Check(p) /\ pc'[p] = "write"
    <3> DEFINE l == names[p]
    <3>1. /\ at'[p] = 1 /\ got'[p] = TableOf(l) /\ todo'[p] = Words(l)
          /\ names' = names /\ file' = file /\ pc[p] = "check"
      BY <1>1, <2>2 DEF Check, Goto, TypeInv, Rewound, Words
    <3>2. l \in NameLists
      BY <1>1, <3>1, RunLists
    <3>3. Words(l) \in Seq(Seq(Nat)) /\ Len(Words(l)) \in Nat
      BY <3>2, FieldsAre
    <3>4. Off(l)[0] = 0
      BY <3>2, FieldEnds
    <3>5. 0 <= Len(file')
      BY <1>1, <3>1 DEF TypeInv
    <3>6. \A k \in 1..(Len(Words(l)) - 0) : todo'[p][k] = Words(l)[0 + k]
      BY <3>1, <3>3
    <3>7. Writes(p, 0)'
      BY <3>1, <3>3, <3>4, <3>5, <3>6 DEF Writes
    <3> QED BY <3>1, <3>7 DEF Writer
  <2>3. CASE ~WriteField(p) /\ ~(Check(p) /\ pc'[p] = "write")
    <3>1. pc'[p] # "write"
      BY <1>1, <2>3 DEF Run, Open, Check, ReadCount, ReadEntry, ReadDone, WriteDone, Crash, Fail, Goto, TypeInv
    <3> QED BY <3>1 DEF Writer
  <2> QED BY <2>1, <2>2, <2>3
<1>6. \A q \in Procs : (Early(q) /\ Writer(q))'
  BY <1>3, <1>4, <1>5
<1> QED BY <1>1, <1>6 DEF BaseInv

LEMMA BaseInit == Init => BaseInv
<1> SUFFICES ASSUME Init PROVE BaseInv
  OBVIOUS
<1>1. TypeInv
  <2>1. file \in Seq(Nat) /\ mode \in Modes /\ torn \in BOOLEAN /\ sawTorn \in [Procs -> BOOLEAN]
    <3>1. file = <<>> /\ mode \in Modes /\ torn = FALSE
      BY DEF Init
    <3>2. sawTorn \in [Procs -> BOOLEAN]
      BY DEF Init
    <3>3. <<>> \in Seq(Nat)
      OBVIOUS
    <3> QED BY <3>1, <3>2, <3>3, Zenon
  <2>2. pc \in [Procs -> Phases] /\ at \in [Procs -> Nat] /\ left \in [Procs -> Nat]
    BY DEF Init, Phases
  <2>3. names = [p \in Procs |-> names[p]] /\ got = [p \in Procs |-> got[p]] /\ todo = [p \in Procs |-> todo[p]]
    BY DEF Init
  <2>4. \A p \in Procs : pc[p] = "idle" /\ names[p] = Nobody
    BY DEF Init
  <2> QED BY <2>1, <2>2, <2>3, <2>4 DEF TypeInv
<1>2. \A p \in Procs : Early(p) /\ Writer(p)
  BY DEF Init, Early, Writer
<1> QED BY <1>1, <1>2 DEF BaseInv

LEMMA BaseAlways == Spec => []BaseInv
<1>1. BaseInv /\ [Next]_vars => BaseInv'
  <2> SUFFICES ASSUME BaseInv, [Next]_vars PROVE BaseInv'
    OBVIOUS
  <2>1. CASE \E p \in Procs : Run(p)
    BY <2>1, BaseStep
  <2>2. CASE UNCHANGED vars
    BY <2>2 DEF BaseInv, TypeInv, Early, Writer, Writes, vars, private
  <2> QED BY <2>1, <2>2 DEF Next, AllEnded
<1> QED BY <1>1, BaseInit, PTL DEF Spec

-----------------------------------------------------------------------------
(* Reading from a file that agrees with the names as far as e: up to its   *)
(* end, or at least as far as the fields go.                               *)

Readable(p, e) ==
  /\ e \in Nat /\ e <= Len(file) /\ (e = Len(file) \/ Last3(names[p]) <= e)
  /\ AgreesOn(names[p], file, e)

LEMMA ReadCountStep ==
  ASSUME BaseInv, NEW p \in Procs, NEW e, Readable(p, e), ReadCount(p)
  PROVE  \/ pc'[p] = "entries" /\ Read(p, 0)'
         \/ pc'[p] = "failed" /\ ~(Last3(names[p]) <= e)
<1> DEFINE l == names[p]
<1>1. /\ TypeInv /\ pc[p] = "count" /\ at[p] = 2 /\ got[p] = Empty /\ file \in Seq(Nat)
  BY DEF BaseInv, ReadCount, Early, TypeInv
<1>2. l \in NameLists
  BY <1>1, RunLists
<1>3. /\ Len(Words(l)) = 2 + 3 * Count(l) /\ Count(l) \in Nat /\ Words(l)[2] = <<Count(l)>>
  BY <1>2, FieldsAre
<1>4. Off(l)[1] = 1 /\ Off(l)[2] = 2 /\ 2 <= Last3(l) /\ Last3(l) \in Nat
  <2>1. 2 \in 0..Len(Words(l)) /\ Len(Words(l)) \in 0..Len(Words(l)) /\ 2 <= Len(Words(l))
    BY <1>3
  <2>2. Off(l)[2] <= Off(l)[Len(Words(l))] /\ Off(l)[Len(Words(l))] \in Nat
    BY <1>2, <2>1, FieldEnds
  <2> QED BY <1>2, <2>2, FieldEnds DEF Last3
<1>5. CASE ~Eof(at[p]) /\ left' = [left EXCEPT ![p] = file[at[p]]]
           /\ at' = [at EXCEPT ![p] = @ + 1] /\ Goto(p, "entries") /\ UNCHANGED got
  <2>1. 2 <= Len(file)
    BY <1>1, <1>5 DEF Eof
  <2>2. 2 <= e
    BY <1>4, <2>1 DEF Readable
  <2>3. file[2] = Count(l)
    <3>1. 2 \in 1..Len(Words(l)) /\ 1 \in 1..Len(Words(l)[2]) /\ Words(l)[2][1] = Count(l)
      BY <1>3
    <3>2. \A j \in 1..Len(Words(l)) : \A m \in 1..Len(Words(l)[j]) :
            Off(l)[j - 1] + m <= e => file[Off(l)[j - 1] + m] = Words(l)[j][m]
      BY DEF Readable, AgreesOn
    <3>3. Off(l)[2 - 1] + 1 <= e => file[Off(l)[2 - 1] + 1] = Words(l)[2][1]
      BY <3>1, <3>2
    <3>4. Off(l)[2 - 1] + 1 = 2
      BY <1>4
    <3> QED BY <2>2, <3>1, <3>3, <3>4
  <2>4. at'[p] = Off(l)[2 + 3 * 0] + 1 /\ left'[p] = Count(l) - 0
    BY <1>1, <1>3, <1>4, <1>5, <2>3, SMTT(30) DEF TypeInv
  <2>5. got'[p] = [x \in {KeyAt(l)[q] : q \in 1..0} |-> TableOf(l)[x]]
    <3>1. {KeyAt(l)[q] : q \in 1..0} = {}
      OBVIOUS
    <3>2. got'[p] = Empty
      BY <1>1, <1>5
    <3> QED BY <3>1, <3>2 DEF Empty
  <2>6. names' = names
    BY DEF ReadCount
  <2>7. pc'[p] = "entries"
    BY <1>1, <1>5 DEF Goto, TypeInv
  <2> QED BY <2>4, <2>5, <2>6, <2>7 DEF Read
<1>6. CASE Eof(at[p]) /\ Fail(p)
  <2>1. pc'[p] = "failed" /\ Len(file) < 2 /\ Len(file) \in Nat
    BY <1>1, <1>6 DEF Fail, Goto, TypeInv, Eof
  <2> QED BY <1>4, <2>1 DEF Readable
<1> QED BY <1>5, <1>6 DEF ReadCount

LEMMA ReadEntryStep ==
  ASSUME BaseInv, NEW p \in Procs, NEW e, Readable(p, e), ~TooLong(names[p]),
         NEW i \in 0..Count(names[p]), Read(p, i), ReadEntry(p)
  PROVE  \/ pc'[p] = "entries" /\ i + 1 \in 0..Count(names[p]) /\ Read(p, i + 1)'
         \/ pc'[p] = "failed" /\ ~(Last3(names[p]) <= e)
<1> DEFINE l == names[p]
           key == KeyAt(l)[i + 1]
           text == TableOf(l)[key]
           a == Off(l)[2 + 3 * i]
<1>1. TypeInv /\ pc[p] = "entries" /\ left[p] > 0 /\ file \in Seq(Nat) /\ Len(file) \in Nat
  BY DEF BaseInv, ReadEntry, TypeInv
<1>2. l \in NameLists
  BY <1>1, RunLists
<1>3. Count(l) \in Nat /\ i \in Nat /\ i < Count(l)
  BY <1>1, <1>2, FieldsAre DEF Read
<1>4. /\ text \in Seq(Nat) /\ Len(text) \in Nat /\ a \in Nat /\ Last3(l) \in Nat
      /\ Off(l)[2 + 3 * (i + 1)] = a + 2 + Len(text) /\ a + 2 + Len(text) <= Last3(l)
      /\ a + 1 <= e => file[a + 1] = key
      /\ a + 2 <= e => file[a + 2] = LenField(text)
      /\ \A m \in 1..Len(text) : a + 2 + m <= e => file[a + 2 + m] = text[m]
  <2>1. AgreesOn(l, file, e)
    BY DEF Readable
  <2>2. LET k == KeyAt(l)[i + 1]
            t == TableOf(l)[k]
            b == Off(l)[2 + 3 * i]
        IN  /\ t \in Seq(Nat) /\ Len(t) \in Nat /\ b \in Nat /\ Last3(l) \in Nat
            /\ Off(l)[2 + 3 * (i + 1)] = b + 2 + Len(t) /\ b + 2 + Len(t) <= Last3(l)
            /\ \A f, h : AgreesOn(l, f, h) =>
                 /\ b + 1 <= h => f[b + 1] = k
                 /\ b + 2 <= h => f[b + 2] = LenField(t)
                 /\ \A m \in 1..Len(t) : b + 2 + m <= h => f[b + 2 + m] = t[m]
    <3> HIDE DEF l
    <3> QED BY <1>2, <1>3, EntryPlaces
  <2> QED BY <2>1, <2>2
<1>5. LenField(text) = Len(text) /\ key \in Nat
  <2>1. PICK h \in 1..Count(l) : h = i + 1
    BY <1>3
  <2>2. LenField(TableOf(l)[KeyAt(l)[h]]) = Len(TableOf(l)[KeyAt(l)[h]]) /\ KeyAt(l)[h] \in Nat
    BY <1>2, FieldsAre
  <2> QED BY <2>1, <2>2
<1>6. at[p] = a + 1 /\ left[p] = Count(l) - i
      /\ got[p] = [x \in {KeyAt(l)[q] : q \in 1..i} |-> TableOf(l)[x]]
  BY DEF Read
<1> HIDE DEF key, text, a
<1>7. PICK w \in Nat : w = Len(text)
  BY <1>4
<1>8. e \in Nat /\ e <= Len(file) /\ (e = Len(file) \/ Last3(l) <= e)
  BY DEF Readable
<1>9. ~Eof(a + 2) => EntryEnd(at[p]) = a + 2 + w
  <2>1. ASSUME a + 2 <= Len(file) PROVE file[a + 2] = w
    <3>1. a + 2 <= e
      BY <1>4, <1>7, <1>8, <2>1
    <3> QED BY <1>4, <1>5, <1>7, <3>1
  <2>2. at[p] + 1 = a + 2
    BY <1>4, <1>6
  <2>3. ASSUME ~Eof(a + 2) PROVE EntryEnd(at[p]) = a + 2 + w
    <3>1. file[a + 2] = w
      BY <1>1, <1>4, <2>1, <2>3 DEF Eof
    <3> QED BY <2>2, <2>3, <3>1 DEF EntryEnd
  <2> QED BY <2>3
<1>10. Eof(a + 2) => EntryEnd(at[p]) = a + 2
  <2>1. at[p] + 1 = a + 2
    BY <1>4, <1>6
  <2> QED BY <2>1 DEF EntryEnd
<1>11. CASE Eof(EntryEnd(at[p])) /\ Fail(p)
  <2>1. pc'[p] = "failed"
    BY <1>1, <1>11 DEF Fail, Goto, TypeInv
  <2>2. a + 2 + w > Len(file)
    BY <1>1, <1>4, <1>7, <1>9, <1>10, <1>11 DEF Eof
  <2> QED BY <1>1, <1>4, <1>7, <1>8, <2>1, <2>2
<1>12. CASE /\ ~Eof(EntryEnd(at[p]))
            /\ LET k == file[at[p]]
                   t == SubSeq(file, at[p] + 2, EntryEnd(at[p]))
               IN  got' = [got EXCEPT ![p] = [x \in DOMAIN @ \cup {k} |-> IF x = k THEN t ELSE @[x]]]
            /\ at' = [at EXCEPT ![p] = EntryEnd(at[p]) + 1]
            /\ left' = [left EXCEPT ![p] = @ - 1]
            /\ UNCHANGED pc
  <2>1. EntryEnd(at[p]) = a + 2 + w /\ a + 2 + w <= Len(file)
    BY <1>1, <1>4, <1>9, <1>10, <1>12 DEF Eof
  <2>2. a + 2 + w <= e
    BY <1>1, <1>4, <1>7, <1>8, <2>1, SMTT(30)
  <2>3. file[at[p]] = key
    <3>1. a + 1 <= e
      BY <1>4, <1>8, <2>2
    <3> QED BY <1>4, <1>6, <3>1
  <2>4. SubSeq(file, at[p] + 2, EntryEnd(at[p])) = text
    <3> DEFINE t == SubSeq(file, at[p] + 2, EntryEnd(at[p]))
    <3>6. PICK b, n \in Nat : b = a /\ n = Len(file)
      BY <1>1, <1>4
    <3>7. b + 2 + w <= n
      BY <2>1, <3>6
    <3>8. /\ b + 3 \in Nat /\ b + 2 + w \in Nat /\ b + 2 + w - (b + 3) + 1 = w
          /\ b + 3 \in 1..(n + 1) /\ b + 2 + w \in 0..n /\ b + 3 <= b + 2 + w + 1
      BY <3>6, <3>7
    <3>1. PICK x, y \in Nat : x = a + 3 /\ y = a + 2 + w /\ y - x + 1 = w /\ x \in 1..(Len(file) + 1)
                              /\ y \in 0..Len(file) /\ x <= y + 1
      BY <3>6, <3>8
    <3>2. t = SubSeq(file, x, y)
      <4>1. at[p] + 2 = x
        BY <1>4, <1>6, <3>1
      <4> QED BY <2>1, <3>1, <4>1
    <3>3. /\ SubSeq(file, x, y) \in Seq(Nat) /\ Len(SubSeq(file, x, y)) = w
          /\ \A m \in 1..w : SubSeq(file, x, y)[m] = file[x + m - 1]
      <4>1. \A m \in x..y : file[m] \in Nat
        <5>1. ASSUME NEW m \in x..y PROVE m \in 1..Len(file)
          BY <1>1, <3>1
        <5> QED BY <1>1, <5>1
      <4>2. /\ SubSeq(file, x, y) \in Seq(Nat)
            /\ Len(SubSeq(file, x, y)) = IF x <= y THEN y - x + 1 ELSE 0
            /\ \A m \in 1..(y - x + 1) : SubSeq(file, x, y)[m] = file[x + m - 1]
        <5>1. x \in Int /\ y \in Int
          BY <3>1
        <5> QED BY <4>1, <5>1, SubSeqProperties
      <4>3. (IF x <= y THEN y - x + 1 ELSE 0) = w
        BY <3>1
      <4> QED BY <3>1, <4>2, <4>3
    <3> HIDE DEF t
    <3>4. ASSUME NEW m \in 1..w PROVE t[m] = text[m]
      <4>1. x + m - 1 = a + 2 + m /\ a + 2 + m <= e
        BY <1>4, <1>8, <2>2, <3>1
      <4> QED BY <1>4, <1>7, <3>2, <3>3, <4>1
    <3>5. t = text
      BY <1>4, <1>7, <3>2, <3>3, <3>4, SeqEqual
    <3> QED BY <3>5 DEF t
  <2>5. DOMAIN got[p] = {KeyAt(l)[q] : q \in 1..i}
    BY <1>6
  <2>6. {KeyAt(l)[q] : q \in 1..i} \cup {key} = {KeyAt(l)[q] : q \in 1..(i + 1)}
    BY <1>3 DEF key
  <2>7. got'[p] = [x \in {KeyAt(l)[q] : q \in 1..(i + 1)} |-> TableOf(l)[x]]
    <3>1. got'[p] = [x \in DOMAIN got[p] \cup {key} |-> IF x = key THEN text ELSE got[p][x]]
      BY <1>1, <1>12, <2>3, <2>4 DEF TypeInv
    <3>2. got'[p] = [x \in {KeyAt(l)[q] : q \in 1..(i + 1)} |-> IF x = key THEN text ELSE got[p][x]]
      BY <2>5, <2>6, <3>1
    <3>3. ASSUME NEW x \in {KeyAt(l)[q] : q \in 1..(i + 1)}
          PROVE  (IF x = key THEN text ELSE got[p][x]) = TableOf(l)[x]
      <4>1. x # key => x \in {KeyAt(l)[q] : q \in 1..i}
        BY <2>6
      <4> QED BY <1>6, <4>1 DEF text
    <3> QED BY <3>2, <3>3
  <2>8. at'[p] = Off(l)[2 + 3 * (i + 1)] + 1 /\ left'[p] = Count(l) - (i + 1)
    <3>1. at'[p] = a + 2 + w + 1
      BY <1>1, <1>12, <2>1 DEF TypeInv
    <3>2. left'[p] = Count(l) - i - 1
      BY <1>1, <1>6, <1>12 DEF TypeInv
    <3> QED BY <1>3, <1>4, <1>7, <3>1, <3>2
  <2>9. names' = names /\ pc'[p] = "entries"
    BY <1>1, <1>12 DEF ReadEntry
  <2>10. Read(p, i + 1)'
    BY <2>7, <2>8, <2>9 DEF Read
  <2> QED BY <1>3, <2>9, <2>10
<1> QED BY <1>11, <1>12 DEF ReadEntry

LEMMA ReadDoneStep ==
  ASSUME BaseInv, NEW p \in Procs, NEW i \in 0..Count(names[p]), Read(p, i), ReadDone(p)
  PROVE  Right(p)
<1> DEFINE l == names[p]
<1>1. TypeInv /\ pc[p] = "entries" /\ left[p] = 0
  BY DEF BaseInv, ReadDone
<1>2. l \in NameLists
  BY <1>1, RunLists
<1>3. Count(l) \in Nat /\ KeyAt(l) \in [1..Count(l) -> Keys(l)]
  BY <1>2, FieldsAre
<1>4. i = Count(l)
  BY <1>1, <1>3 DEF Read
<1>5. \A x \in Keys(l) : \E q \in 1..Count(l) : KeyAt(l)[q] = x
  BY <1>2, Tables, Enumerates DEF Count, KeyAt
<1>6. {KeyAt(l)[q] : q \in 1..Count(l)} = Keys(l)
  BY <1>3, <1>5
<1>7. got[p] = [x \in Keys(l) |-> TableOf(l)[x]]
  BY <1>4, <1>6 DEF Read
<1> QED BY <1>2, <1>7, Tables DEF Right

-----------------------------------------------------------------------------
(* Runs on one list of names, in any interleaving. *)

One(l) ==
  /\ AgreesOn(l, file, Len(file))
  /\ \A p \in Procs :
       /\ pc[p] = "entries" => \E i \in 0..Count(l) : Read(p, i)
       /\ pc[p] = "done" => Right(p)

OneInv == \A l \in mode.lists : (mode.lists = {l} /\ ~TooLong(l)) => One(l)

LEMMA OneStep ==
  ASSUME BaseInv, OneInv, NEW p \in Procs, Run(p)
  PROVE  OneInv'
<1>1. TypeInv /\ mode' = mode /\ Writer(p)
  BY Kept DEF BaseInv
<1> SUFFICES ASSUME NEW l \in mode.lists, mode.lists = {l}, ~TooLong(l)
             PROVE  One(l)'
  BY <1>1 DEF OneInv
<1>2. One(l)
  BY DEF OneInv
<1>3. \A q \in Procs : pc[q] # "idle" => names[q] = l
  BY <1>1 DEF TypeInv
<1>4. l \in NameLists /\ Len(file) \in Nat
  <2>1. mode \in Modes /\ file \in Seq(Nat)
    BY <1>1 DEF TypeInv
  <2>2. l \in NameLists
    BY <2>1, Zenon DEF NameLists
  <2> QED BY <2>1, <2>2
<1>5. AgreesOn(l, file', Len(file'))
  <2>1. CASE WriteField(p)
    <3>1. names[p] = l
      BY <1>3, <2>1 DEF WriteField
    <3>2. AgreesOn(names[p], file, Len(file)) => AgreesOn(names[p], file', Len(file'))
      BY <1>1, <2>1, WriteFieldStep
    <3> QED BY <1>2, <3>1, <3>2 DEF One
  <2>2. CASE ~WriteField(p)
    <3>1. file' = file
      BY <2>2 DEF Run, Open, Check, ReadCount, ReadEntry, ReadDone, WriteDone, Crash
    <3> QED BY <1>2, <3>1 DEF One
  <2> QED BY <2>1, <2>2
<1>6. ASSUME NEW q \in Procs, q # p
      PROVE  /\ pc'[q] = "entries" => \E i \in 0..Count(l) : Read(q, i)'
             /\ pc'[q] = "done" => Right(q)'
  <2>1. /\ pc'[q] = pc[q] /\ names'[q] = names[q] /\ got'[q] = got[q] /\ at'[q] = at[q]
        /\ left'[q] = left[q]
    BY <1>1, <1>6, Others
  <2>2. \A i : Read(q, i) => Read(q, i)'
    BY <2>1 DEF Read
  <2>3. Right(q) => Right(q)'
    BY <2>1 DEF Right
  <2>4. /\ pc[q] = "entries" => \E i \in 0..Count(l) : Read(q, i)
        /\ pc[q] = "done" => Right(q)
    BY <1>2 DEF One
  <2> QED BY <2>1, <2>2, <2>3, <2>4, Zenon
<1>7. pc[p] \in {"count", "entries"} => Readable(p, Len(file))
  <2>1. pc[p] \in {"count", "entries"} => names[p] = l
    BY <1>3
  <2> QED BY <1>2, <1>4, <2>1 DEF Readable, One
<1>8. /\ pc'[p] = "entries" => \E i \in 0..Count(l) : Read(p, i)'
      /\ pc'[p] = "done" => Right(p)'
  <2>1. CASE ReadCount(p)
    <3>1. 0 \in 0..Count(l)
      BY <1>4, FieldsAre
    <3>2. pc[p] = "count"
      BY <2>1 DEF ReadCount
    <3>3. (pc'[p] = "entries" /\ Read(p, 0)') \/ pc'[p] = "failed"
      BY <1>7, <2>1, <3>2, ReadCountStep
    <3> QED BY <3>1, <3>3
  <2>2. CASE ReadEntry(p)
    <3>1. pc[p] = "entries" /\ names[p] = l
      BY <1>3, <2>2 DEF ReadEntry
    <3>2. PICK i \in 0..Count(names[p]) : Read(p, i)
      BY <1>2, <3>1 DEF One
    <3>3. Readable(p, Len(file)) /\ ~TooLong(names[p])
      BY <1>7, <3>1
    <3>4. \/ pc'[p] = "entries" /\ i + 1 \in 0..Count(names[p]) /\ Read(p, i + 1)'
          \/ pc'[p] = "failed"
      BY <2>2, <3>2, <3>3, ReadEntryStep
    <3>5. CASE pc'[p] = "failed"
      BY <3>5
    <3>6. CASE pc'[p] = "entries" /\ i + 1 \in 0..Count(names[p]) /\ Read(p, i + 1)'
      BY <3>1, <3>6
    <3> QED BY <3>4, <3>5, <3>6
  <2>3. CASE ReadDone(p)
    <3>1. pc[p] = "entries" /\ names[p] = l
      BY <1>3, <2>3 DEF ReadDone
    <3>2. PICK i \in 0..Count(names[p]) : Read(p, i)
      BY <1>2, <3>1 DEF One
    <3>3. Right(p)
      BY <2>3, <3>2, ReadDoneStep
    <3>4. names' = names /\ got' = got /\ pc'[p] = "done"
      BY <1>1, <2>3 DEF ReadDone, private, Goto, TypeInv
    <3> QED BY <3>3, <3>4 DEF Right
  <2>4. CASE WriteDone(p)
    <3>1. got[p] = TableOf(names[p])
      BY <1>1, <2>4 DEF WriteDone, Writer
    <3>2. names' = names /\ got' = got /\ pc'[p] = "done"
      BY <1>1, <2>4 DEF WriteDone, private, Goto, TypeInv
    <3> QED BY <3>1, <3>2 DEF Right
  <2>5. CASE Open(p) \/ Check(p) \/ WriteField(p) \/ Crash(p)
    <3>1. pc'[p] \notin {"entries", "done"}
      BY <1>1, <2>5 DEF Open, Check, WriteField, Crash, Goto, TypeInv
    <3> QED BY <3>1
  <2> QED BY <2>1, <2>2, <2>3, <2>4, <2>5 DEF Run
<1>9. \A q \in Procs : /\ pc'[q] = "entries" => \E i \in 0..Count(l) : Read(q, i)'
                       /\ pc'[q] = "done" => Right(q)'
  BY <1>6, <1>8
<1> QED BY <1>5, <1>9 DEF One

(* A file without words agrees with every list. *)
LEMMA EmptyAgrees ==
  ASSUME NEW l \in NameLists, NEW f, NEW e \in Int, e <= 0
  PROVE  AgreesOn(l, f, e)
<1> SUFFICES ASSUME NEW j \in 1..Len(Words(l)), NEW m \in 1..Len(Words(l)[j]), Off(l)[j - 1] + m <= e
             PROVE  FALSE
  BY DEF AgreesOn
<1>1. j - 1 \in 0..Len(Words(l)) /\ Len(Words(l)) \in Nat
  BY FieldEnds
<1>2. Off(l)[j - 1] \in Nat
  BY <1>1, FieldEnds
<1> QED BY <1>2

(* Runs that share a new cache for the same names, none of them too long,  *)
(* end with the table of these names or fail, whatever the hashes are,     *)
(* however their reads and writes of the cache interleave, and whoever is  *)
(* killed: HashNameTable::load_from_names.                                 *)
THEOREM OneListCorrect == Spec => []FailsButNeverLies
<1>1. Init => OneInv
  <2> SUFFICES ASSUME Init, NEW l \in mode.lists PROVE One(l)
    BY DEF OneInv
  <2>1. l \in NameLists /\ file = <<>>
    BY DEF Init, NameLists
  <2>2. AgreesOn(l, file, Len(file))
    BY <2>1, EmptyAgrees
  <2>3. \A p \in Procs : pc[p] = "idle"
    BY DEF Init
  <2> QED BY <2>2, <2>3 DEF One
<1>2. BaseInv /\ OneInv /\ [Next]_vars => OneInv'
  <2> SUFFICES ASSUME BaseInv, OneInv, [Next]_vars PROVE OneInv'
    OBVIOUS
  <2>1. CASE \E p \in Procs : Run(p)
    BY <2>1, OneStep
  <2>2. CASE UNCHANGED vars
    <3>1. UNCHANGED <<mode, file, pc, names, got, at, left>>
      BY <2>2 DEF vars, private
    <3>2. \A q, i : Read(q, i) => Read(q, i)'
      BY <3>1 DEF Read
    <3>3. \A q : Right(q) => Right(q)'
      BY <3>1 DEF Right
    <3>4. ASSUME NEW l \in mode.lists, One(l) PROVE One(l)'
      BY <3>1, <3>2, <3>3, <3>4 DEF One
    <3> QED BY <3>1, <3>4 DEF OneInv
  <2> QED BY <2>1, <2>2 DEF Next, AllEnded
<1>3. OneInv => FailsButNeverLies
  BY DEF OneInv, One, FailsButNeverLies
<1> QED BY <1>1, <1>2, <1>3, BaseAlways, PTL DEF Spec

-----------------------------------------------------------------------------
(* Runs that follow one another. *)

(* The hash of the names tells apart the lists that come together.  The    *)
(* code does not ensure this: it hashes the names without their ends.      *)
HashTellsApart ==
  \A m \in Modes : \A k, l \in m.lists : NamesHash(k) = NamesHash(l) => k = l

Alone == \A p, q \in Procs : (pc[p] \in Active /\ pc[q] \in Active) => p = q

(* A cache that is not torn is new or was completed by someone. *)
WholeUnlessTorn ==
  ~torn => (file = <<>> \/ \E q \in Procs : pc[q] = "done" /\ Complete(names[q]))

Writing(p) == pc[p] = "write" => AgreesOn(names[p], file, at[p] - 1)

Completed(p) == \E q \in Procs \ {p} : names[q] = names[p] /\ pc[q] = "done"

(* Who did not see a torn cache reads what someone wrote for the same      *)
(* names, entry by entry.                                                  *)
Reading(p) ==
  (pc[p] \in {"count", "entries"} /\ ~sawTorn[p]) =>
    /\ Complete(names[p]) /\ Completed(p)
    /\ (pc[p] = "entries" /\ ~TooLong(names[p])) => \E i \in 0..Count(names[p]) : Read(p, i)

Answered(p) ==
  (pc[p] = "failed" \/ (pc[p] = "done" /\ ~Right(p))) =>
    sawTorn[p] \/ (TooLong(names[p]) /\ Completed(p))

Serial ==
  Alone /\ WholeUnlessTorn /\ \A p \in Procs : Writing(p) /\ Reading(p) /\ Answered(p)
SerialInv == ~mode.overlap => Serial

LEMMA AloneStep ==
  ASSUME BaseInv, Serial, ~mode.overlap, NEW p \in Procs, Run(p)
  PROVE  /\ \A q \in Procs : q # p => pc[q] \notin Active
         /\ Alone'
<1>1. TypeInv
  BY DEF BaseInv
<1>2. \A q \in Procs : q # p => pc[q] \notin Active
  <2>1. CASE pc[p] = "idle"
    <3>1. Open(p)
      BY <2>1 DEF Run, Check, ReadCount, ReadEntry, ReadDone, WriteField, WriteDone, Crash, Active
    <3> QED BY <3>1 DEF Open
  <2>2. CASE pc[p] # "idle"
    <3>1. pc[p] \in Active
      BY <1>1, <2>2, Kept DEF TypeInv, Phases
    <3> QED BY <3>1 DEF Serial, Alone
  <2> QED BY <2>1, <2>2
<1>3. \A q \in Procs : q # p => pc'[q] \notin Active
  BY <1>1, <1>2, Others
<1> QED BY <1>2, <1>3 DEF Alone

LEMMA CompletedStays ==
  ASSUME TypeInv, NEW p \in Procs, Run(p), NEW r \in Procs, pc[r] # "idle", Completed(r)
  PROVE  Completed(r)'
<1>1. PICK q \in Procs \ {r} : names[q] = names[r] /\ pc[q] = "done"
  BY DEF Completed
<1>2. q # p
  BY <1>1, Kept DEF Ended
<1>3. names'[q] = names[q] /\ pc'[q] = "done"
  BY <1>1, <1>2, Others
<1>4. names'[r] = names[r]
  BY Kept, Others
<1> QED BY <1>1, <1>3, <1>4 DEF Completed

(* A complete cache is readable as far as its fields go. *)
LEMMA CompleteReadable ==
  ASSUME TypeInv, NEW p \in Procs, pc[p] # "idle", Complete(names[p])
  PROVE  Readable(p, Last3(names[p])) /\ file # <<>> /\ file[1] = NamesHash(names[p])
<1> DEFINE l == names[p]
           n == Len(Words(l))
<1>1. l \in NameLists /\ file \in Seq(Nat) /\ Len(file) \in Nat
  BY RunLists DEF TypeInv
<1>2. n \in Nat /\ n >= 2 /\ Words(l)[1] = <<NamesHash(l)>>
  <2>1. Count(l) \in Nat /\ Len(Words(l)) = 2 + 3 * Count(l) /\ Words(l)[1] = <<NamesHash(l)>>
    BY <1>1, FieldsAre
  <2> QED BY <2>1
<1>3. Last3(l) \in Nat /\ 1 <= Last3(l) /\ Off(l)[0] = 0
  <2>1. 1 \in 0..n /\ n \in 0..n /\ 1 <= n
    BY <1>2
  <2>2. Off(l)[1] <= Off(l)[n] /\ Off(l)[n] \in Nat /\ Off(l)[1] = 1 /\ Off(l)[0] = 0
    BY <1>1, <2>1, FieldEnds
  <2> QED BY <2>2 DEF Last3
<1>4. Readable(p, Last3(l))
  BY <1>3 DEF Complete, Readable
<1>5. 1 <= Len(file)
  BY <1>1, <1>3 DEF Complete
<1>6. file[1] = NamesHash(l)
  <2>1. \A j \in 1..n : \A m \in 1..Len(Words(l)[j]) :
          Off(l)[j - 1] + m <= Last3(l) => file[Off(l)[j - 1] + m] = Words(l)[j][m]
    BY DEF Complete, AgreesOn
  <2>2. 1 \in 1..n /\ 1 \in 1..Len(Words(l)[1]) /\ Words(l)[1][1] = NamesHash(l)
    BY <1>2
  <2>3. Off(l)[1 - 1] + 1 <= Last3(l) => file[Off(l)[1 - 1] + 1] = Words(l)[1][1]
    BY <2>1, <2>2
  <2>4. Off(l)[1 - 1] + 1 = 1
    BY <1>3
  <2> QED BY <1>3, <2>2, <2>3, <2>4
<1> QED BY <1>1, <1>4, <1>5, <1>6

LEMMA WholeStep ==
  ASSUME BaseInv, Serial, NEW p \in Procs, Run(p)
  PROVE  WholeUnlessTorn'
<1>1. TypeInv /\ Writer(p)
  BY DEF BaseInv
<1>2. CASE WriteField(p)
  <2>1. torn' = TRUE
    BY <1>2 DEF WriteField
  <2> QED BY <2>1 DEF WholeUnlessTorn
<1>3. CASE WriteDone(p)
  <2>1. /\ pc[p] = "write" /\ todo[p] = <<>> /\ pc'[p] = "done"
        /\ UNCHANGED <<file, names>>
    BY <1>1, <1>3 DEF WriteDone, Goto, private, TypeInv
  <2>2. PICK j \in Nat : Writes(p, j)
    BY <1>1, <2>1 DEF Writer
  <2>3. names[p] \in NameLists
    BY <1>1, <2>1, RunLists
  <2>4. Len(Words(names[p])) \in Nat /\ Off(names[p])[j] \in Nat
    BY <2>2, <2>3, FieldEnds DEF Writes
  <2>5. j = Len(Words(names[p]))
    <3>1. Len(todo[p]) = 0
      BY <2>1
    <3> QED BY <2>2, <2>4, <3>1 DEF Writes
  <2>6. Last3(names[p]) = at[p] - 1 /\ Last3(names[p]) <= Len(file)
    BY <2>2, <2>4, <2>5 DEF Writes, Last3
  <2>7. AgreesOn(names[p], file, at[p] - 1)
    BY <2>1 DEF Serial, Writing
  <2>8. Complete(names[p])
    BY <2>6, <2>7 DEF Complete
  <2>9. Complete(names[p])'
    BY <2>1, <2>8 DEF Complete
  <2> QED BY <2>1, <2>9 DEF WholeUnlessTorn
<1>4. CASE ~WriteField(p) /\ ~WriteDone(p)
  <2>1. file' = file /\ torn' = torn
    BY <1>4 DEF Run, Open, Check, ReadCount, ReadEntry, ReadDone, Crash
  <2>2. ASSUME NEW q \in Procs, pc[q] = "done", Complete(names[q])
        PROVE  pc'[q] = "done" /\ Complete(names[q])'
    <3>1. q # p
      BY <1>1, <2>2, Kept DEF Ended
    <3>2. names'[q] = names[q] /\ pc'[q] = "done"
      BY <1>1, <2>2, <3>1, Others
    <3> QED BY <2>1, <2>2, <3>2 DEF Complete
  <2> QED BY <2>1, <2>2 DEF WholeUnlessTorn, Serial
<1> QED BY <1>2, <1>3, <1>4

(* Who finds the hash of the names in a cache that is not torn finds a     *)
(* cache that someone completed for the same names.                        *)
LEMMA Validated ==
  ASSUME HashTellsApart, TypeInv, Serial, ~torn,
         NEW p \in Procs, pc[p] = "check", Valid(names[p])
  PROVE  Complete(names[p]) /\ Completed(p)
<1>1. file # <<>> /\ file[1] = NamesHash(names[p])
  BY DEF Valid
<1>2. PICK q \in Procs : pc[q] = "done" /\ Complete(names[q])
  BY <1>1 DEF Serial, WholeUnlessTorn
<1>3. file[1] = NamesHash(names[q])
  BY <1>2, CompleteReadable
<1>4. names[p] \in mode.lists /\ names[q] \in mode.lists /\ mode \in Modes
  BY <1>2 DEF TypeInv
<1>5. names[q] = names[p]
  BY <1>1, <1>3, <1>4 DEF HashTellsApart
<1> QED BY <1>2, <1>5 DEF Completed

LEMMA OwnStep ==
  ASSUME HashTellsApart, BaseInv, Serial, NEW p \in Procs, Run(p)
  PROVE  (Writing(p) /\ Reading(p) /\ Answered(p))'
<1>1. TypeInv /\ Writer(p) /\ Writing(p) /\ Reading(p)
  BY DEF BaseInv, Serial
<1>2. CASE Open(p) \/ Crash(p)
  <2>1. pc'[p] \in {"check", "crashed"}
    BY <1>1, <1>2 DEF Open, Crash, Goto, TypeInv
  <2> QED BY <2>1 DEF Writing, Reading, Answered
<1>3. CASE Check(p)
  <2>1. /\ pc[p] = "check" /\ sawTorn'[p] = torn /\ file' = file /\ names' = names
        /\ pc' = [pc EXCEPT ![p] = pc'[p]]
    BY <1>1, <1>3 DEF Check, Goto, TypeInv
  <2>2. CASE Valid(names[p]) /\ pc'[p] = "count"
    <3>1. ASSUME ~torn PROVE Complete(names[p]) /\ Completed(p)
      BY <1>1, <2>1, <2>2, <3>1, Validated
    <3>2. Completed(p) => Completed(p)'
      BY <1>1, <2>1, CompletedStays
    <3>3. Complete(names[p]) => Complete(names[p])'
      BY <2>1 DEF Complete
    <3> QED BY <2>1, <2>2, <3>1, <3>2, <3>3 DEF Writing, Reading, Answered
  <2>3. CASE pc'[p] = "write" /\ at'[p] = 1
    <3>1. AgreesOn(names[p], file', at'[p] - 1)
      BY <1>1, <2>1, <2>3, RunLists, EmptyAgrees
    <3> QED BY <2>1, <2>3, <3>1 DEF Writing, Reading, Answered
  <2> QED BY <1>1, <1>3, <2>2, <2>3 DEF Check, Goto, TypeInv, Rewound
<1>4. ASSUME ReadCount(p) \/ ReadEntry(p)
      PROVE  /\ pc[p] \in {"count", "entries"} /\ UNCHANGED <<file, names, sawTorn>>
             /\ pc'[p] \in {"entries", "failed"}
             /\ ~sawTorn[p] => /\ Complete(names[p]) /\ Complete(names[p])'
                               /\ Completed(p)' /\ Readable(p, Last3(names[p]))
  <2>1. pc[p] \in {"count", "entries"} /\ UNCHANGED <<file, names, sawTorn>>
    BY <1>4 DEF ReadCount, ReadEntry
  <2>2. pc'[p] \in {"entries", "failed"}
    BY <1>1, <1>4 DEF ReadCount, ReadEntry, Goto, Fail, TypeInv
  <2>3. ASSUME ~sawTorn[p]
        PROVE  Complete(names[p]) /\ Completed(p)
    BY <1>1, <2>1, <2>3 DEF Reading
  <2>4. Completed(p) => Completed(p)'
    BY <1>1, <2>1, CompletedStays
  <2>5. Complete(names[p]) => Complete(names[p])'
    BY <2>1 DEF Complete
  <2>6. Complete(names[p]) => Readable(p, Last3(names[p]))
    BY <1>1, <2>1, CompleteReadable
  <2> QED BY <2>1, <2>2, <2>3, <2>4, <2>5, <2>6
<1>5. CASE ReadCount(p)
  <2>1. pc[p] = "count" /\ names[p] \in NameLists
    BY <1>1, <1>5, RunLists DEF ReadCount
  <2>2. 0 \in 0..Count(names[p])
    BY <2>1, FieldsAre
  <2>3. ASSUME ~sawTorn[p] PROVE pc'[p] = "entries" /\ Read(p, 0)'
    <3>1. Readable(p, Last3(names[p])) /\ Last3(names[p]) <= Last3(names[p])
      BY <1>4, <1>5, <2>3 DEF Readable
    <3> QED BY <1>5, <3>1, ReadCountStep
  <2>4. Reading(p)'
    BY <1>4, <1>5, <2>2, <2>3 DEF Reading
  <2> QED BY <1>4, <1>5, <2>3, <2>4 DEF Writing, Answered
<1>6. CASE ReadEntry(p)
  <2>1. ASSUME ~sawTorn[p], ~TooLong(names[p])
        PROVE  pc'[p] = "entries" /\ \E i \in 0..Count(names[p]) : Read(p, i)'
    <3>1. pc[p] = "entries"
      BY <1>6 DEF ReadEntry
    <3>2. PICK i \in 0..Count(names[p]) : Read(p, i)
      BY <1>1, <2>1, <3>1 DEF Reading
    <3>3. Readable(p, Last3(names[p])) /\ Last3(names[p]) <= Last3(names[p])
      BY <1>4, <1>6, <2>1 DEF Readable
    <3>4. pc'[p] = "entries" /\ i + 1 \in 0..Count(names[p]) /\ Read(p, i + 1)'
      BY <1>6, <2>1, <3>2, <3>3, ReadEntryStep
    <3> QED BY <3>4
  <2>2. Reading(p)'
    BY <1>4, <1>6, <2>1 DEF Reading
  <2>3. Answered(p)'
    BY <1>4, <1>6, <2>1 DEF Answered
  <2> QED BY <1>4, <1>6, <2>2, <2>3 DEF Writing
<1>7. CASE ReadDone(p)
  <2>1. /\ pc[p] = "entries" /\ pc'[p] = "done" /\ UNCHANGED <<file, names, got, sawTorn>>
    BY <1>1, <1>7 DEF ReadDone, Goto, private, TypeInv
  <2>2. ASSUME ~sawTorn[p], ~TooLong(names[p]) PROVE Right(p)'
    <3>1. PICK i \in 0..Count(names[p]) : Read(p, i)
      BY <1>1, <2>1, <2>2 DEF Reading
    <3>2. Right(p)
      BY <1>7, <3>1, ReadDoneStep
    <3> QED BY <2>1, <3>2 DEF Right
  <2>3. ~sawTorn[p] => Completed(p)'
    BY <1>1, <2>1, CompletedStays DEF Reading
  <2> QED BY <2>1, <2>2, <2>3 DEF Writing, Reading, Answered
<1>8. CASE WriteDone(p)
  <2>1. pc[p] = "write" /\ pc'[p] = "done" /\ UNCHANGED <<names, got>>
    BY <1>1, <1>8 DEF WriteDone, Goto, private, TypeInv
  <2>2. Right(p)'
    BY <1>1, <2>1 DEF Right, Writer
  <2> QED BY <2>1, <2>2 DEF Writing, Reading, Answered
<1>9. CASE WriteField(p)
  <2>1. pc[p] = "write" /\ pc' = pc /\ names' = names
    BY <1>9 DEF WriteField
  <2>2. AgreesOn(names[p], file', at'[p] - 1)
    BY <1>1, <1>9, <2>1, WriteFieldStep DEF Writing
  <2> QED BY <2>1, <2>2 DEF Writing, Reading, Answered
<1> QED BY <1>2, <1>3, <1>5, <1>6, <1>7, <1>8, <1>9 DEF Run

LEMMA SerialStep ==
  ASSUME HashTellsApart, BaseInv, SerialInv, NEW p \in Procs, Run(p)
  PROVE  SerialInv'
<1>1. TypeInv /\ mode' = mode
  BY Kept DEF BaseInv
<1> SUFFICES ASSUME ~mode.overlap PROVE Serial'
  BY <1>1 DEF SerialInv
<1>2. Serial
  BY DEF SerialInv
<1>3. ASSUME NEW q \in Procs, q # p
      PROVE  (Writing(q) /\ Reading(q) /\ Answered(q))'
  <2>1. /\ pc'[q] = pc[q] /\ names'[q] = names[q] /\ got'[q] = got[q] /\ sawTorn'[q] = sawTorn[q]
        /\ pc[q] \notin Active
    BY <1>1, <1>2, <1>3, AloneStep, Others
  <2>2. Completed(q) /\ pc[q] # "idle" => Completed(q)'
    BY <1>1, CompletedStays
  <2>3. Right(q) => Right(q)'
    BY <2>1 DEF Right
  <2>4. Answered(q)
    BY <1>2 DEF Serial
  <2>5. Answered(q)'
    BY <2>1, <2>2, <2>3, <2>4 DEF Answered
  <2>6. pc'[q] \notin {"write", "count", "entries"}
    BY <2>1 DEF Active
  <2> QED BY <2>5, <2>6 DEF Writing, Reading
<1>4. \A q \in Procs : (Writing(q) /\ Reading(q) /\ Answered(q))'
  BY <1>2, <1>3, OwnStep
<1>5. Alone' /\ WholeUnlessTorn'
  BY <1>2, AloneStep, WholeStep
<1> QED BY <1>4, <1>5 DEF Serial

LEMMA SerialAlways ==
  ASSUME HashTellsApart
  PROVE  Spec => [](BaseInv /\ SerialInv)
<1>1. Init => SerialInv
  <2> SUFFICES ASSUME Init PROVE Serial
    BY DEF SerialInv
  <2>1. file = <<>> /\ \A p \in Procs : pc[p] = "idle"
    BY DEF Init
  <2> QED BY <2>1 DEF Serial, Alone, WholeUnlessTorn, Writing, Reading, Answered, Active
<1>2. BaseInv /\ SerialInv /\ [Next]_vars => SerialInv'
  <2> SUFFICES ASSUME BaseInv, SerialInv, [Next]_vars PROVE SerialInv'
    OBVIOUS
  <2>1. CASE \E p \in Procs : Run(p)
    BY <2>1, SerialStep
  <2>2. CASE UNCHANGED vars
    <3>1. UNCHANGED <<mode, file, pc, names, got, at, left, sawTorn, torn>>
      BY <2>2 DEF vars, private
    <3>2. \A q : (Completed(q) <=> Completed(q)') /\ (Right(q) <=> Right(q)')
                 /\ (Complete(names[q]) <=> Complete(names[q])')
      BY <3>1 DEF Completed, Right, Complete
    <3>3. \A q, i : Read(q, i) => Read(q, i)'
      BY <3>1 DEF Read
    <3>4. Serial => Serial'
      <4>1. Alone => Alone'
        BY <3>1 DEF Alone
      <4>2. WholeUnlessTorn => WholeUnlessTorn'
        BY <3>1, <3>2 DEF WholeUnlessTorn
      <4>3. ASSUME NEW q \in Procs, Writing(q), Reading(q), Answered(q)
            PROVE  (Writing(q) /\ Reading(q) /\ Answered(q))'
        <5>1. Writing(q)'
          BY <3>1, <4>3 DEF Writing
        <5>2. Reading(q)'
          BY <3>1, <3>2, <3>3, <4>3 DEF Reading
        <5>3. Answered(q)'
          BY <3>1, <3>2, <4>3 DEF Answered
        <5> QED BY <5>1, <5>2, <5>3
      <4> QED BY <4>1, <4>2, <4>3 DEF Serial
    <3> QED BY <3>1, <3>4 DEF SerialInv
  <2> QED BY <2>1, <2>2 DEF Next, AllEnded
<1> QED BY <1>1, <1>2, BaseAlways, PTL DEF Spec

(* Among runs that follow one another, and hash their names apart, only    *)
(* who met a torn cache, or a name that is too long in a cache that        *)
(* someone else completed, is given a wrong table or fails:                *)
(* HashNameTable::load_from_names.                                         *)
THEOREM SerialCorrect ==
  ASSUME HashTellsApart
  PROVE  Spec => []WrongOnlyIfTornOrTooLong
<1>1. BaseInv /\ SerialInv => WrongOnlyIfTornOrTooLong
  <2> SUFFICES ASSUME Serial, NEW p \in Procs, pc[p] = "failed" \/ (pc[p] = "done" /\ ~Right(p))
               PROVE  \/ sawTorn[p]
                      \/ /\ TooLong(names[p])
                         /\ \E q \in Procs \ {p} : names[q] = names[p] /\ pc[q] = "done"
    BY DEF SerialInv, WrongOnlyIfTornOrTooLong
  <2>1. Answered(p)
    BY DEF Serial
  <2> QED BY <2>1 DEF Answered, Completed
<1> QED BY <1>1, SerialAlways, PTL

-----------------------------------------------------------------------------
(* Runs that follow one another and complete. *)

(* A cache is torn only while someone writes it. *)
Untorn ==
  /\ torn => \E p \in Procs : pc[p] = "write"
  /\ \A p \in Procs : ~sawTorn[p]
QuietInv == (~mode.overlap /\ ~mode.crashes) => Untorn

LEMMA QuietStep ==
  ASSUME BaseInv, SerialInv, QuietInv, NEW p \in Procs, Run(p)
  PROVE  QuietInv'
<1>1. TypeInv /\ mode' = mode
  BY Kept DEF BaseInv
<1> SUFFICES ASSUME ~mode.overlap, ~mode.crashes PROVE Untorn'
  BY <1>1 DEF QuietInv
<1>2. Untorn /\ Serial
  BY DEF QuietInv, SerialInv
<1>3. \A q \in Procs : q # p => pc[q] \notin Active /\ sawTorn'[q] = sawTorn[q] /\ pc'[q] = pc[q]
  BY <1>1, <1>2, AloneStep, Others
<1>4. torn => pc[p] = "write"
  BY <1>2, <1>3 DEF Untorn, Active
<1>5. CASE Check(p)
  <2>1. pc[p] = "check" /\ sawTorn'[p] = torn /\ torn' = torn
    BY <1>1, <1>5 DEF Check, TypeInv
  <2> QED BY <1>2, <1>3, <1>4, <2>1 DEF Untorn
<1>6. CASE WriteField(p)
  <2>1. pc[p] = "write" /\ pc' = pc /\ sawTorn' = sawTorn
    BY <1>6 DEF WriteField
  <2> QED BY <1>2, <2>1 DEF Untorn
<1>7. CASE WriteDone(p)
  <2>1. torn' = FALSE /\ sawTorn' = sawTorn
    BY <1>7 DEF WriteDone, private
  <2> QED BY <1>2, <2>1 DEF Untorn
<1>8. CASE Open(p) \/ ReadCount(p) \/ ReadEntry(p) \/ ReadDone(p)
  <2>1. pc[p] # "write" /\ torn' = torn /\ sawTorn' = sawTorn
    BY <1>8 DEF Open, ReadCount, ReadEntry, ReadDone, private
  <2> QED BY <1>2, <1>4, <2>1 DEF Untorn
<1>9. CASE Crash(p)
  BY <1>9 DEF Crash
<1> QED BY <1>5, <1>6, <1>7, <1>8, <1>9 DEF Run

(* Then loading names through the cache is the same as building the table  *)
(* every time: every step of a run is a step of NameService, or none.      *)
THEOREM TransparentCorrect ==
  ASSUME HashTellsApart
  PROVE  Spec => Transparent
<1> DEFINE ask == [p \in Procs |-> IF Quiet THEN names[p] ELSE Nobody]
           answer(p) == IF ~Quiet THEN Nobody
                        ELSE IF pc[p] = "done" THEN got[p]
                        ELSE IF pc[p] = "failed" THEN Failure ELSE Nobody
           ans == [p \in Procs |-> answer(p)]
           Inv == BaseInv /\ SerialInv /\ QuietInv
<1>1. Init => Service!Init /\ QuietInv
  <2> SUFFICES ASSUME Init PROVE Service!Init /\ QuietInv
    OBVIOUS
  <2>1. \A p \in Procs : names[p] = Nobody /\ pc[p] = "idle" /\ ~sawTorn[p]
    BY DEF Init
  <2>2. file = <<>> /\ torn = FALSE
    BY DEF Init
  <2>3. Service!Init
    BY <2>1 DEF Service!Init
  <2>4. QuietInv
    BY <2>1, <2>2 DEF QuietInv, Untorn
  <2> QED BY <2>3, <2>4
<1>2. ASSUME Inv, Inv', NEW p \in Procs, Run(p)
      PROVE  [Service!Next]_<<ask, ans>>
  <2>1. TypeInv /\ TypeInv' /\ mode' = mode
    BY <1>2, Kept DEF BaseInv
  <2>2. Quiet' = Quiet
    BY <2>1 DEF Quiet, TooLong
  <2>3. CASE ~Quiet
    BY <2>2, <2>3
  <2>4. ASSUME Quiet, NEW q \in Procs
        PROVE  /\ pc[q] # "failed" /\ (pc[q] = "done" => got[q] = TableOf(names[q]))
               /\ pc'[q] # "failed" /\ (pc'[q] = "done" => got'[q] = TableOf(names'[q]))
    <3>1. Serial /\ Untorn /\ Serial' /\ Untorn'
      BY <1>2, <2>1, <2>4 DEF Quiet, SerialInv, QuietInv
    <3>2. ~TooLong(names[q]) \/ pc[q] = "idle"
      BY <2>1, <2>4 DEF Quiet, TypeInv
    <3>3. ~TooLong(names'[q]) \/ pc'[q] = "idle"
      BY <2>1, <2>4 DEF Quiet, TypeInv
    <3>4. Answered(q) /\ ~sawTorn[q]
      BY <3>1 DEF Serial, Untorn
    <3>5. Answered(q)' /\ ~sawTorn'[q]
      BY <3>1 DEF Serial, Untorn
    <3>6. pc[q] # "failed" /\ (pc[q] = "done" => got[q] = TableOf(names[q]))
      BY <3>2, <3>4 DEF Answered, Right
    <3>7. TooLong(names[q])' <=> TooLong(names'[q])
      BY DEF TooLong
    <3>8. pc'[q] # "failed" /\ (pc'[q] = "done" => got'[q] = TableOf(names'[q]))
      BY <3>3, <3>5, <3>7 DEF Answered, Right
    <3> QED BY <3>6, <3>8
  <2>5. ASSUME Quiet, NEW q \in Procs, q # p
        PROVE  names'[q] = names[q] /\ answer(q)' = answer(q)
    <3>1. names'[q] = names[q] /\ pc'[q] = pc[q] /\ got'[q] = got[q]
      BY <1>2, <2>1, <2>5, Others
    <3> QED BY <2>2, <2>5, <3>1
  <2>6. ASSUME Quiet
        PROVE  /\ ask = [q \in Procs |-> names[q]] /\ ask' = [q \in Procs |-> names'[q]]
               /\ ans = [q \in Procs |-> answer(q)] /\ ans' = [q \in Procs |-> answer(q)']
    BY <2>2, <2>6
  <2>7. pc'[p] # "idle" /\ pc[p] \notin Ended
    BY <1>2, <2>1, Kept
  <2>8. CASE Quiet /\ pc[p] = "idle"
    <3>1. Open(p)
      BY <1>2, <2>8 DEF Run, Check, ReadCount, ReadEntry, ReadDone, WriteField, WriteDone, Crash, Active
    <3>2. PICK l \in mode.lists : names' = [names EXCEPT ![p] = l]
      BY <3>1 DEF Open
    <3>3. pc'[p] = "check" /\ names[p] = Nobody
      BY <2>1, <2>8, <3>1 DEF Open, Goto, TypeInv
    <3>4. l \in NameLists
      <4>1. mode \in Modes
        BY <2>1 DEF TypeInv
      <4> QED BY <4>1, Zenon DEF NameLists
    <3>5. answer(p)' = answer(p)
      BY <2>2, <2>8, <3>3
    <3>6. ans' = ans
      BY <2>5, <2>6, <2>8, <3>5
    <3>7. ask' = [ask EXCEPT ![p] = l]
      BY <2>1, <2>6, <2>8, <3>2 DEF TypeInv
    <3>8. ask[p] = Nobody
      BY <2>6, <2>8, <3>3
    <3>9. Service!Ask(p)
      BY <3>4, <3>6, <3>7, <3>8 DEF Service!Ask
    <3> QED BY <3>9 DEF Service!Next
  <2>9. CASE Quiet /\ pc[p] # "idle"
    <3>1. names'[p] = names[p] /\ names[p] # Nobody /\ ask' = ask
      <4>1. names'[p] = names[p] /\ names[p] # Nobody
        BY <1>2, <2>1, <2>9, Kept, RunLists
      <4> QED BY <2>5, <2>6, <2>9, <4>1
    <3>2. answer(p) = Nobody
      BY <2>7, <2>9 DEF Ended
    <3>3. CASE pc'[p] = "done"
      <4>1. answer(p)' = TableOf(names[p])
        BY <2>2, <2>4, <2>9, <3>1, <3>3
      <4>2. ans' = [ans EXCEPT ![p] = TableOf(ask[p])]
        <5>1. ask[p] = names[p]
          BY <2>6, <2>9
        <5> QED BY <2>5, <2>6, <2>9, <4>1, <5>1
      <4>3. ask[p] # Nobody /\ ans[p] = Nobody
        BY <2>6, <2>9, <3>1, <3>2
      <4>4. Service!Answer(p)
        BY <3>1, <4>2, <4>3 DEF Service!Answer
      <4> QED BY <4>4 DEF Service!Next
    <3>4. CASE pc'[p] # "done"
      <4>1. answer(p)' = Nobody
        BY <2>2, <2>4, <2>9, <3>4
      <4>2. ans' = ans
        BY <2>5, <2>6, <2>9, <3>2, <4>1
      <4> QED BY <3>1, <4>2
    <3> QED BY <3>3, <3>4
  <2> QED BY <2>3, <2>8, <2>9
<1>3. Inv /\ Inv' /\ [Next]_vars => [Service!Next]_<<ask, ans>>
  <2> SUFFICES ASSUME Inv, Inv', [Next]_vars PROVE [Service!Next]_<<ask, ans>>
    OBVIOUS
  <2>1. CASE UNCHANGED vars
    BY <2>1 DEF vars, private, Quiet, TooLong
  <2> QED BY <1>2, <2>1 DEF Next, AllEnded
<1>4. BaseInv /\ SerialInv /\ QuietInv /\ [Next]_vars => QuietInv'
  <2> SUFFICES ASSUME BaseInv, SerialInv, QuietInv, [Next]_vars PROVE QuietInv'
    OBVIOUS
  <2>1. CASE UNCHANGED vars
    BY <2>1 DEF vars, private, QuietInv, Untorn
  <2> QED BY <2>1, QuietStep DEF Next, AllEnded
<1>5. Spec => [](BaseInv /\ SerialInv)
  BY SerialAlways
<1> HIDE DEF ask, ans
<1> QED BY <1>1, <1>3, <1>4, <1>5, PTL DEF Spec, Transparent, Service!Spec, Inv, ask, ans
=============================================================================
