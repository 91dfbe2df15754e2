---------------------------- MODULE Tables_proofs ----------------------------
(***************************************************************************)
(* Proofs about the label index (NameMap), and about those who use it:     *)
(* tables in memory (TableAccess), for all labels, limits and lengths, and *)
(* the diff command (TableDiff), for all files, tables and names.          *)
(***************************************************************************)
EXTENDS TableAccess, TableDiff, ProofBasics

(* A label index: its entries are in strictly ascending order.             *)
Pair == [label : Nat, pos : Nat \ {0}]
Sorted(map) ==
  /\ map \in Seq(Pair)
  /\ \A i, j \in 1..Len(map) : i < j => map[i].label < map[j].label

(* It indexes the first n labels of a list: it has no other label, all     *)
(* of these, and, if they are distinct, each with its place in the list.   *)
Distinct(labels, n) == \A i, j \in 1..n : i # j => labels[i] # labels[j]
Indexes(map, labels, n) ==
  /\ Sorted(map)
  /\ \A i \in 1..Len(map) : \E q \in 1..n : labels[q] = map[i].label
  /\ \A q \in 1..n : \E i \in 1..Len(map) : map[i].label = labels[q]
  /\ Distinct(labels, n) =>
       /\ Len(map) = n
       /\ \A i \in 1..Len(map) : map[i].pos \in 1..n /\ labels[map[i].pos] = map[i].label

LEMMA Pairs ==
  ASSUME NEW map, Sorted(map)
  PROVE  /\ Len(map) \in Nat /\ DOMAIN map = 1..Len(map) /\ map \in Seq(Pair)
         /\ \A i \in 1..Len(map) : map[i].label \in Nat /\ map[i].pos \in Nat \ {0}
<1>1. map \in Seq(Pair)
  BY DEF Sorted
<1>2. \A i \in 1..Len(map) : map[i] \in Pair
  BY <1>1
<1>3. \A x \in Pair : x.label \in Nat /\ x.pos \in Nat \ {0}
  BY DEF Pair
<1> QED BY <1>1, <1>2, <1>3

(* The entries with smaller labels come first, up to the place.            *)
LEMMA PlaceSplits ==
  ASSUME NEW map, Sorted(map), NEW l \in Nat
  PROVE  /\ Place(map, l) \in 1..(Len(map) + 1)
         /\ \A i \in 1..Len(map) : i < Place(map, l) <=> map[i].label < l
<1> DEFINE T == {n \in 1..(Len(map) + 1) : n <= Len(map) => map[n].label >= l}
<1>1. Len(map) \in Nat /\ DOMAIN map = 1..Len(map)
      /\ \A i \in 1..Len(map) : map[i].label \in Nat
  BY Pairs
<1>2. Len(map) + 1 \in T /\ T \subseteq Nat
  BY <1>1
<1>3. PICK p \in T : \A n \in T : p <= n
  <2> HIDE DEF T
  <2> QED BY <1>2, NatMin
<1>4. \A i \in 1..Len(map) : i < p <=> map[i].label < l
  <2> SUFFICES ASSUME NEW i \in 1..Len(map)
               PROVE  i < p <=> map[i].label < l
    OBVIOUS
  <2>1. CASE i < p
    BY <1>1, <1>3, <2>1
  <2>2. CASE i = p
    BY <1>1, <1>3, <2>2
  <2>3. CASE i > p
    <3>1. p \in 1..Len(map) /\ map[p].label >= l
      BY <1>1, <1>3, <2>3
    <3>2. map[p].label < map[i].label
      BY <2>3, <3>1 DEF Sorted
    <3> QED BY <1>1, <2>3, <3>1, <3>2
  <2> QED BY <1>1, <1>3, <2>1, <2>2, <2>3
<1>5. {i \in DOMAIN map : map[i].label < l} = 1..(p - 1)
  BY <1>1, <1>3, <1>4
<1>6. p \in Nat /\ p - 1 \in Nat
  BY <1>1, <1>3
<1> HIDE DEF T
<1>7. Cardinality(1..(p - 1)) = p - 1
  BY <1>6, FS_Interval
<1>8. Place(map, l) = p
  <2>1. Cardinality({i \in DOMAIN map : map[i].label < l}) = p - 1
    BY <1>5, <1>7, Zenon
  <2> QED BY <1>6, <2>1 DEF Place
<1> QED BY <1>2, <1>3, <1>4, <1>8 DEF T

(* What push makes of an index. *)
LEMMA PushKeeps ==
  ASSUME NEW map, Sorted(map), NEW l \in Nat
  PROVE  /\ Sorted(Push(map, l))
         /\ (\E i \in 1..Len(map) : map[i].label = l) => Push(map, l) = map
         /\ ~(\E i \in 1..Len(map) : map[i].label = l) =>
              /\ Len(Push(map, l)) = Len(map) + 1
              /\ \E at \in 1..(Len(map) + 1) :
                   Push(map, l) = InsertAt(map, at, [label |-> l, pos |-> Len(map) + 1])
<1>1. Len(map) \in Nat /\ DOMAIN map = 1..Len(map)
      /\ map \in Seq(Pair) /\ \A i \in 1..Len(map) : map[i].label \in Nat
  BY Pairs
<1>2. CASE \E i \in 1..Len(map) : map[i].label = l
  <2>1. Push(map, l) = map
    BY <1>1, <1>2 DEF Push, Found
  <2> QED BY <1>2, <2>1
<1>3. CASE ~ \E i \in 1..Len(map) : map[i].label = l
  <2> DEFINE e == [label |-> l, pos |-> Len(map) + 1]
             at == Place(map, l)
             new == InsertAt(map, at, e)
  <2>1. Push(map, l) = new
    BY <1>1, <1>3 DEF Push, Found
  <2>2. e \in Pair /\ e.label = l
    BY <1>1 DEF Pair
  <2>3. at \in 1..(Len(map) + 1) /\ \A i \in 1..Len(map) : i < at <=> map[i].label < l
    BY PlaceSplits
  <2> HIDE DEF e, at
  <2>4. /\ new \in Seq(Pair) /\ Len(new) = Len(map) + 1
        /\ \A j \in 1..(Len(map) + 1) :
             new[j] = IF j < at THEN map[j] ELSE IF j = at THEN e ELSE map[j - 1]
    BY <1>1, <2>2, <2>3, InsertedAt, SMTT(30)
  <2> HIDE DEF new
  <2>5. ASSUME NEW i \in 1..Len(new), NEW j \in 1..Len(new), i < j
        PROVE  new[i].label < new[j].label
    <3>1. CASE j < at
      BY <1>1, <2>3, <2>4, <2>5, <3>1 DEF Sorted
    <3>2. CASE j = at
      BY <1>1, <2>2, <2>3, <2>4, <2>5, <3>2
    <3>3. CASE j > at /\ i < at
      <4>1. new[i] = map[i] /\ new[j] = map[j - 1] /\ i \in 1..Len(map) /\ j - 1 \in 1..Len(map)
        BY <1>1, <2>3, <2>4, <2>5, <3>3
      <4>2. i < j - 1 \/ i = j - 1
        BY <1>1, <2>3, <2>4, <2>5
      <4>3. map[i].label < l /\ ~(map[j - 1].label < l)
        BY <1>1, <2>3, <2>4, <3>3, <4>1
      <4> QED BY <1>1, <4>1, <4>3
    <3>4. CASE j > at /\ i = at
      <4>1. new[i] = e /\ new[j] = map[j - 1] /\ j - 1 \in 1..Len(map)
        BY <1>1, <2>3, <2>4, <2>5, <3>4
      <4>2. ~(map[j - 1].label < l) /\ map[j - 1].label # l
        BY <1>1, <1>3, <2>3, <2>4, <3>4, <4>1
      <4> QED BY <1>1, <2>2, <4>1, <4>2
    <3>5. CASE j > at /\ i > at
      <4>1. new[i] = map[i - 1] /\ new[j] = map[j - 1] /\ j - 1 \in 1..Len(map)
            /\ i - 1 \in 1..Len(map)
        BY <1>1, <2>3, <2>4, <2>5, <3>5
      <4> QED BY <1>1, <2>4, <2>5, <4>1 DEF Sorted
    <3> QED BY <1>1, <2>3, <2>4, <3>1, <3>2, <3>3, <3>4, <3>5
  <2>6. Sorted(new)
    BY <2>4, <2>5 DEF Sorted
  <2> QED BY <1>3, <2>1, <2>3, <2>4, <2>6 DEF new, e
<1> QED BY <1>2, <1>3
(* Pushing the next label of a list. *)
LEMMA PushIndexes ==
  ASSUME NEW map, NEW old, NEW labels, NEW n \in Nat,
         Indexes(map, old, n), labels[n + 1] \in Nat,
         \A q \in 1..n : labels[q] = old[q]
  PROVE  Indexes(Push(map, labels[n + 1]), labels, n + 1)
<1> DEFINE l == labels[n + 1]
           new == Push(map, l)
<1>1. Sorted(map) /\ Len(map) \in Nat /\ map \in Seq(Pair)
      /\ \A i \in 1..Len(map) : map[i].label \in Nat
  BY Pairs DEF Indexes
<1>2. \A i \in 1..Len(map) : \E q \in 1..n : labels[q] = map[i].label
  BY DEF Indexes
<1>3. \A q \in 1..n : \E i \in 1..Len(map) : map[i].label = labels[q]
  BY DEF Indexes
<1>4. Distinct(labels, n + 1) => Distinct(old, n) /\ \A q \in 1..n : labels[q] # l
  BY DEF Distinct
<1>5. Sorted(new)
  BY <1>1, PushKeeps
<1> HIDE DEF new
<1>6. CASE \E i \in 1..Len(map) : map[i].label = l
  <2>1. new = map
    BY <1>1, <1>6, PushKeeps DEF new
  <2>2. ~Distinct(labels, n + 1)
    BY <1>2, <1>4, <1>6
  <2>3. \A q \in 1..(n + 1) : \E i \in 1..Len(map) : map[i].label = labels[q]
    BY <1>3, <1>6
  <2>4. \A i \in 1..Len(map) : \E q \in 1..(n + 1) : labels[q] = map[i].label
    BY <1>2
  <2> QED BY <1>5, <2>1, <2>2, <2>3, <2>4 DEF Indexes, new
<1>7. CASE ~ \E i \in 1..Len(map) : map[i].label = l
  <2> DEFINE e == [label |-> l, pos |-> Len(map) + 1]
  <2>1. PICK at \in 1..(Len(map) + 1) : new = InsertAt(map, at, e)
    BY <1>1, <1>7, PushKeeps DEF new
  <2>2. e \in Pair /\ e.label = l /\ e.pos = Len(map) + 1
    BY <1>1 DEF Pair
  <2> HIDE DEF e
  <2>3. /\ Len(new) = Len(map) + 1
        /\ \A j \in 1..(Len(map) + 1) :
             new[j] = IF j < at THEN map[j] ELSE IF j = at THEN e ELSE map[j - 1]
    BY <1>1, <2>1, <2>2, InsertedAt, SMTT(30)
  <2>4. \A j \in 1..Len(new) : new[j] = e \/ \E i \in 1..Len(map) : new[j] = map[i]
    <3> SUFFICES ASSUME NEW j \in 1..Len(new)
                 PROVE  new[j] = e \/ \E i \in 1..Len(map) : new[j] = map[i]
      OBVIOUS
    <3>1. CASE j < at
      BY <1>1, <2>1, <2>3, <3>1
    <3>2. CASE j = at
      BY <1>1, <2>1, <2>3, <3>2
    <3>3. CASE j > at
      <4>1. j - 1 \in 1..Len(map) /\ new[j] = map[j - 1]
        BY <1>1, <2>1, <2>3, <3>3
      <4> QED BY <4>1
    <3> QED BY <1>1, <2>1, <2>3, <3>1, <3>2, <3>3
  <2>5. \A i \in 1..Len(map) : \E j \in 1..Len(new) : new[j] = map[i]
    <3> SUFFICES ASSUME NEW i \in 1..Len(map)
                 PROVE  \E j \in 1..Len(new) : new[j] = map[i]
      OBVIOUS
    <3>1. CASE i < at
      BY <1>1, <2>3, <3>1
    <3>2. CASE i >= at
      <4>1. i + 1 \in 1..Len(new) /\ new[i + 1] = map[i + 1 - 1]
        BY <1>1, <2>1, <2>3, <3>2
      <4> QED BY <1>1, <4>1
    <3> QED BY <1>1, <2>1, <3>1, <3>2
  <2>6. at \in 1..Len(new) /\ new[at] = e
    BY <1>1, <2>1, <2>3
  <2>7. \A j \in 1..Len(new) : \E q \in 1..(n + 1) : labels[q] = new[j].label
    BY <1>2, <2>2, <2>4
  <2>8. \A q \in 1..(n + 1) : \E j \in 1..Len(new) : new[j].label = labels[q]
    <3> SUFFICES ASSUME NEW q \in 1..(n + 1)
                 PROVE  \E j \in 1..Len(new) : new[j].label = labels[q]
      OBVIOUS
    <3>1. CASE q \in 1..n
      BY <1>3, <2>5, <3>1
    <3>2. CASE q = n + 1
      BY <2>2, <2>6, <3>2
    <3> QED BY <3>1, <3>2
  <2>9. ASSUME Distinct(labels, n + 1)
        PROVE  /\ Len(new) = n + 1
               /\ \A j \in 1..Len(new) :
                    new[j].pos \in 1..(n + 1) /\ labels[new[j].pos] = new[j].label
    <3>1. /\ Len(map) = n
          /\ \A i \in 1..Len(map) : map[i].pos \in 1..n /\ old[map[i].pos] = map[i].label
      BY <1>4, <2>9 DEF Indexes
    <3>2. \A i \in 1..Len(map) : map[i].pos \in 1..n /\ labels[map[i].pos] = map[i].label
      BY <3>1
    <3>3. Len(new) = n + 1
      BY <2>3, <3>1
    <3>4. ASSUME NEW j \in 1..Len(new)
          PROVE  new[j].pos \in 1..(n + 1) /\ labels[new[j].pos] = new[j].label
      <4>1. CASE new[j] = e
        BY <2>2, <3>1, <4>1
      <4>2. CASE \E i \in 1..Len(map) : new[j] = map[i]
        BY <3>2, <4>2
      <4> QED BY <2>4, <4>1, <4>2
    <3> QED BY <3>3, <3>4
  <2> QED BY <1>5, <2>7, <2>8, <2>9 DEF Indexes, new
<1> QED BY <1>6, <1>7 DEF new

LEMMA EmptyIndex == \A labels : Indexes(<<>>, labels, 0)
  BY DEF Indexes, Sorted

(* The function that Collect is defined by exists: it can be built from    *)
(* the one for a label less.                                               *)
IsCollected(f, labels, n) ==
  f = [m \in 0..n |-> IF m = 0 THEN <<>> ELSE Push(f[m - 1], labels[m])]

LEMMA CollectedExists ==
  ASSUME NEW labels, NEW n \in Nat
  PROVE  \E f : IsCollected(f, labels, n)
<1> DEFINE T == {m \in Nat : ~ \E f : IsCollected(f, labels, m)}
<1> SUFFICES ASSUME T # {} PROVE FALSE
  OBVIOUS
<1>1. PICK m \in T : \A i \in T : m <= i
  <2>1. T \subseteq Nat
    OBVIOUS
  <2> HIDE DEF T
  <2> QED BY <2>1, NatMin
<1>2. CASE m = 0
  <2> DEFINE f == [i \in 0..0 |-> <<>>]
  <2>1. IsCollected(f, labels, 0)
    BY DEF IsCollected
  <2> QED BY <1>1, <1>2, <2>1
<1>3. CASE m # 0
  <2>1. m - 1 \in Nat /\ m - 1 \notin T
    BY <1>1, <1>3
  <2>2. PICK g : IsCollected(g, labels, m - 1)
    BY <2>1
  <2> DEFINE f == [i \in 0..m |-> IF i = m THEN Push(g[m - 1], labels[m]) ELSE g[i]]
  <2>3. ASSUME NEW i \in 0..m
        PROVE  f[i] = IF i = 0 THEN <<>> ELSE Push(f[i - 1], labels[i])
    <3>1. CASE i = m
      BY <1>3, <2>1, <3>1
    <3>2. CASE i # m
      <4>1. i \in 0..(m - 1) /\ (i # 0 => i - 1 \in 0..(m - 1) /\ i - 1 # m)
        BY <2>1, <3>2
      <4>2. g[i] = IF i = 0 THEN <<>> ELSE Push(g[i - 1], labels[i])
        BY <2>2, <4>1 DEF IsCollected
      <4> QED BY <3>2, <4>1, <4>2
    <3> QED BY <3>1, <3>2
  <2>4. f = [i \in 0..m |-> f[i]]
    OBVIOUS
  <2>5. IsCollected(f, labels, m)
    <3> HIDE DEF f
    <3> QED BY <2>3, <2>4 DEF IsCollected
  <2> QED BY <1>1, <2>5
<1> QED BY <1>2, <1>3

(* Collect makes an index of its labels. *)
LEMMA CollectIndexes ==
  ASSUME NEW labels \in Seq(Nat)
  PROVE  Indexes(Collect(labels), labels, Len(labels))
<1> DEFINE f == CHOOSE f : IsCollected(f, labels, Len(labels))
           T == {n \in 0..Len(labels) : ~Indexes(f[n], labels, n)}
<1>1. Len(labels) \in Nat
  OBVIOUS
<1>2. IsCollected(f, labels, Len(labels))
  BY <1>1, CollectedExists
<1>3. Collect(labels) = f[Len(labels)]
  BY DEF Collect, IsCollected
<1> HIDE DEF f
<1>4. /\ f[0] = <<>>
      /\ \A n \in 1..Len(labels) : f[n] = Push(f[n - 1], labels[n])
  <2>1. \A n \in 0..Len(labels) :
          f[n] = IF n = 0 THEN <<>> ELSE Push(f[n - 1], labels[n])
    BY <1>2 DEF IsCollected
  <2> QED BY <1>1, <2>1
<1>5. T = {}
  <2> SUFFICES ASSUME T # {} PROVE FALSE
    OBVIOUS
  <2>1. PICK n \in T : \A i \in T : n <= i
    <3>1. T \subseteq Nat
      OBVIOUS
    <3> HIDE DEF T
    <3> QED BY <3>1, NatMin
  <2>2. n # 0
    BY <1>4, <2>1, EmptyIndex
  <2>3. n \in 1..Len(labels) /\ n - 1 \in Nat /\ n - 1 \in 0..Len(labels) /\ n - 1 \notin T
    BY <1>1, <2>1, <2>2
  <2>4. Indexes(f[n - 1], labels, n - 1)
    BY <2>3
  <2>5. labels[n] \in Nat /\ n - 1 + 1 = n
    BY <2>3
  <2>6. Indexes(Push(f[n - 1], labels[n]), labels, n)
    BY <2>3, <2>4, <2>5, PushIndexes
  <2> QED BY <1>4, <2>1, <2>3, <2>6
<1> QED BY <1>1, <1>3, <1>5

(* What a lookup answers. *)
LEMMA Positions ==
  ASSUME NEW map, Sorted(map), NEW l
  PROVE  \/ Position(map, l) = 0 /\ \A i \in 1..Len(map) : map[i].label # l
         \/ \E i \in 1..Len(map) : map[i].label = l /\ Position(map, l) = map[i].pos
                                  /\ Position(map, l) # 0
<1>1. DOMAIN map = 1..Len(map) /\ \A i \in 1..Len(map) : map[i].pos # 0
  BY Pairs
<1>2. CASE Found(map, l) = {}
  BY <1>1, <1>2 DEF Found, Position
<1>3. CASE Found(map, l) # {}
  <2> DEFINE i == CHOOSE j \in Found(map, l) : TRUE
  <2>1. i \in Found(map, l)
    BY <1>3
  <2>2. Position(map, l) = map[i].pos
    BY <1>3 DEF Position
  <2> QED BY <1>1, <2>1, <2>2 DEF Found
<1> QED BY <1>2, <1>3

-----------------------------------------------------------------------------
(* The inductive invariant.  Calls that change labels behind the back of   *)
(* the index, or hashes behind that of the hash map, are noted; until then *)
(* both say what the columns and rows do.                                  *)
LabelsOf(cols) == [i \in DOMAIN cols |-> cols[i].label]

Shapes ==
  /\ kind \in {"legacy", "modern"} /\ columns \in Seq(Column) /\ rows \in Seq(Row)
  /\ base \in Nat
IndexInv ==
  /\ Sorted(labelMap)
  /\ ~relabelled => Indexes(labelMap, LabelsOf(columns), Len(columns))
IdsInv == (phase = "table" /\ kind = "legacy") => FitsLegacy(base, rows)
HashInv == (phase = "table" /\ kind = "modern" /\ ~replaced) => hashIds = IdMap(base, rows)

IInv == Shapes /\ IndexInv /\ IdsInv /\ HashInv

LEMMA Limits == U16Max \in Nat /\ U32Max \in Nat /\ U16Max <= U32Max /\ Labels \subseteq Nat
  BY AccessAssumption, NameMapAssumption DEF AccessAssumption, NameMapAssumption

LEMMA LabelLists ==
  ASSUME NEW cols \in Seq(Column)
  PROVE  /\ LabelsOf(cols) \in Seq(Nat) /\ Len(LabelsOf(cols)) = Len(cols)
         /\ \A i \in 1..Len(cols) : LabelsOf(cols)[i] = cols[i].label /\ cols[i].label \in Nat
         /\ Indexes(IndexOf(cols), LabelsOf(cols), Len(cols))
<1>1. \A c \in Column : c.label \in Nat
  BY Limits DEF Column
<1>2. \A i \in 1..Len(cols) : cols[i] \in Column
  OBVIOUS
<1>3. LabelsOf(cols) \in Seq(Nat) /\ Len(LabelsOf(cols)) = Len(cols)
      /\ \A i \in 1..Len(cols) : LabelsOf(cols)[i] = cols[i].label /\ cols[i].label \in Nat
  BY <1>1, <1>2 DEF LabelsOf
<1>4. IndexOf(cols) = Collect(LabelsOf(cols))
  BY DEF IndexOf, LabelsOf
<1> QED BY <1>3, <1>4, CollectIndexes

LEMMA AccessInit == Init => IInv
<1> SUFFICES ASSUME Init PROVE IInv
  OBVIOUS
<1>1. Indexes(<<>>, LabelsOf(columns), 0) /\ Len(columns) = 0
  BY EmptyIndex DEF Init
<1>2. IndexInv
  BY <1>1 DEF Init, IndexInv, Indexes
<1> QED BY <1>2 DEF Init, IInv, Shapes, IdsInv, HashInv

LEMMA ColumnsKinds == ColumnOf(kind) \subseteq Column /\ RowOf(kind) \subseteq Row
  BY DEF ColumnOf, RowOf, Row, Column

(* The calls of a builder. *)
LEMMA BuilderKeeps ==
  ASSUME IInv, AddColumn \/ SetColumns \/ AddRow \/ SetRows \/ SetBaseId
  PROVE  IInv'
<1> USE DEF IInv
<1>1. phase' = phase /\ phase = "builder" /\ kind' = kind
  BY DEF AddColumn, SetColumns, AddRow, SetRows, SetBaseId
<1>2. IdsInv' /\ HashInv'
  BY <1>1 DEF IdsInv, HashInv
<1>3. CASE AddColumn
  <2>1. PICK c \in ColumnOf(kind) :
          columns' = Append(columns, c) /\ labelMap' = Push(labelMap, c.label)
    BY <1>3 DEF AddColumn
  <2>2. c \in Column /\ c.label \in Nat
    BY ColumnsKinds, Limits DEF Column
  <2>3. columns' \in Seq(Column) /\ Len(columns') = Len(columns) + 1
        /\ columns'[Len(columns) + 1] = c /\ \A i \in 1..Len(columns) : columns'[i] = columns[i]
    BY <2>1, <2>2 DEF Shapes
  <2>4. Sorted(labelMap')
    BY <2>1, <2>2, PushKeeps DEF IndexInv
  <2>5. ASSUME ~relabelled
        PROVE  Indexes(labelMap', LabelsOf(columns'), Len(columns'))
    <3> DEFINE n == Len(columns)
               labels == LabelsOf(columns')
    <3>1. n \in Nat /\ Indexes(labelMap, LabelsOf(columns), n)
      BY <2>5 DEF IndexInv, Shapes
    <3>2. labels[n + 1] = c.label
      BY <2>3, <3>1, LabelLists
    <3>3. \A q \in 1..n : labels[q] = LabelsOf(columns)[q]
      <4>1. \A q \in 1..Len(columns') : labels[q] = columns'[q].label
        BY <2>3, LabelLists
      <4>2. \A q \in 1..n : LabelsOf(columns)[q] = columns[q].label
        BY LabelLists DEF Shapes
      <4> QED BY <2>3, <3>1, <4>1, <4>2
    <3> HIDE DEF labels, n
    <3>4. Indexes(Push(labelMap, labels[n + 1]), labels, n + 1)
      BY <2>2, <3>1, <3>2, <3>3, PushIndexes
    <3> QED BY <2>1, <2>3, <3>2, <3>4 DEF labels, n
  <2>6. relabelled' = relabelled /\ UNCHANGED <<base, rows>>
    BY <1>3 DEF AddColumn
  <2> QED BY <1>1, <1>2, <2>3, <2>4, <2>5, <2>6 DEF Shapes, IndexInv
<1>4. CASE SetColumns
  <2>1. PICK cs \in ColumnLists : columns' = cs /\ labelMap' = IndexOf(cs)
    BY <1>4 DEF SetColumns
  <2>2. cs \in Seq(Column)
    BY AccessAssumption DEF AccessAssumption
  <2>3. Indexes(labelMap', LabelsOf(columns'), Len(columns'))
    BY <2>1, <2>2, LabelLists
  <2>4. UNCHANGED <<base, rows>>
    BY <1>4 DEF SetColumns
  <2> QED BY <1>1, <1>2, <2>1, <2>2, <2>3, <2>4 DEF Shapes, IndexInv, Indexes
<1>5. CASE AddRow \/ SetRows \/ SetBaseId
  <2>1. UNCHANGED <<columns, labelMap, relabelled>>
    BY <1>5 DEF AddRow, SetRows, SetBaseId
  <2>2. rows' \in Seq(Row) /\ base' \in Nat
    <3>1. CASE AddRow
      <4>1. PICK r \in RowOf(kind) : rows' = Append(rows, r)
        BY <3>1 DEF AddRow
      <4>2. r \in Row
        BY ColumnsKinds
      <4> QED BY <3>1, <4>1, <4>2 DEF Shapes, AddRow
    <3>2. CASE SetRows
      BY <3>2, AccessAssumption DEF SetRows, AccessAssumption, Shapes
    <3>3. CASE SetBaseId
      BY <3>3, Limits DEF SetBaseId, IdMax, Shapes
    <3> QED BY <1>5, <3>1, <3>2, <3>3
  <2> QED BY <1>1, <1>2, <2>1, <2>2 DEF Shapes, IndexInv
<1> QED BY <1>3, <1>4, <1>5

(* Building a table and taking it apart. *)
LEMMA BuildKeeps ==
  ASSUME IInv, BuildModern \/ BuildLegacy \/ IntoBuilder
  PROVE  IInv'
<1>1. UNCHANGED <<kind, columns, labelMap, base, rows, relabelled>>
  BY DEF BuildModern, BuildLegacy, IntoBuilder
<1>2. IdsInv' /\ HashInv'
  <2>1. CASE BuildModern
    BY <1>1, <2>1 DEF BuildModern, NewModern, IdsInv, HashInv
  <2>2. CASE BuildLegacy
    BY <1>1, <2>2 DEF BuildLegacy, IdsInv, HashInv, FitsLegacy
  <2>3. CASE IntoBuilder
    BY <2>3 DEF IntoBuilder, IdsInv, HashInv
  <2> QED BY <2>1, <2>2, <2>3
<1> QED BY <1>1, <1>2 DEF IInv, Shapes, IndexInv

(* Changes to a table: only those of labels and hashes matter, and they    *)
(* are noted.                                                              *)
LEMMA ChangeKeeps ==
  ASSUME IInv, Relabel \/ ReplaceRow
  PROVE  IInv'
<1>1. CASE Relabel
  <2>1. PICK i \in DOMAIN columns, c \in ColumnOf(kind) :
          /\ columns' = ReplaceAt(columns, i, c)
          /\ relabelled' = (relabelled \/ c.label # columns[i].label)
    BY <1>1 DEF Relabel
  <2>2. UNCHANGED <<kind, phase, labelMap, base, rows, hashIds, replaced>>
    BY <1>1 DEF Relabel
  <2>3. columns' \in Seq(Column) /\ Len(columns') = Len(columns)
        /\ \A q \in 1..Len(columns) : columns'[q] = IF q = i THEN c ELSE columns[q]
    BY <2>1, ColumnsKinds, ExceptSeq DEF IInv, Shapes, ReplaceAt
  <2>4. ~relabelled' => ~relabelled /\ LabelsOf(columns') = LabelsOf(columns)
    <3>1. ~relabelled' => \A q \in 1..Len(columns) : columns'[q].label = columns[q].label
      BY <2>1, <2>3
    <3>2. DOMAIN columns = 1..Len(columns) /\ DOMAIN columns' = 1..Len(columns)
      BY <2>3 DEF IInv, Shapes
    <3> QED BY <2>1, <3>1, <3>2 DEF LabelsOf
  <2>5. IdsInv' /\ HashInv'
    BY <2>2 DEF IInv, IdsInv, HashInv
  <2>6. IndexInv'
    BY <2>2, <2>3, <2>4 DEF IInv, IndexInv
  <2> QED BY <2>2, <2>3, <2>5, <2>6 DEF IInv, Shapes
<1>2. CASE ReplaceRow
  <2>1. PICK i \in DOMAIN rows, r \in RowOf(kind) :
          /\ rows' = ReplaceAt(rows, i, r)
          /\ replaced' = (replaced \/ r.hash # rows[i].hash)
    BY <1>2 DEF ReplaceRow
  <2>2. UNCHANGED <<kind, phase, columns, labelMap, base, hashIds, relabelled>>
    BY <1>2 DEF ReplaceRow
  <2>3. rows' \in Seq(Row) /\ Len(rows') = Len(rows)
        /\ \A q \in 1..Len(rows) : rows'[q] = IF q = i THEN r ELSE rows[q]
    BY <2>1, ColumnsKinds, ExceptSeq DEF IInv, Shapes, ReplaceAt
  <2>4. IdsInv'
    BY <2>2, <2>3 DEF IInv, IdsInv, FitsLegacy
  <2>5. ~replaced' => ~replaced /\ IdMap(base, rows') = IdMap(base, rows)
    <3>1. DOMAIN rows = 1..Len(rows) /\ DOMAIN rows' = 1..Len(rows)
      BY <2>3 DEF IInv, Shapes
    <3>2. ~replaced' => \A q \in 1..Len(rows) : rows'[q].hash = rows[q].hash
      BY <2>1, <2>3
    <3>3. ~replaced' => HashesOf(rows') = HashesOf(rows)
      BY <3>1, <3>2 DEF HashesOf
    <3>4. ~replaced' => \A h : RowWith(rows', h) = RowWith(rows, h)
      BY <3>1, <3>2 DEF RowWith
    <3> QED BY <2>1, <3>3, <3>4 DEF IdMap
  <2>6. HashInv'
    BY <2>2, <2>5 DEF IInv, HashInv
  <2>7. IndexInv'
    BY <2>2 DEF IInv, IndexInv
  <2> QED BY <2>2, <2>3, <2>4, <2>6, <2>7 DEF IInv, Shapes
<1> QED BY <1>1, <1>2

(* Conversions make the index anew. *)
LEMMA ConversionKeeps ==
  ASSUME IInv, (\E nameIsString \in BOOLEAN : ConvertToLegacy(nameIsString)) \/ ConvertToModern
  PROVE  IInv'
<1>1. UNCHANGED <<columns, base, rows>>
  BY DEF ConvertToLegacy, ConvertToModern
<1>2. Indexes(IndexOf(columns), LabelsOf(columns), Len(columns))
  BY LabelLists DEF IInv, Shapes
<1>3. IndexInv'
  <2>1. \/ labelMap' = IndexOf(columns)
        \/ labelMap' = labelMap /\ relabelled' = relabelled
    BY DEF ConvertToLegacy, ConvertToModern
  <2>2. CASE labelMap' = IndexOf(columns)
    BY <1>1, <1>2, <2>2 DEF IndexInv, Indexes
  <2>3. CASE labelMap' = labelMap /\ relabelled' = relabelled
    BY <1>1, <2>3 DEF IInv, IndexInv
  <2> QED BY <2>1, <2>2, <2>3
<1>4. IdsInv' /\ HashInv' /\ kind' \in {"legacy", "modern"}
  <2>1. CASE \E nameIsString \in BOOLEAN : ConvertToLegacy(nameIsString)
    BY <1>1, <2>1 DEF ConvertToLegacy, IInv, Shapes, IdsInv, HashInv, FitsLegacy
  <2>2. CASE ConvertToModern
    BY <1>1, <2>2 DEF ConvertToModern, NewModern, IInv, Shapes, IdsInv, HashInv
  <2> QED BY <2>1, <2>2
<1> QED BY <1>1, <1>3, <1>4 DEF IInv, Shapes

LEMMA AccessStep == IInv /\ [Next]_vars => IInv'
<1> SUFFICES ASSUME IInv, [Next]_vars PROVE IInv'
  OBVIOUS
<1>1. CASE UNCHANGED vars
  BY <1>1 DEF vars, IInv, Shapes, IndexInv, IdsInv, HashInv
<1>2. CASE Next
  BY <1>1, <1>2, BuilderKeeps, BuildKeeps, ChangeKeeps, ConversionKeeps, Zenon DEF Next, Stop
<1> QED BY <1>1, <1>2

LEMMA AccessInv == Spec => []IInv
  BY AccessInit, AccessStep, PTL DEF Spec
-----------------------------------------------------------------------------
(* Whatever calls are made, the label index stays in order, so that it can *)
(* be bisected, and answers every lookup with the column of that label, or *)
(* with none only if there is none (ColumnMap, NameMap).                   *)
THEOREM ColumnLookup == Spec => []LookupFindsColumn
<1>1. IInv => LookupFindsColumn
  <2> SUFFICES ASSUME IInv PROVE LookupFindsColumn
    OBVIOUS
  <2>1. Sorted(labelMap) /\ DOMAIN labelMap = 1..Len(labelMap)
        /\ DOMAIN columns = 1..Len(columns) /\ Len(columns) \in Nat
    BY Pairs DEF IInv, IndexInv, Shapes
  <2>2. \A i, j \in DOMAIN labelMap : i < j => labelMap[i].label < labelMap[j].label
    BY <2>1 DEF Sorted
  <2>3. ASSUME DistinctLabels, ~relabelled, NEW l \in Labels
        PROVE  LET p == Position(labelMap, l)
               IN  IF p = 0 THEN \A i \in DOMAIN columns : columns[i].label # l
                   ELSE p \in DOMAIN columns /\ columns[p].label = l
    <3> DEFINE labels == LabelsOf(columns)
    <3>1. \A i \in 1..Len(columns) : labels[i] = columns[i].label
      BY LabelLists DEF IInv, Shapes
    <3>2. Distinct(labels, Len(columns))
      BY <2>1, <2>3, <3>1 DEF DistinctLabels, Distinct
    <3>3. Indexes(labelMap, labels, Len(columns))
      BY <2>3 DEF IInv, IndexInv
    <3> HIDE DEF labels
    <3>4. CASE Position(labelMap, l) = 0
      <4>1. \A i \in 1..Len(labelMap) : labelMap[i].label # l
        BY <2>1, <3>4, Positions
      <4>2. \A i \in DOMAIN columns : columns[i].label # l
        <5> SUFFICES ASSUME NEW i \in 1..Len(columns), columns[i].label = l PROVE FALSE
          BY <2>1
        <5>1. \E j \in 1..Len(labelMap) : labelMap[j].label = labels[i]
          BY <3>3 DEF Indexes
        <5> QED BY <3>1, <4>1, <5>1
      <4> QED BY <3>4, <4>2
    <3>5. CASE Position(labelMap, l) # 0
      <4>1. PICK i \in 1..Len(labelMap) :
              labelMap[i].label = l /\ Position(labelMap, l) = labelMap[i].pos
        BY <2>1, <3>5, Positions
      <4>2. labelMap[i].pos \in 1..Len(columns) /\ labels[labelMap[i].pos] = labelMap[i].label
        BY <3>2, <3>3 DEF Indexes
      <4>3. Position(labelMap, l) \in DOMAIN columns /\ columns[Position(labelMap, l)].label = l
        BY <2>1, <3>1, <4>1, <4>2
      <4> QED BY <3>5, <4>3
    <3> QED BY <3>4, <3>5
  <2> QED BY <2>2, <2>3 DEF LookupFindsColumn
<1> QED BY <1>1, AccessInv, PTL

(* The id of a row, as long as it does not wrap. *)
LEMMA Ids ==
  ASSUME IInv, base + Len(rows) - 1 <= U32Max, NEW i \in DOMAIN rows
  PROVE  IdOf(base, i) = base + i - 1 /\ GetRow(base + i - 1) = i
<1>1. i \in 1..Len(rows) /\ base \in Nat /\ Len(rows) \in Nat
  BY DEF IInv, Shapes
<1>2. base + i - 1 \in 0..U32Max
  BY <1>1, Limits
<1>3. IdOf(base, i) = base + i - 1
  BY <1>2, Limits DEF IdOf
<1> QED BY <1>1, <1>3 DEF GetRow

LEMMA IdsFit ==
  ASSUME IInv, phase = "table", kind = "modern" => base + Len(rows) - 1 <= U32Max
  PROVE  base + Len(rows) - 1 <= U32Max /\ base + Len(rows) - 1 <= IdMax
<1>1. base \in Nat /\ Len(rows) \in Nat
  BY DEF IInv, Shapes
<1> QED BY <1>1, Limits DEF IInv, Shapes, IdsInv, FitsLegacy, IdMax

(* The ids rows() hands out are those get_row finds the rows by, for every *)
(* base id and any number of rows, as far as the last id exists.           *)
THEOREM RowsById == Spec => []RowIdsResolve
<1>1. IInv => RowIdsResolve
  <2> SUFFICES ASSUME IInv, phase = "table",
                      kind = "modern" => base + Len(rows) - 1 <= U32Max,
                      NEW i \in DOMAIN rows
               PROVE  IdOf(base, i) <= IdMax /\ GetRow(IdOf(base, i)) = i
    BY DEF RowIdsResolve
  <2>1. i \in 1..Len(rows) /\ base \in Nat /\ Len(rows) \in Nat /\ IdMax \in Nat
    BY Limits DEF IInv, Shapes, IdMax
  <2>2. IdOf(base, i) = base + i - 1 /\ GetRow(base + i - 1) = i
    BY Ids, IdsFit
  <2>3. base + i - 1 <= IdMax
    BY <2>1, IdsFit
  <2> QED BY <2>2, <2>3
<1> QED BY <1>1, AccessInv, PTL

(* A row is found by its hash, and nothing is found for a hash no row has, *)
(* until rows_mut changes one.                                             *)
THEOREM HashLookup == Spec => []HashFindsRow
<1>1. IInv => HashFindsRow
  <2> SUFFICES ASSUME IInv, phase = "table", kind = "modern", ~replaced,
                      base + Len(rows) - 1 <= U32Max, NEW h \in Hashes
               PROVE  LET i == GetRowByHash(h)
                      IN  IF i = 0 THEN h \notin HashesOf(rows) ELSE rows[i].hash = h
    BY DEF HashFindsRow
  <2>1. hashIds = IdMap(base, rows)
    BY DEF IInv, HashInv
  <2>2. DOMAIN rows = 1..Len(rows)
    BY DEF IInv, Shapes
  <2>3. CASE h \in HashesOf(rows)
    <3> DEFINE i == RowWith(rows, h)
    <3>1. i \in DOMAIN rows /\ rows[i].hash = h
      BY <2>3 DEF HashesOf, RowWith
    <3>2. h \in DOMAIN hashIds /\ hashIds[h] = IdOf(base, i)
      BY <2>1, <2>3 DEF IdMap
    <3> HIDE DEF i
    <3>3. GetRow(IdOf(base, i)) = i
      BY <3>1, Ids
    <3> QED BY <2>2, <3>1, <3>2, <3>3 DEF GetRowByHash
  <2>4. CASE h \notin HashesOf(rows)
    BY <2>1, <2>4 DEF GetRowByHash, IdMap
  <2> QED BY <2>3, <2>4
<1> QED BY <1>1, AccessInv, PTL

(* A conversion between the formats, in either direction, leaves every row *)
(* under its id and every column under its label.                          *)
THEOREM ConversionIds == Spec => ConversionKeepsIds
<1>1. IInv /\ IInv' /\ [Next]_vars =>
        [(kind' # kind /\ phase' = "table") =>
           /\ \A i \in DOMAIN rows : GetRow(IdOf(base, i))' = i
           /\ \A i \in DOMAIN columns : Position(labelMap', columns[i].label) # 0]_vars
  <2> SUFFICES ASSUME IInv, IInv', Next, kind' # kind, phase' = "table"
               PROVE  /\ \A i \in DOMAIN rows : GetRow(IdOf(base, i))' = i
                      /\ \A i \in DOMAIN columns : Position(labelMap', columns[i].label) # 0
    OBVIOUS
  <2>1. (\E nameIsString \in BOOLEAN : ConvertToLegacy(nameIsString)) \/ ConvertToModern
    BY DEF Next, AddColumn, SetColumns, AddRow, SetRows, SetBaseId, BuildModern, BuildLegacy,
           Relabel, ReplaceRow, IntoBuilder, Stop, vars
  <2>2. UNCHANGED <<columns, base, rows>> /\ labelMap' = IndexOf(columns)
    BY <2>1 DEF ConvertToLegacy, ConvertToModern
  <2>3. base + Len(rows) <= U16Max
    BY <2>1 DEF ConvertToLegacy, ConvertToModern, IInv, IdsInv, FitsLegacy, Shapes
  <2>4. base \in Nat /\ Len(rows) \in Nat
    BY DEF IInv, Shapes
  <2>5. ASSUME NEW i \in DOMAIN rows
        PROVE  GetRow(IdOf(base, i))' = i
    <3>1. base + Len(rows) - 1 <= U32Max
      BY <2>3, <2>4, Limits
    <3>2. GetRow(IdOf(base, i)) = i
      BY <2>5, <3>1, Ids
    <3> QED BY <2>2, <3>2 DEF GetRow, IdOf
  <2>6. ASSUME NEW i \in DOMAIN columns
        PROVE  Position(labelMap', columns[i].label) # 0
    <3>1. Indexes(labelMap', LabelsOf(columns), Len(columns)) /\ i \in 1..Len(columns)
          /\ LabelsOf(columns)[i] = columns[i].label
      BY <2>2, LabelLists DEF IInv, Shapes
    <3>2. PICK j \in 1..Len(labelMap') : labelMap'[j].label = columns[i].label
      BY <3>1 DEF Indexes
    <3>3. Sorted(labelMap')
      BY <3>1 DEF Indexes
    <3> DEFINE map == labelMap'
    <3>4. Sorted(map) /\ map[j].label = columns[i].label /\ j \in 1..Len(map)
      BY <3>2, <3>3
    <3> HIDE DEF map
    <3>5. Position(map, columns[i].label) # 0
      BY <3>4, Positions
    <3> QED BY <3>5 DEF map
  <2> QED BY <2>5, <2>6
<1> QED BY <1>1, AccessInv, AccessStep, PTL DEF Spec, ConversionKeepsIds

-----------------------------------------------------------------------------
(* A table as it is in a file, and what the command makes of it.           *)
IsTable(u) ==
  /\ u \in FileTable
  /\ \A i \in 1..Len(u.rows) : Len(u.rows[i]) = Len(u.columns)
Loaded(u) == ConvertAll(input.names, ReadTable(u))

LEMMA InputIs ==
  ASSUME input \in Inputs
  PROVE  /\ input.files \in Seq(File)
         /\ \A i \in 1..Len(input.files) :
              /\ input.files[i].new \in BOOLEAN /\ input.files[i].readable \in BOOLEAN
              /\ input.files[i].tables \in Seq(FileTable)
              /\ \A k \in 1..Len(input.files[i].tables) : IsTable(input.files[i].tables[k])
         /\ \A h \in DOMAIN input.names : input.names[h] \in Labels \ DOMAIN input.names
<1>1. PICK files, names : files = input.files /\ names = input.names
  OBVIOUS
<1>2. /\ files \in Seq(File)
      /\ \A h \in DOMAIN names : names[h] \in Labels \ DOMAIN names
      /\ \A f \in ToSet(files) : \A t \in ToSet(f.tables) : \A r \in ToSet(t.rows) :
           Len(r) = Len(t.columns)
  BY <1>1, DiffAssumption DEF DiffAssumption
<1>3. ASSUME NEW i \in 1..Len(files)
      PROVE  /\ files[i].new \in BOOLEAN /\ files[i].readable \in BOOLEAN
             /\ files[i].tables \in Seq(FileTable)
             /\ \A k \in 1..Len(files[i].tables) : IsTable(files[i].tables[k])
  <2>1. files[i] \in File /\ files[i] \in ToSet(files)
    BY <1>2 DEF ToSet
  <2>2. /\ files[i].new \in BOOLEAN /\ files[i].readable \in BOOLEAN
        /\ files[i].tables \in Seq(FileTable)
    BY <2>1 DEF File
  <2>3. ASSUME NEW k \in 1..Len(files[i].tables) PROVE IsTable(files[i].tables[k])
    <3>1. PICK t : t = files[i].tables[k]
      OBVIOUS
    <3>2. t \in FileTable /\ t \in ToSet(files[i].tables)
      BY <2>2, <3>1 DEF ToSet
    <3>3. t.rows \in Seq(Seq(Values))
      BY <3>2 DEF FileTable
    <3>4. ASSUME NEW n \in 1..Len(t.rows) PROVE Len(t.rows[n]) = Len(t.columns)
      <4>1. t.rows[n] \in ToSet(t.rows)
        BY <3>3 DEF ToSet
      <4> QED BY <1>2, <2>1, <3>2, <4>1
    <3> QED BY <3>1, <3>2, <3>4 DEF IsTable
  <2> QED BY <2>2, <2>3
<1> QED BY <1>1, <1>2, <1>3

LEMMA TableIs ==
  ASSUME NEW u, IsTable(u)
  PROVE  /\ u.name \in Labels /\ u.modern \in BOOLEAN /\ u.base \in Nat
         /\ u.columns \in Seq(Labels) /\ u.columns \in Seq(Nat)
         /\ Len(u.columns) \in Nat /\ DOMAIN u.columns = 1..Len(u.columns)
         /\ Len(u.rows) \in Nat /\ DOMAIN u.rows = 1..Len(u.rows)
         /\ \A i \in 1..Len(u.rows) :
              /\ u.rows[i] \in Seq(Values) /\ Len(u.rows[i]) = Len(u.columns)
              /\ \A k \in 1..Len(u.columns) : u.rows[i][k] \in Values
<1>1. /\ u.name \in Labels /\ u.modern \in BOOLEAN /\ u.base \in Nat
      /\ u.columns \in Seq(Labels) /\ u.rows \in Seq(Seq(Values))
  BY DEF IsTable, FileTable
<1>2. u.columns \in Seq(Nat)
  <2>1. Labels \subseteq Nat
    BY NameMapAssumption DEF NameMapAssumption
  <2>2. Seq(Labels) \subseteq Seq(Nat)
    <3> SUFFICES ASSUME NEW q \in Seq(Labels) PROVE q \in Seq(Nat)
      OBVIOUS
    <3>1. \A k \in 1..Len(q) : q[k] \in Nat
      <4>1. \A k \in 1..Len(q) : q[k] \in Labels
        OBVIOUS
      <4> QED BY <2>1, <4>1
    <3>2. q \in [1..Len(q) -> Nat] /\ Len(q) \in Nat
      BY <3>1
    <3> QED BY <3>2
  <2> QED BY <1>1, <2>2
<1>3. \A i \in 1..Len(u.rows) : u.rows[i] \in Seq(Values) /\ Len(u.rows[i]) = Len(u.columns)
  BY <1>1 DEF IsTable
<1> QED BY <1>1, <1>2, <1>3

(* Its columns have the labels that the user gave names, in their order;   *)
(* its index is that of the labels in the file.                            *)
LEMMA LoadedIs ==
  ASSUME NEW u, IsTable(u)
  PROVE  /\ Loaded(u).name = NameIn(u) /\ Loaded(u).base = u.base /\ Loaded(u).rows = u.rows
         /\ Loaded(u).index = Collect(u.columns)
         /\ Loaded(u).columns = [k \in 1..Len(u.columns) |-> LabelIn(u, k)]
         /\ ToSet(Loaded(u).columns) = {LabelIn(u, k) : k \in 1..Len(u.columns)}
<1> DEFINE t == ReadTable(u)
           cols == [k \in 1..Len(u.columns) |-> LabelIn(u, k)]
           v == Loaded(u)
<1>1. t = [name |-> u.name, modern |-> u.modern, columns |-> u.columns,
           index |-> Collect(u.columns), base |-> u.base, rows |-> u.rows]
  BY DEF ReadTable
<1>2. /\ u.columns \in Seq(Labels) /\ u.modern \in BOOLEAN
      /\ DOMAIN u.columns = 1..Len(u.columns)
  BY TableIs
<1>3. /\ t.name = u.name /\ t.modern = u.modern /\ t.columns = u.columns
      /\ t.index = Collect(u.columns) /\ t.base = u.base /\ t.rows = u.rows
  <2> HIDE DEF t
  <2> QED BY ONLY <1>1
<1>4. /\ v.name = NameIn(u) /\ v.base = u.base /\ v.rows = u.rows
      /\ v.index = Collect(u.columns) /\ v.columns = cols
  <2>1. CASE ~u.modern
    <3>1. v = t
      BY <1>3, <2>1 DEF Loaded, ConvertAll
    <3>2. NameIn(u) = u.name
      BY <2>1 DEF NameIn
    <3>3. u.columns = cols
      BY <1>2, <2>1 DEF LabelIn
    <3> QED BY <1>3, <3>1, <3>2, <3>3
  <2>2. CASE u.modern
    <3>1. PICK name, columns1 : /\ name = Unhash(input.names, u.name)
                                /\ columns1 = [k \in 1..Len(u.columns) |-> Unhash(input.names, u.columns[k])]
      OBVIOUS
    <3>2. v = [t EXCEPT !.name = name, !.columns = columns1]
      BY <1>2, <1>3, <2>2, <3>1 DEF Loaded, ConvertAll
    <3>3. v = [[t EXCEPT !.name = name] EXCEPT !.columns = columns1]
      <4> HIDE DEF t, v
      <4> QED BY ONLY <1>1, <3>2
    <3>4. /\ v.name = name /\ v.columns = columns1 /\ v.base = t.base /\ v.rows = t.rows
          /\ v.index = t.index
      <4> HIDE DEF t, v
      <4>1. PICK w : w = [t EXCEPT !.name = name]
        OBVIOUS
      <4>2. w = [name |-> name, modern |-> u.modern, columns |-> u.columns,
                 index |-> Collect(u.columns), base |-> u.base, rows |-> u.rows]
        BY ONLY <1>1, <4>1
      <4>3. v = [name |-> name, modern |-> u.modern, columns |-> columns1,
                 index |-> Collect(u.columns), base |-> u.base, rows |-> u.rows]
        <5>1. v = [w EXCEPT !.columns = columns1]
          BY ONLY <3>3, <4>1
        <5> QED BY ONLY <4>2, <5>1
      <4> QED BY ONLY <1>1, <4>3
    <3>5. name = NameIn(u)
      BY <2>2, <3>1 DEF NameIn
    <3>6. columns1 = cols
      BY <2>2, <3>1 DEF LabelIn
    <3> QED BY <1>3, <3>4, <3>5, <3>6
  <2> QED BY <2>1, <2>2
<1>5. ToSet(cols) = {LabelIn(u, k) : k \in 1..Len(u.columns)}
  BY DEF ToSet
<1> QED BY <1>4, <1>5

(* The rows under an id. *)
LEMMA RowsAt ==
  ASSUME NEW u, IsTable(u), NEW t, t.base = u.base, t.rows = u.rows, NEW id \in Int,
         NEW r, r = RowIndex(t, id)
  PROVE  /\ r # 0 => r \in 1..Len(u.rows)
         /\ {i \in DOMAIN u.rows : u.base + i - 1 = id} = IF r = 0 THEN {} ELSE {r}
         /\ id \in RowIds(u) => r # 0
<1>1. /\ u.base \in Nat /\ Len(u.rows) \in Nat /\ DOMAIN u.rows = 1..Len(u.rows)
  BY TableIs
<1>2. r = IF id >= u.base /\ id - u.base < Len(u.rows) THEN id - u.base + 1 ELSE 0
  BY DEF RowIndex
<1> QED BY <1>1, <1>2 DEF RowIds

(* A label that a user gave has at most one column, and the index finds    *)
(* it, unless it finds none because the column was given that name.        *)
LEMMA Looked ==
  ASSUME input \in Inputs, NEW u, IsTable(u), ColumnsDiffer(u),
         NEW i \in 1..Len(u.rows), NEW k \in 1..Len(u.columns), NEW l, l = LabelIn(u, k),
         NEW c, c = CellAt(Loaded(u), i, l)
  PROVE  /\ l \in Labels
         /\ \A j \in 1..Len(u.columns) : LabelIn(u, j) = l => j = k
         /\ c = u.rows[i][k] \/ (c = NoCell /\ Renamed(u, l))
<1> DEFINE n == Len(u.columns)
           map == Collect(u.columns)
<1>1. /\ u.columns \in Seq(Nat) /\ n \in Nat /\ DOMAIN u.columns = 1..n
      /\ \A j \in 1..n : u.columns[j] \in Labels
  <2>1. u.columns \in Seq(Labels)
    BY TableIs
  <2> QED BY <2>1, TableIs
<1>2. \A h \in DOMAIN input.names : input.names[h] \in Labels \ DOMAIN input.names
  BY InputIs
<1>3. \A j \in 1..n : j # k => LabelIn(u, j) # l
  BY <1>1 DEF ColumnsDiffer
<1>4. Distinct(u.columns, n)
  <2> SUFFICES ASSUME NEW a \in 1..n, NEW b \in 1..n, a # b PROVE u.columns[a] # u.columns[b]
    BY DEF Distinct
  <2>1. LabelIn(u, a) # LabelIn(u, b)
    BY <1>1 DEF ColumnsDiffer
  <2> QED BY <2>1 DEF LabelIn
<1>5. Indexes(map, u.columns, n)
  BY <1>1, CollectIndexes
<1>6. Sorted(map)
  BY <1>5 DEF Indexes
<1>7. c = IF Position(map, l) = 0 THEN NoCell ELSE u.rows[i][Position(map, l)]
  <2>1. Loaded(u).index = map /\ Loaded(u).rows = u.rows
    BY LoadedIs
  <2> QED BY <2>1 DEF CellAt
<1>8. l \in Labels
  BY <1>1, <1>2 DEF LabelIn, Unhash
<1>9. CASE Position(map, l) = 0 /\ \A m \in 1..Len(map) : map[m].label # l
  <2>1. u.columns[k] # l
    <3>1. \A q \in 1..n : \E m \in 1..Len(map) : map[m].label = u.columns[q]
      BY <1>5 DEF Indexes
    <3> HIDE DEF map, n
    <3>2. k \in 1..n
      BY DEF n
    <3> QED BY <1>9, <3>1, <3>2
  <2>2. Renamed(u, l)
    BY <1>1, <2>1 DEF Renamed
  <2> QED BY <1>3, <1>7, <1>8, <1>9, <2>2
<1>10. CASE \E m \in 1..Len(map) : map[m].label = l /\ Position(map, l) = map[m].pos
                                    /\ Position(map, l) # 0
  <2>1. PICK p : p = Position(map, l)
    OBVIOUS
  <2>2. p \in 1..n /\ u.columns[p] = l /\ p # 0
    BY <1>4, <1>5, <1>10, <2>1 DEF Indexes
  <2>3. u.modern => l \notin DOMAIN input.names
    BY <1>2 DEF LabelIn, Unhash
  <2>4. LabelIn(u, p) = l
    BY <2>2, <2>3 DEF LabelIn, Unhash
  <2>5. p = k
    BY <1>3, <2>2, <2>4
  <2> QED BY <1>3, <1>7, <1>8, <2>1, <2>2, <2>5
<1> QED BY <1>6, <1>9, <1>10, Positions

(* What is under an id and a label, and what is found there.               *)
LEMMA Under ==
  ASSUME input \in Inputs, NEW u, IsTable(u), ColumnsDiffer(u), NEW id \in Int, NEW l,
         NEW cols, cols = ToSet(Loaded(u).columns), NEW r, r = RowIndex(Loaded(u), id),
         NEW c, c = CellAt(Loaded(u), r, l)
  PROVE  /\ (r = 0 \/ l \notin cols) => CellsAt(u, id, l) = {}
         /\ (r # 0 /\ l \in cols) =>
              /\ \E v \in Values : /\ CellsAt(u, id, l) = {v}
                                   /\ c = v \/ (c = NoCell /\ Renamed(u, l))
              /\ l \in Labels
         /\ id \in RowIds(u) => r # 0
<1>1. /\ cols = {LabelIn(u, k) : k \in 1..Len(u.columns)}
      /\ Loaded(u).base = u.base /\ Loaded(u).rows = u.rows
  BY LoadedIs
<1>2. /\ r # 0 => r \in 1..Len(u.rows)
      /\ {i \in DOMAIN u.rows : u.base + i - 1 = id} = IF r = 0 THEN {} ELSE {r}
      /\ id \in RowIds(u) => r # 0
  BY <1>1, RowsAt
<1>3. DOMAIN u.columns = 1..Len(u.columns)
  BY TableIs
<1> DEFINE under == {k \in DOMAIN u.columns : LabelIn(u, k) = l}
           at == {i \in DOMAIN u.rows : u.base + i - 1 = id}
<1>4. CellsAt(u, id, l) = {u.rows[i][k] : i \in at, k \in under}
  BY DEF CellsAt
<1>5. CASE r = 0
  BY <1>2, <1>4, <1>5
<1>6. CASE r # 0 /\ l \notin cols
  <2>1. under = {}
    BY <1>1, <1>3, <1>6
  <2> QED BY <1>2, <1>4, <1>6, <2>1
<1>7. CASE r # 0 /\ l \in cols
  <2>1. PICK k \in 1..Len(u.columns) : l = LabelIn(u, k)
    BY <1>1, <1>7
  <2>2. r \in 1..Len(u.rows)
    BY <1>2, <1>7
  <2>3. /\ l \in Labels
        /\ \A j \in 1..Len(u.columns) : LabelIn(u, j) = l => j = k
        /\ c = u.rows[r][k] \/ (c = NoCell /\ Renamed(u, l))
    BY <2>1, <2>2, Looked
  <2>4. under = {k}
    BY <1>3, <2>1, <2>3
  <2>5. at = {r}
    BY <1>2, <1>7
  <2>6. CellsAt(u, id, l) = {u.rows[r][k]}
    <3> HIDE DEF at, under
    <3> QED BY <1>4, <2>4, <2>5
  <2>7. u.rows[r][k] \in Values
    BY <2>1, <2>2, TableIs
  <2> QED BY <1>2, <1>7, <2>3, <2>6, <2>7
<1> QED BY <1>5, <1>6, <1>7

(* What the comparison of two rows finds, in the words of the properties.  *)
Differs(x, l, before, after) ==
  \/ \E v \in after \ before : x = CellChange(l, TRUE, v)
  \/ \E v \in before \ after : x = CellChange(l, FALSE, v)

LEMMA RealChange ==
  ASSUME input \in Inputs, NEW o, NEW n, IsTable(o), IsTable(n),
         ColumnsDiffer(o), ColumnsDiffer(n), NEW id \in Int, id \in RowIds(n),
         NEW x, x \in RowDiff(Loaded(o), Loaded(n), id)
  PROVE  LET l == x.label
             before == CellsAt(o, id, l)
             after == CellsAt(n, id, l)
         IN  /\ l \in Labels
             /\ x.value # NoCell => Differs(x, l, before, after)
             /\ x.value = NoCell => /\ Renamed(o, l) \/ Renamed(n, l)
                                    /\ \E y : y.label = l /\ Differs(y, l, before, after)
<1> PICK i, j, oldCols, newCols :
      /\ i = RowIndex(Loaded(o), id) /\ oldCols = ToSet(Loaded(o).columns)
      /\ j = RowIndex(Loaded(n), id) /\ newCols = ToSet(Loaded(n).columns)
  OBVIOUS
<1>1. PICK l, b, a : /\ l = x.label /\ b = CellAt(Loaded(o), i, l) /\ a = CellAt(Loaded(n), j, l)
  OBVIOUS
<1>2. PICK before, after : before = CellsAt(o, id, l) /\ after = CellsAt(n, id, l)
  OBVIOUS
<1>3. /\ (i = 0 \/ l \notin oldCols) => before = {}
      /\ (i # 0 /\ l \in oldCols) =>
           (\E v \in Values : before = {v} /\ (b = v \/ (b = NoCell /\ Renamed(o, l))))
           /\ l \in Labels
  BY <1>1, <1>2, Under
<1>4. /\ j # 0 /\ (l \notin newCols => after = {})
      /\ l \in newCols =>
           (\E v \in Values : after = {v} /\ (a = v \/ (a = NoCell /\ Renamed(n, l))))
           /\ l \in Labels
  BY <1>1, <1>2, Under
<1>5. \/ l \in newCols /\ (i = 0 \/ l \notin oldCols) /\ x = CellChange(l, TRUE, a)
      \/ i # 0 /\ l \in oldCols \ newCols /\ x = CellChange(l, FALSE, b)
      \/ /\ i # 0 /\ l \in oldCols \cap newCols /\ a # NoCell /\ b # NoCell /\ a # b
         /\ x = CellChange(l, TRUE, a) \/ x = CellChange(l, FALSE, b)
  <2>1. \A k, d, v : x = CellChange(k, d, v) => k = l
    BY <1>1 DEF CellChange
  <2> QED BY <1>1, <2>1 DEF RowDiff
<1>6. NoCell \notin Values
  BY DiffAssumption DEF DiffAssumption
<1>7. \A d, v : x = CellChange(l, d, v) => x.value = v
  BY DEF CellChange
<1>8. CASE l \in newCols /\ (i = 0 \/ l \notin oldCols) /\ x = CellChange(l, TRUE, a)
  <2>1. before = {}
    BY <1>3, <1>8
  <2>2. PICK v \in Values : after = {v} /\ (a = v \/ (a = NoCell /\ Renamed(n, l)))
    BY <1>4, <1>8
  <2>3. x.value = a
    BY <1>7, <1>8
  <2>4. Differs(CellChange(l, TRUE, v), l, before, after) /\ CellChange(l, TRUE, v).label = l
    BY <2>1, <2>2 DEF Differs, CellChange
  <2> QED BY <1>1, <1>2, <1>4, <1>6, <1>8, <2>2, <2>3, <2>4
<1>9. CASE i # 0 /\ l \in oldCols \ newCols /\ x = CellChange(l, FALSE, b)
  <2>1. after = {}
    BY <1>4, <1>9
  <2>2. PICK v \in Values : before = {v} /\ (b = v \/ (b = NoCell /\ Renamed(o, l)))
    BY <1>3, <1>9
  <2>3. x.value = b
    BY <1>7, <1>9
  <2>4. Differs(CellChange(l, FALSE, v), l, before, after) /\ CellChange(l, FALSE, v).label = l
    BY <2>1, <2>2 DEF Differs, CellChange
  <2> QED BY <1>1, <1>2, <1>3, <1>6, <1>9, <2>2, <2>3, <2>4
<1>10. CASE /\ i # 0 /\ l \in oldCols \cap newCols /\ a # NoCell /\ b # NoCell /\ a # b
            /\ x = CellChange(l, TRUE, a) \/ x = CellChange(l, FALSE, b)
  <2>1. before = {b} /\ after = {a} /\ l \in Labels
    BY <1>3, <1>4, <1>10
  <2>2. x.value # NoCell
    BY <1>7, <1>10
  <2>3. Differs(x, l, before, after)
    BY <1>10, <2>1 DEF Differs
  <2> QED BY <1>1, <1>2, <2>1, <2>2, <2>3
<1> QED BY <1>5, <1>8, <1>9, <1>10

LEMMA AllChanges ==
  ASSUME input \in Inputs, NEW o, NEW n, IsTable(o), IsTable(n),
         ColumnsDiffer(o), ColumnsDiffer(n), NEW id \in Int, id \in RowIds(n),
         NEW l, ~Renamed(o, l), ~Renamed(n, l),
         NEW x, Differs(x, l, CellsAt(o, id, l), CellsAt(n, id, l))
  PROVE  x \in RowDiff(Loaded(o), Loaded(n), id)
<1> PICK i, j, oldCols, newCols :
      /\ i = RowIndex(Loaded(o), id) /\ oldCols = ToSet(Loaded(o).columns)
      /\ j = RowIndex(Loaded(n), id) /\ newCols = ToSet(Loaded(n).columns)
  OBVIOUS
<1>1. PICK b, a : /\ b = CellAt(Loaded(o), i, l) /\ a = CellAt(Loaded(n), j, l)
  OBVIOUS
<1>2. PICK before, after : before = CellsAt(o, id, l) /\ after = CellsAt(n, id, l)
  OBVIOUS
<1>3. /\ (i = 0 \/ l \notin oldCols) => before = {}
      /\ (i # 0 /\ l \in oldCols) => b \in Values /\ before = {b}
  BY <1>1, <1>2, Under
<1>4. /\ l \notin newCols => after = {}
      /\ l \in newCols => a \in Values /\ after = {a}
  BY <1>1, <1>2, Under
<1>5. NoCell \notin Values
  BY DiffAssumption DEF DiffAssumption
<1>6. CASE \E v \in after \ before : x = CellChange(l, TRUE, v)
  <2>1. l \in newCols /\ x = CellChange(l, TRUE, a) /\ a # NoCell /\ a \notin before
    BY <1>4, <1>5, <1>6
  <2>2. (i # 0 /\ l \in oldCols) => b # NoCell /\ a # b
    BY <1>3, <1>5, <2>1
  <2> QED BY <1>1, <2>1, <2>2 DEF RowDiff
<1>7. CASE \E v \in before \ after : x = CellChange(l, FALSE, v)
  <2>1. i # 0 /\ l \in oldCols /\ x = CellChange(l, FALSE, b) /\ b # NoCell /\ b \notin after
    BY <1>3, <1>5, <1>7
  <2>2. l \in newCols => a # NoCell /\ a # b
    BY <1>4, <1>5, <2>1
  <2> QED BY <1>1, <2>1, <2>2 DEF RowDiff
<1> QED BY <1>2, <1>6, <1>7 DEF Differs

-----------------------------------------------------------------------------
(* What a file is read as.                                                 *)
ReadOf(i) ==
  IF ~input.files[i].readable THEN Outcome("dropped", <<>>)
  ELSE Outcome("read", [k \in DOMAIN input.files[i].tables |-> Loaded(input.files[i].tables[k])])

(* The tables of a side, by name.                                          *)
SideTables(new) == [n \in {m \in Labels : Places(new, m) # {}} |-> Loaded(LastTable(new, n))]

(* All that the comparison of two tables finds, and what a list of changed *)
(* rows holds.                                                             *)
Entries(n) == RowChanges(Loaded(OldTable(n)), Loaded(NewTable(n)))
AllLines(n) ==
  UNION {{[table |-> n, row |-> id, cell |-> x] :
            x \in RowDiff(Loaded(OldTable(n)), Loaded(NewTable(n)), id)} : id \in RowIds(NewTable(n))}
Lines(n, list) ==
  UNION {{[table |-> n, row |-> list[i].row, cell |-> x] : x \in list[i].cells} : i \in DOMAIN list}

(* The inductive invariant.  A file that was read holds its tables with    *)
(* the names the user gave them;                                           *)
ReadInv ==
  /\ input \in Inputs
  /\ DOMAIN got = DOMAIN input.files
  /\ \A i \in DOMAIN got : got[i] = Outcome("pending", <<>>) \/ got[i] = ReadOf(i)

(* the merged tables are those that no later one took the place of;        *)
MergedInv ==
  stage # "read" => oldTables = SideTables(FALSE) /\ newTables = SideTables(TRUE)

ShownInv ==
  IF stage = "read" THEN printed = [added |-> {}, removed |-> {}, changed |-> {}]
  ELSE printed = [added |-> DOMAIN newTables \ DOMAIN oldTables,
                  removed |-> DOMAIN oldTables \ DOMAIN newTables, changed |-> printed.changed]

(* the table at hand is one of both sides;                                 *)
TodoInv ==
  stage # "read" =>
    /\ todo \subseteq DOMAIN oldTables
    /\ stage \in {"print", "panic"} => Current \in todo \cap DOMAIN newTables

(* of a table that was dealt with all lines are printed, of the one at     *)
(* hand those that are not still to be printed, and of no table a line     *)
(* that the comparison did not find or whose value the row does not have.  *)
PrintedInv ==
  /\ \A x \in printed.changed :
       x.table \in OnBothSides /\ x \in AllLines(x.table) /\ x.cell.value # NoCell
  /\ stage # "read" => \A n \in OnBothSides \ todo : AllLines(n) \subseteq printed.changed
  /\ stage = "print" => \A n : n = Current =>
       /\ \E V : rowChanges \in Seq(V)
       /\ \A y \in Lines(n, rowChanges) : y \in AllLines(n) /\ y.cell.value # NoCell
       /\ AllLines(n) \subseteq printed.changed \cup Lines(n, rowChanges)
  /\ stage = "panic" => \A n : n = Current =>
       \E y \in AllLines(n) : y.cell.value = NoCell \/ y.cell.value \in Composite

DiffInv == ReadInv /\ MergedInv /\ ShownInv /\ TodoInv /\ PrintedInv

LEMMA FilesAre ==
  ASSUME input \in Inputs
  PROVE  /\ Len(input.files) \in Nat /\ DOMAIN input.files = 1..Len(input.files)
         /\ \A i \in 1..Len(input.files) :
              /\ Len(input.files[i].tables) \in Nat
              /\ DOMAIN input.files[i].tables = 1..Len(input.files[i].tables)
              /\ \A k \in 1..Len(input.files[i].tables) : IsTable(input.files[i].tables[k])
<1>1. input.files \in Seq(File)
  BY InputIs
<1>2. \A i \in 1..Len(input.files) : input.files[i].tables \in Seq(FileTable)
  BY InputIs
<1> QED BY <1>1, <1>2, InputIs

(* Where the tables of a name are.                                         *)
LEMMA PlaceIs ==
  ASSUME input \in Inputs, NEW new, NEW n
  PROVE  /\ \A p \in Places(new, n) : p = <<p[1], p[2]>>
         /\ \A i, k : <<i, k>> \in Places(new, n) <=>
              /\ i \in 1..Len(input.files) /\ input.files[i].new = new /\ input.files[i].readable
              /\ k \in 1..Len(input.files[i].tables) /\ NameIn(input.files[i].tables[k]) = n
<1>1. /\ DOMAIN input.files = 1..Len(input.files)
      /\ \A i \in 1..Len(input.files) : DOMAIN input.files[i].tables = 1..Len(input.files[i].tables)
  BY FilesAre
<1>2. \A p : p \in Places(new, n) <=>
        /\ \E i \in FilesOf(new) : p \in {i} \X DOMAIN input.files[i].tables
        /\ input.files[p[1]].readable /\ NameIn(input.files[p[1]].tables[p[2]]) = n
  BY DEF Places
<1>3. \A i : i \in FilesOf(new) <=> i \in 1..Len(input.files) /\ input.files[i].new = new
  BY <1>1 DEF FilesOf
<1>4. ASSUME NEW p \in Places(new, n) PROVE p = <<p[1], p[2]>>
  <2>1. PICK i \in FilesOf(new) : p \in {i} \X DOMAIN input.files[i].tables
    BY <1>2
  <2> QED BY ONLY <2>1
<1>5. ASSUME NEW i, NEW k
      PROVE  (\E j \in FilesOf(new) : <<i, k>> \in {j} \X DOMAIN input.files[j].tables)
               <=> i \in FilesOf(new) /\ k \in DOMAIN input.files[i].tables
  OBVIOUS
<1>6. ASSUME NEW i, NEW k
      PROVE  <<i, k>> \in Places(new, n) <=>
              /\ i \in 1..Len(input.files) /\ input.files[i].new = new /\ input.files[i].readable
              /\ k \in 1..Len(input.files[i].tables) /\ NameIn(input.files[i].tables[k]) = n
  <2>1. <<i, k>> \in Places(new, n) <=>
          /\ i \in FilesOf(new) /\ k \in DOMAIN input.files[i].tables
          /\ input.files[i].readable /\ NameIn(input.files[i].tables[k]) = n
    BY <1>2, <1>5
  <2> QED BY <1>1, <1>3, <2>1
<1> QED BY <1>4, <1>6

(* The last of them is the one LastTable takes.                            *)
IsLast(i, k, new, n) ==
  /\ <<i, k>> \in Places(new, n)
  /\ \A j, m : <<j, m>> \in Places(new, n) => j < i \/ (j = i /\ m <= k)

LEMMA LastIs ==
  ASSUME input \in Inputs, NEW new, NEW n, NEW i, NEW k, IsLast(i, k, new, n)
  PROVE  LastTable(new, n) = input.files[i].tables[k]
<1> DEFINE Latest(p) == /\ p \in Places(new, n)
                      /\ \A q \in Places(new, n) : q[1] < p[1] \/ (q[1] = p[1] /\ q[2] <= p[2])
           last == CHOOSE p : Latest(p)
<1>1. Latest(<<i, k>>)
  <2>1. <<i, k>> \in Places(new, n)
    BY DEF IsLast
  <2>2. ASSUME NEW q \in Places(new, n) PROVE q[1] < i \/ (q[1] = i /\ q[2] <= k)
    <3>1. q = <<q[1], q[2]>>
      BY PlaceIs
    <3>2. <<q[1], q[2]>> \in Places(new, n)
      BY <3>1
    <3> QED BY <3>2 DEF IsLast
  <2> QED BY <2>1, <2>2
<1>2. Latest(last)
  <2> HIDE DEF Latest
  <2> QED BY <1>1
<1>3. LastTable(new, n) = input.files[last[1]].tables[last[2]]
  BY DEF LastTable
<1> HIDE DEF last
<1>4. last[1] = i /\ last[2] = k
  <2>1. <<last[1], last[2]>> \in Places(new, n)
    <3>1. last = <<last[1], last[2]>>
      BY <1>2, PlaceIs
    <3> QED BY <1>2, <3>1
  <2>2. last[1] \in 1..Len(input.files) /\ last[2] \in 1..Len(input.files[last[1]].tables)
    BY <2>1, PlaceIs
  <2>3. i \in 1..Len(input.files) /\ k \in 1..Len(input.files[i].tables)
    BY PlaceIs DEF IsLast
  <2>4. i < last[1] \/ (i = last[1] /\ k <= last[2])
    BY <1>2, <2>3 DEF IsLast
  <2>5. last[1] < i \/ (last[1] = i /\ last[2] <= k)
    BY <2>1 DEF IsLast
  <2>6. last[1] \in Int /\ i \in Int /\ last[2] \in Int /\ k \in Int
    BY <2>2, <2>3, FilesAre
  <2> QED BY <2>4, <2>5, <2>6
<1> QED BY <1>3, <1>4

(* There is a last one, if there is one.                                   *)
LEMMA LastExists ==
  ASSUME input \in Inputs, NEW new, NEW n, Places(new, n) # {}
  PROVE  /\ \E i, k : IsLast(i, k, new, n)
         /\ IsTable(LastTable(new, n)) /\ NameIn(LastTable(new, n)) = n
<1> DEFINE I == {i \in 1..Len(input.files) : \E k : <<i, k>> \in Places(new, n)}
<1>1. PICK i \in I : \A j \in I : j <= i
  <2>1. PICK p \in Places(new, n) : p = <<p[1], p[2]>>
    BY PlaceIs
  <2>2. p[1] \in I
    <3>1. <<p[1], p[2]>> \in Places(new, n)
      BY <2>1
    <3>2. p[1] \in 1..Len(input.files)
      BY <3>1, PlaceIs
    <3>3. PICK j : j = p[1]
      OBVIOUS
    <3>4. \E k : <<j, k>> \in Places(new, n)
      BY <3>1, <3>3
    <3>5. j \in I
      BY <3>2, <3>3, <3>4
    <3> QED BY <3>3, <3>5
  <2>3. I \subseteq Nat /\ Len(input.files) \in Nat /\ \A j \in I : j <= Len(input.files)
    BY FilesAre
  <2> HIDE DEF I
  <2> QED BY <2>2, <2>3, NatMax
<1> DEFINE K == {k \in 1..Len(input.files[i].tables) : <<i, k>> \in Places(new, n)}
<1>2. PICK k \in K : \A m \in K : m <= k
  <2>1. K # {}
    BY <1>1, PlaceIs
  <2>2. /\ K \subseteq Nat /\ Len(input.files[i].tables) \in Nat
        /\ \A m \in K : m <= Len(input.files[i].tables)
    BY <1>1, FilesAre
  <2> HIDE DEF K
  <2> QED BY <2>1, <2>2, NatMax
<1>3. IsLast(i, k, new, n)
  <2>1. <<i, k>> \in Places(new, n)
    BY <1>2
  <2>2. ASSUME NEW j, NEW m, <<j, m>> \in Places(new, n)
        PROVE  j < i \/ (j = i /\ m <= k)
    <3>1. j \in 1..Len(input.files) /\ m \in 1..Len(input.files[j].tables) /\ i \in 1..Len(input.files)
      BY <2>2, <1>1, PlaceIs
    <3>2. j <= i
      BY <1>1, <2>2, <3>1
    <3>3. j = i => m <= k
      BY <1>2, <2>2, <3>1
    <3> QED BY <3>1, <3>2, <3>3
  <2> QED BY <2>1, <2>2 DEF IsLast
<1>4. LastTable(new, n) = input.files[i].tables[k]
  BY <1>3, LastIs
<1>5. /\ i \in 1..Len(input.files) /\ k \in 1..Len(input.files[i].tables)
      /\ NameIn(input.files[i].tables[k]) = n
  BY <1>3, PlaceIs DEF IsLast
<1> QED BY <1>3, <1>4, <1>5, FilesAre

LEMMA NamesAreLabels ==
  ASSUME input \in Inputs, NEW u, IsTable(u)
  PROVE  NameIn(u) \in Labels
BY InputIs, TableIs DEF NameIn, Unhash

(* The tables of a side, one behind the other: where each is from, and     *)
(* that none is missing.                                                   *)
IsFrom(t, f, p, q, new) ==
  /\ f[q] \in 1..Len(input.files) /\ p[q] \in 1..Len(input.files[f[q]].tables)
  /\ input.files[f[q]].new = new /\ input.files[f[q]].readable
  /\ t[q] = Loaded(input.files[f[q]].tables[p[q]])
TablesFrom(t, f, p, new) ==
  /\ \A q \in 1..Len(t) : IsFrom(t, f, p, q, new)
  /\ \A q, r \in 1..Len(t) : q < r => f[q] < f[r] \/ (f[q] = f[r] /\ p[q] < p[r])
  /\ \A i \in 1..Len(input.files) : \A k \in 1..Len(input.files[i].tables) :
       input.files[i].new = new /\ input.files[i].readable
         => \E q \in 1..Len(t) : f[q] = i /\ p[q] = k

LEMMA TablesAre ==
  ASSUME input \in Inputs, DOMAIN got = DOMAIN input.files,
         \A i \in DOMAIN got : got[i] = ReadOf(i), NEW new
  PROVE  \E V : \E t \in Seq(V) : \E f, p : TablesRead(new) = t /\ TablesFrom(t, f, p, new)
<1> DEFINE n == Len(input.files)
           V == {Loaded(input.files[i].tables[k]) : i \in 1..n, k \in Nat}
           s == [i \in 1..n |-> IF input.files[i].new = new THEN got[i].tables ELSE <<>>]
           takes(i) == input.files[i].new = new /\ input.files[i].readable
<1>1. /\ n \in Nat /\ DOMAIN input.files = 1..n
      /\ \A i \in 1..n : /\ Len(input.files[i].tables) \in Nat
                         /\ DOMAIN input.files[i].tables = 1..Len(input.files[i].tables)
  BY FilesAre
<1>2. ASSUME NEW i \in 1..n
      PROVE  s[i] = IF takes(i) THEN [k \in 1..Len(input.files[i].tables) |->
                                        Loaded(input.files[i].tables[k])]
                    ELSE <<>>
  <2>1. got[i] = ReadOf(i)
    BY <1>1
  <2>2. got[i].tables = IF ~input.files[i].readable THEN <<>>
                        ELSE [k \in 1..Len(input.files[i].tables) |-> Loaded(input.files[i].tables[k])]
    <3>1. PICK l : l = [k \in 1..Len(input.files[i].tables) |-> Loaded(input.files[i].tables[k])]
      OBVIOUS
    <3>2. ReadOf(i) = IF ~input.files[i].readable THEN [state |-> "dropped", tables |-> <<>>]
                      ELSE [state |-> "read", tables |-> l]
      BY <1>1, <3>1 DEF ReadOf, Outcome
    <3>3. ReadOf(i).tables = IF ~input.files[i].readable THEN <<>> ELSE l
      BY ONLY <3>2
    <3> QED BY <2>1, <3>1, <3>3
  <2> QED BY <2>2
<1>3. ASSUME NEW i \in 1..n
      PROVE  s[i] \in Seq(V) /\ Len(s[i]) = IF takes(i) THEN Len(input.files[i].tables) ELSE 0
  <2>1. CASE takes(i)
    <3>1. \A k \in 1..Len(input.files[i].tables) : Loaded(input.files[i].tables[k]) \in V
      OBVIOUS
    <3> HIDE DEF V
    <3>2. s[i] = [k \in 1..Len(input.files[i].tables) |-> Loaded(input.files[i].tables[k])]
      BY <1>2, <2>1
    <3> HIDE DEF s
    <3>3. PICK m \in Nat : m = Len(input.files[i].tables)
      BY <1>1
    <3> QED BY <2>1, <3>1, <3>2, <3>3
  <2>2. CASE ~takes(i)
    <3>1. s[i] = <<>>
      BY <1>2, <2>2
    <3> HIDE DEF s, V
    <3> QED BY <2>2, <3>1
  <2> QED BY <2>1, <2>2
<1>4. TablesRead(new) = FlattenSeq(s)
  BY <1>1 DEF TablesRead
<1>5. s = [i \in 1..n |-> s[i]]
  OBVIOUS
<1> HIDE DEF s, V
<1>6. FlattenSeq(s) \in Seq(V) /\ \E f, p : Parts(f, p, FlattenSeq(s), s, n)
  BY <1>1, <1>3, <1>5, FlattenParts
<1>7. PICK t, f, p : t \in Seq(V) /\ t = FlattenSeq(s) /\ Parts(f, p, t, s, n)
  BY <1>6
<1>8. ASSUME NEW q \in 1..Len(t) PROVE IsFrom(t, f, p, q, new)
  <2>1. f[q] \in 1..n /\ p[q] \in 1..Len(s[f[q]]) /\ t[q] = s[f[q]][p[q]]
    BY <1>7 DEF Parts
  <2>2. takes(f[q])
    <3>1. Len(s[f[q]]) # 0
      BY <2>1
    <3> QED BY <1>3, <2>1, <3>1
  <2>3. p[q] \in 1..Len(input.files[f[q]].tables)
    BY <1>3, <2>1, <2>2
  <2>4. s[f[q]][p[q]] = Loaded(input.files[f[q]].tables[p[q]])
    BY <1>2, <2>1, <2>2, <2>3
  <2> QED BY <2>1, <2>2, <2>3, <2>4 DEF IsFrom
<1>9. \A q, r \in 1..Len(t) : q < r => f[q] < f[r] \/ (f[q] = f[r] /\ p[q] < p[r])
  BY <1>7 DEF Parts
<1>10. ASSUME NEW i \in 1..n, NEW k \in 1..Len(input.files[i].tables), takes(i)
       PROVE  \E q \in 1..Len(t) : f[q] = i /\ p[q] = k
  <2>1. k \in 1..Len(s[i])
    BY <1>3, <1>10
  <2> QED BY <1>7, <2>1 DEF Parts
<1>11. TablesFrom(t, f, p, new)
  BY <1>8, <1>9, <1>10 DEF TablesFrom
<1> QED BY <1>4, <1>7, <1>11

(* Merging keeps, of each name, the table in the last place.               *)
LEMMA Merged ==
  ASSUME input \in Inputs, DOMAIN got = DOMAIN input.files,
         \A i \in DOMAIN got : got[i] = ReadOf(i), NEW new
  PROVE  ByName(TablesRead(new)) = SideTables(new)
<1> PICK V : \E t \in Seq(V) : \E f, p : TablesRead(new) = t /\ TablesFrom(t, f, p, new)
  BY TablesAre
<1> PICK t, f, p : t \in Seq(V) /\ TablesRead(new) = t /\ TablesFrom(t, f, p, new)
  OBVIOUS
<1>1. Len(t) \in Nat /\ DOMAIN t = 1..Len(t)
  OBVIOUS
<1>2. ASSUME NEW q \in 1..Len(t)
      PROVE  /\ t[q].name \in Labels /\ <<f[q], p[q]>> \in Places(new, t[q].name)
             /\ f[q] \in Int /\ p[q] \in Int
  <2>1. IsFrom(t, f, p, q, new)
    BY DEF TablesFrom
  <2>2. PICK u : u = input.files[f[q]].tables[p[q]]
    OBVIOUS
  <2>3. IsTable(u)
    BY <2>1, <2>2, FilesAre DEF IsFrom
  <2>4. t[q].name = NameIn(u)
    <3>1. t[q] = Loaded(u)
      BY <2>1, <2>2 DEF IsFrom
    <3>2. Loaded(u).name = NameIn(u)
      BY <2>3, LoadedIs
    <3> QED BY <3>1, <3>2
  <2>5. f[q] \in 1..Len(input.files) /\ p[q] \in 1..Len(input.files[f[q]].tables)
    BY <2>1 DEF IsFrom
  <2>6. f[q] \in Int /\ p[q] \in Int
    BY <2>5, FilesAre
  <2>7. <<f[q], p[q]>> \in Places(new, t[q].name)
    BY <2>1, <2>2, <2>4, PlaceIs DEF IsFrom
  <2> QED BY <2>3, <2>4, <2>6, <2>7, NamesAreLabels
<1>3. ASSUME NEW n, NEW i, NEW k, <<i, k>> \in Places(new, n)
      PROVE  \E q \in 1..Len(t) : f[q] = i /\ p[q] = k /\ t[q].name = n
  <2>1. /\ i \in 1..Len(input.files) /\ k \in 1..Len(input.files[i].tables)
        /\ input.files[i].new = new /\ input.files[i].readable
        /\ NameIn(input.files[i].tables[k]) = n
    BY <1>3, PlaceIs
  <2>2. PICK q \in 1..Len(t) : f[q] = i /\ p[q] = k
    BY <2>1 DEF TablesFrom
  <2>3. t[q] = Loaded(input.files[i].tables[k])
    BY <2>2 DEF IsFrom, TablesFrom
  <2>4. t[q].name = n
    <3>1. PICK u : u = input.files[i].tables[k]
      OBVIOUS
    <3>2. IsTable(u) /\ NameIn(u) = n
      BY <2>1, <3>1, FilesAre
    <3>3. Loaded(u).name = NameIn(u)
      BY <3>2, LoadedIs
    <3> QED BY <2>3, <3>1, <3>2, <3>3
  <2> QED BY <2>2, <2>4
<1> DEFINE Names == {t[q].name : q \in DOMAIN t}
<1>4. Names = {m \in Labels : Places(new, m) # {}}
  <2>1. ASSUME NEW m \in Names PROVE m \in Labels /\ Places(new, m) # {}
    <3>1. PICK q \in 1..Len(t) : t[q].name = m
      BY <1>1
    <3> HIDE DEF Names
    <3> QED BY <1>2, <3>1
  <2>2. ASSUME NEW m \in Labels, Places(new, m) # {} PROVE m \in Names
    <3>1. PICK i, k : <<i, k>> \in Places(new, m)
      <4>1. PICK place \in Places(new, m) : TRUE
        BY <2>2
      <4>2. place = <<place[1], place[2]>>
        BY PlaceIs
      <4>3. <<place[1], place[2]>> \in Places(new, m)
        BY <4>2
      <4> QED BY <4>3
    <3> QED BY <1>1, <1>3, <3>1
  <2> QED BY <2>1, <2>2
<1>5. ASSUME NEW n \in Names
      PROVE  t[CHOOSE i \in DOMAIN t : /\ t[i].name = n
                                       /\ \A j \in DOMAIN t : t[j].name = n => j <= i]
               = Loaded(LastTable(new, n))
  <2> DEFINE C(i) == /\ t[i].name = n
                     /\ \A j \in DOMAIN t : t[j].name = n => j <= i
             T == {q \in 1..Len(t) : t[q].name = n}
             c == CHOOSE i \in DOMAIN t : C(i)
  <2>1. \E i \in DOMAIN t : C(i)
    <3>1. T # {} /\ T \subseteq Nat /\ \A q \in T : q <= Len(t)
      BY <1>1
    <3>2. \E x \in T : \A y \in T : y <= x
      <4> HIDE DEF T
      <4> QED BY <1>1, <3>1, NatMax
    <3> QED BY <1>1, <3>2
  <2>2. c \in DOMAIN t /\ C(c)
    <3> HIDE DEF C
    <3> QED BY <2>1
  <2> HIDE DEF c
  <2>3. IsLast(f[c], p[c], new, n)
    <3>1. <<f[c], p[c]>> \in Places(new, n)
      BY <1>1, <1>2, <2>2
    <3>2. ASSUME NEW j, NEW m, <<j, m>> \in Places(new, n)
          PROVE  j < f[c] \/ (j = f[c] /\ m <= p[c])
      <4>1. PICK q \in 1..Len(t) : f[q] = j /\ p[q] = m /\ t[q].name = n
        BY <1>3, <3>2
      <4>2. q <= c /\ c \in 1..Len(t)
        BY <1>1, <2>2, <4>1
      <4>3. q = c \/ q < c
        BY <1>1, <4>2
      <4>4. f[q] \in Int /\ p[q] \in Int /\ f[c] \in Int /\ p[c] \in Int
        BY <1>2, <4>2
      <4>5. q < c => f[q] < f[c] \/ (f[q] = f[c] /\ p[q] < p[c])
        BY <4>2 DEF TablesFrom
      <4> QED BY <4>1, <4>3, <4>4, <4>5
    <3> QED BY <3>1, <3>2 DEF IsLast
  <2>4. LastTable(new, n) = input.files[f[c]].tables[p[c]]
    BY <2>3, LastIs
  <2>5. t[c] = Loaded(input.files[f[c]].tables[p[c]])
    BY <1>1, <2>2 DEF IsFrom, TablesFrom
  <2> QED BY <2>4, <2>5 DEF c
<1>6. ByName(t) = [n \in Names |->
        t[CHOOSE i \in DOMAIN t : /\ t[i].name = n
                                  /\ \A j \in DOMAIN t : t[j].name = n => j <= i]]
  BY DEF ByName
<1> HIDE DEF Names
<1> QED BY <1>4, <1>5, <1>6 DEF SideTables

(* What the comparison lists is what it finds in the rows.                 *)
LEMMA Listed ==
  ASSUME input \in Inputs, NEW n, n \in OnBothSides
  PROVE  /\ \E V : Entries(n) \in Seq(V)
         /\ Lines(n, Entries(n)) = AllLines(n)
<1> DEFINE old == Loaded(OldTable(n))
           new == Loaded(NewTable(n))
           e == [i \in 1..Len(NewTable(n).rows) |->
                  [row |-> new.base + i - 1, cells |-> RowDiff(old, new, new.base + i - 1)]]
           P == {i \in 1..Len(NewTable(n).rows) : e[i].cells # {}}
           s == [i \in 1..Len(NewTable(n).rows) |-> IF i \in P THEN <<e[i]>> ELSE <<>>]
           len == Len(NewTable(n).rows)
<1>1. IsTable(NewTable(n))
  BY LastExists DEF OnBothSides, NewTable
<1>2. /\ len \in Nat /\ DOMAIN NewTable(n).rows = 1..len /\ NewTable(n).base \in Nat
      /\ new.base = NewTable(n).base /\ new.rows = NewTable(n).rows
  BY <1>1, TableIs, LoadedIs
<1>3. \A i \in 1..len : /\ e[i].row = NewTable(n).base + i - 1
                        /\ e[i].cells = RowDiff(old, new, NewTable(n).base + i - 1)
  BY <1>2
<1>4. Entries(n) = FlattenSeq(s)
  <2>1. s = [i \in DOMAIN new.rows |->
               IF RowDiff(old, new, new.base + i - 1) # {}
               THEN <<[row |-> new.base + i - 1, cells |-> RowDiff(old, new, new.base + i - 1)]>>
               ELSE <<>>]
    BY <1>2
  <2>2. Entries(n) = FlattenSeq([i \in DOMAIN new.rows |->
               IF RowDiff(old, new, new.base + i - 1) # {}
               THEN <<[row |-> new.base + i - 1, cells |-> RowDiff(old, new, new.base + i - 1)]>>
               ELSE <<>>])
    BY DEF Entries, RowChanges
  <2> HIDE DEF s
  <2> QED BY <2>1, <2>2
<1> HIDE DEF e
<1>5. s = [i \in 1..len |-> IF i \in P THEN <<e[i]>> ELSE <<>>]
  OBVIOUS
<1>6. P \subseteq 1..len
  OBVIOUS
<1> HIDE DEF s, P
<1>7. PICK V, pos : FlattenSeq(s) \in Seq(V) /\ Selects(pos, FlattenSeq(s), P, e, len)
  BY <1>2, <1>5, FlattenSome
<1> HIDE DEF len
<1>8. PICK t \in Seq(V) : t = Entries(n) /\ Selects(pos, t, P, e, len)
  BY <1>4, <1>7
<1>9. DOMAIN t = 1..Len(t)
  OBVIOUS
<1>10. ASSUME NEW y \in Lines(n, t) PROVE y \in AllLines(n)
  <2>1. PICK q \in 1..Len(t) : \E x \in t[q].cells : y = [table |-> n, row |-> t[q].row, cell |-> x]
    BY <1>9, <1>10 DEF Lines
  <2>2. PICK i \in 1..len : t[q] = e[i]
    BY <1>6, <1>8, <2>1 DEF Selects
  <2>3. PICK id : id = NewTable(n).base + i - 1
    OBVIOUS
  <2>4. id \in RowIds(NewTable(n)) /\ t[q].row = id /\ t[q].cells = RowDiff(old, new, id)
    BY <1>2, <1>3, <2>2, <2>3 DEF RowIds, len
  <2> QED BY <2>1, <2>4 DEF AllLines
<1>11. ASSUME NEW y \in AllLines(n) PROVE y \in Lines(n, t)
  <2>1. PICK id \in RowIds(NewTable(n)) :
          \E x \in RowDiff(old, new, id) : y = [table |-> n, row |-> id, cell |-> x]
    BY <1>11 DEF AllLines
  <2>2. PICK i \in 1..len : id = NewTable(n).base + i - 1
    BY <1>2, <2>1 DEF RowIds, len
  <2>3. e[i].row = id /\ e[i].cells = RowDiff(old, new, id)
    BY <1>3, <2>2 DEF len
  <2>4. i \in P
    BY <2>1, <2>3 DEF P, len
  <2>5. PICK q \in 1..Len(t) : t[q] = e[i]
    BY <1>6, <1>8, <2>4 DEF Selects
  <2> QED BY <1>9, <2>1, <2>3, <2>5 DEF Lines
<1> QED BY <1>8, <1>10, <1>11

(* All of this is about the input alone, which never changes.              *)
LEMMA SameInput ==
  ASSUME input' = input
  PROVE  /\ \A n : AllLines(n)' = AllLines(n)
         /\ OnBothSides' = OnBothSides
         /\ \A i : ReadOf(i)' = ReadOf(i)
         /\ \A new : SideTables(new)' = SideTables(new)
<1>1. /\ \A u : Loaded(u)' = Loaded(u) /\ NameIn(u)' = NameIn(u)
      /\ \A new : FilesOf(new)' = FilesOf(new)
  BY DEF Loaded, NameIn, FilesOf
<1>2. \A new, n : Places(new, n)' = Places(new, n)
  BY <1>1 DEF Places
<1>3. \A new, n : LastTable(new, n)' = LastTable(new, n)
  BY <1>2 DEF LastTable
<1>4. \A n : OldTable(n)' = OldTable(n) /\ NewTable(n)' = NewTable(n)
  BY <1>3 DEF OldTable, NewTable
<1>5. \A n : AllLines(n)' = AllLines(n)
  BY <1>1, <1>4 DEF AllLines
<1>6. OnBothSides' = OnBothSides
  BY <1>2 DEF OnBothSides
<1>7. \A i : ReadOf(i)' = ReadOf(i)
  BY <1>1 DEF ReadOf
<1>8. \A new : SideTables(new)' = SideTables(new)
  BY <1>1, <1>2, <1>3 DEF SideTables
<1> QED BY <1>5, <1>6, <1>7, <1>8

(* The merged tables: whose names are there, and what is under them.       *)
LEMMA SidesAre ==
  ASSUME MergedInv, stage # "read"
  PROVE  /\ DOMAIN oldTables = {m \in Labels : Places(FALSE, m) # {}}
         /\ DOMAIN newTables = {m \in Labels : Places(TRUE, m) # {}}
         /\ OnBothSides = DOMAIN oldTables \cap DOMAIN newTables
         /\ \A n \in OnBothSides : oldTables[n] = Loaded(OldTable(n)) /\ newTables[n] = Loaded(NewTable(n))
BY DEF MergedInv, SideTables, OnBothSides, OldTable, NewTable

LEMMA CurrentIs ==
  ASSUME MergedInv, TodoInv, stage # "read", todo # {}
  PROVE  Current \in todo /\ (Current \in DOMAIN newTables => Current \in OnBothSides)
<1>1. todo \subseteq DOMAIN oldTables /\ DOMAIN oldTables \subseteq Labels /\ Labels \subseteq Nat
  BY SidesAre, NameMapAssumption DEF TodoInv, NameMapAssumption
<1>2. \E x \in todo : \A y \in todo : x <= y
  BY <1>1, NatMin
<1>3. Current \in todo
  BY <1>2 DEF Current, Min
<1> QED BY <1>1, <1>3, SidesAre

LEMMA DiffStarts == DiffInit => DiffInv
<1> SUFFICES ASSUME DiffInit PROVE DiffInv
  OBVIOUS
<1>1. ReadInv
  BY DEF DiffInit, ReadInv
<1>2. MergedInv /\ ShownInv /\ TodoInv
  BY DEF DiffInit, MergedInv, ShownInv, TodoInv
<1>3. printed.changed = {}
  BY DEF DiffInit
<1>4. PrintedInv
  BY <1>3 DEF DiffInit, PrintedInv
<1> QED BY <1>1, <1>2, <1>4 DEF DiffInv

LEMMA ReadKeeps ==
  ASSUME DiffInv, NEW i \in DOMAIN got, ReadFile(i)
  PROVE  DiffInv'
<1>1. input' = input /\ stage = "read" /\ stage' = "read" /\ printed' = printed
  BY DEF ReadFile
<1>2. got' = [got EXCEPT ![i] = ReadOf(i)]
  BY DEF ReadFile, ReadOf, Loaded
<1>3. ReadInv'
  <2>1. DOMAIN got' = DOMAIN got /\ \A j \in DOMAIN got : got'[j] = IF j = i THEN ReadOf(i) ELSE got[j]
    BY <1>2
  <2>2. \A j : ReadOf(j)' = ReadOf(j)
    BY <1>1, SameInput
  <2>3. \A j \in DOMAIN got' : got'[j] = Outcome("pending", <<>>) \/ got'[j] = ReadOf(j)'
    BY <2>1, <2>2 DEF DiffInv, ReadInv
  <2> QED BY <1>1, <2>1, <2>3 DEF DiffInv, ReadInv
<1>4. MergedInv' /\ ShownInv' /\ TodoInv'
  BY <1>1 DEF DiffInv, MergedInv, ShownInv, TodoInv
<1>5. PrintedInv'
  <2>1. printed'.changed = {}
    BY <1>1 DEF DiffInv, ShownInv
  <2> QED BY <1>1, <2>1 DEF PrintedInv
<1> QED BY <1>3, <1>4, <1>5 DEF DiffInv

LEMMA MergeKeeps ==
  ASSUME DiffInv, Merge
  PROVE  DiffInv'
<1>1. /\ input' = input /\ got' = got /\ stage = "read" /\ stage' = "compare"
      /\ todo' = DOMAIN oldTables'
  BY DEF Merge
<1>2. \A i \in DOMAIN got : got[i] = ReadOf(i)
  <2>1. Outcome("pending", <<>>).state = "pending"
    BY DEF Outcome
  <2> QED BY <2>1 DEF DiffInv, ReadInv, Merge
<1>3. oldTables' = SideTables(FALSE) /\ newTables' = SideTables(TRUE)
  BY <1>2, Merged DEF DiffInv, ReadInv, Merge
<1>4. ReadInv'
  BY <1>1, SameInput DEF DiffInv, ReadInv
<1>5. MergedInv'
  BY <1>1, <1>3, SameInput DEF MergedInv
<1>6. printed' = [added |-> DOMAIN newTables' \ DOMAIN oldTables',
                  removed |-> DOMAIN oldTables' \ DOMAIN newTables', changed |-> {}]
  <2>1. PICK A, R : A = DOMAIN newTables' \ DOMAIN oldTables' /\ R = DOMAIN oldTables' \ DOMAIN newTables'
    OBVIOUS
  <2>2. printed = [added |-> {}, removed |-> {}, changed |-> {}]
    BY <1>1 DEF DiffInv, ShownInv
  <2>3. printed' = [printed EXCEPT !.added = A, !.removed = R]
    BY <2>1 DEF Merge
  <2>4. printed' = [added |-> A, removed |-> R, changed |-> {}]
    <3>1. PICK w : w = [printed EXCEPT !.added = A]
      OBVIOUS
    <3>2. w = [added |-> A, removed |-> {}, changed |-> {}]
      BY ONLY <2>2, <3>1
    <3>3. printed' = [w EXCEPT !.removed = R]
      BY ONLY <2>3, <3>1
    <3> QED BY ONLY <3>2, <3>3
  <2> QED BY <2>1, <2>4
<1>7. printed'.changed = {}
  BY <1>6
<1>8. ShownInv' /\ TodoInv'
  BY <1>1, <1>6, <1>7 DEF ShownInv, TodoInv
<1>9. PrintedInv'
  <2>1. OnBothSides' \ todo' = {}
    <3>1. OnBothSides' \subseteq DOMAIN SideTables(FALSE)
      BY <1>1, SameInput DEF OnBothSides, SideTables
    <3> QED BY <1>1, <1>3, <3>1
  <2> QED BY <1>1, <1>7, <2>1 DEF PrintedInv
<1> QED BY <1>4, <1>5, <1>8, <1>9 DEF DiffInv

(* What the steps after that leave alone. *)
LEMMA RestKeeps ==
  ASSUME DiffInv, input' = input, got' = got, stage # "read", stage' # "read",
         oldTables' = oldTables, newTables' = newTables
  PROVE  ReadInv' /\ MergedInv'
BY SameInput DEF DiffInv, ReadInv, MergedInv

LEMMA SkipKeeps ==
  ASSUME DiffInv, SkipRemoved
  PROVE  DiffInv'
<1>1. /\ input' = input /\ got' = got /\ stage = "compare" /\ stage' = "compare"
      /\ oldTables' = oldTables /\ newTables' = newTables /\ printed' = printed
      /\ todo # {} /\ todo' = todo \ {Current} /\ Current \notin DOMAIN newTables
  BY DEF SkipRemoved
<1>2. ReadInv' /\ MergedInv'
  BY <1>1, RestKeeps
<1>3. ShownInv' /\ TodoInv'
  BY <1>1 DEF DiffInv, ShownInv, TodoInv
<1>4. PrintedInv'
  <2>1. OnBothSides \ todo' = OnBothSides \ todo
    BY <1>1, SidesAre DEF DiffInv
  <2>2. OnBothSides' = OnBothSides /\ \A n : AllLines(n)' = AllLines(n)
    BY <1>1, SameInput
  <2> QED BY <1>1, <2>1, <2>2 DEF DiffInv, PrintedInv
<1> QED BY <1>2, <1>3, <1>4 DEF DiffInv

LEMMA CompareKeeps ==
  ASSUME DiffInv, Compare
  PROVE  DiffInv'
<1>1. /\ input' = input /\ got' = got /\ stage = "compare" /\ stage' \in {"panic", "print"}
      /\ oldTables' = oldTables /\ newTables' = newTables /\ printed' = printed
      /\ todo # {} /\ todo' = todo /\ Current \in DOMAIN newTables
  BY DEF Compare
<1>2. ReadInv' /\ MergedInv'
  BY <1>1, RestKeeps
<1>3. PICK n : n = Current
  OBVIOUS
<1>4. n \in todo /\ n \in OnBothSides /\ Current' = n
  <2>1. Current' = Current
    BY <1>1 DEF Current
  <2> QED BY <1>1, <1>3, <2>1, CurrentIs DEF DiffInv
<1>5. RowChanges(oldTables[n], newTables[n]) = Entries(n)
  BY <1>1, <1>4, SidesAre DEF DiffInv, Entries
<1>6. ShownInv' /\ TodoInv'
  BY <1>1, <1>3, <1>4 DEF DiffInv, ShownInv, TodoInv
<1>7. OnBothSides' = OnBothSides /\ \A m : AllLines(m)' = AllLines(m)
  BY <1>1, SameInput
<1>8. (\E V : Entries(n) \in Seq(V)) /\ Lines(n, Entries(n)) = AllLines(n)
  BY <1>4, Listed DEF DiffInv, ReadInv
<1>9. PICK found : found = Entries(n)
  OBVIOUS
<1>10. \/ Panics(found) /\ stage' = "panic" /\ UNCHANGED rowChanges
       \/ ~Panics(found) /\ stage' = "print" /\ rowChanges' = found
  BY <1>3, <1>5, <1>9 DEF Compare
<1>11. /\ \A x \in printed.changed :
            x.table \in OnBothSides /\ x \in AllLines(x.table) /\ x.cell.value # NoCell
       /\ \A m \in OnBothSides \ todo : AllLines(m) \subseteq printed.changed
  BY <1>1 DEF DiffInv, PrintedInv
<1>12. \A i : \A x : [table |-> n, row |-> found[i].row, cell |-> x].cell = x
  OBVIOUS
<1>13. CASE Panics(found) /\ stage' = "panic"
  <2>1. PICK i, x : i \in DOMAIN found /\ x \in found[i].cells /\ x.value = NoCell
    BY <1>13 DEF Panics
  <2>2. PICK y : y = [table |-> n, row |-> found[i].row, cell |-> x]
    OBVIOUS
  <2>3. y \in AllLines(n)
    <3>1. y \in Lines(n, found)
      BY <2>1, <2>2 DEF Lines
    <3> QED BY <1>8, <1>9, <3>1
  <2>4. y.cell.value = NoCell
    BY <2>1, <2>2, <1>12
  <2>5. PrintedInv'
    BY <1>1, <1>4, <1>7, <1>11, <1>13, <2>3, <2>4 DEF PrintedInv
  <2> QED BY <1>2, <1>6, <2>5 DEF DiffInv
<1>14. CASE ~Panics(found) /\ stage' = "print" /\ rowChanges' = found
  <2>1. ASSUME NEW y \in Lines(n, found) PROVE y \in AllLines(n) /\ y.cell.value # NoCell
    <3>1. PICK i, x : /\ i \in DOMAIN found /\ x \in found[i].cells
                      /\ y = [table |-> n, row |-> found[i].row, cell |-> x]
      BY <2>1 DEF Lines
    <3>2. x.value # NoCell
      BY <1>14, <3>1 DEF Panics
    <3>3. y.cell = x
      BY <3>1
    <3> QED BY <1>8, <1>9, <3>2, <3>3
  <2>2. \E V : rowChanges' \in Seq(V)
    BY <1>8, <1>9, <1>14
  <2>3. AllLines(n) \subseteq Lines(n, found)
    BY <1>8, <1>9
  <2>4. PrintedInv'
    BY <1>1, <1>4, <1>7, <1>11, <1>14, <2>1, <2>2, <2>3 DEF PrintedInv
  <2> QED BY <1>2, <1>6, <2>4 DEF DiffInv
<1> QED BY <1>10, <1>13, <1>14

(* The lines of the first row, and those of the rest.                      *)
LEMMA LinesSplit ==
  ASSUME NEW V, NEW list \in Seq(V), list # <<>>, NEW n
  PROVE  /\ Tail(list) \in Seq(V)
         /\ Lines(n, list) = {[table |-> n, row |-> Head(list).row, cell |-> x] : x \in Head(list).cells}
                             \cup Lines(n, Tail(list))
<1> DEFINE at(i) == {[table |-> n, row |-> list[i].row, cell |-> x] : x \in list[i].cells}
           rest == Tail(list)
<1>1. /\ Len(list) \in Nat /\ DOMAIN list = 1..Len(list) /\ 1 \in DOMAIN list /\ Head(list) = list[1]
      /\ rest \in Seq(V) /\ DOMAIN rest = 1..(Len(list) - 1)
      /\ \A i \in 1..(Len(list) - 1) : rest[i] = list[i + 1]
  OBVIOUS
<1> HIDE DEF rest
<1>2. Lines(n, list) = UNION {at(i) : i \in DOMAIN list}
  BY DEF Lines
<1>3. \A i \in DOMAIN rest : {[table |-> n, row |-> rest[i].row, cell |-> x] : x \in rest[i].cells} = at(i + 1)
  BY <1>1
<1>4. Lines(n, rest) = UNION {at(i + 1) : i \in DOMAIN rest}
  BY <1>3 DEF Lines
<1>5. \A i \in DOMAIN list : i = 1 \/ \E j \in DOMAIN rest : i = j + 1
  <2> SUFFICES ASSUME NEW i \in DOMAIN list, i # 1 PROVE \E j \in DOMAIN rest : i = j + 1
    OBVIOUS
  <2>1. i - 1 \in DOMAIN rest /\ i = (i - 1) + 1
    BY <1>1
  <2> QED BY <2>1
<1>6. \A j \in DOMAIN rest : j + 1 \in DOMAIN list
  BY <1>1
<1>7. at(1) = {[table |-> n, row |-> Head(list).row, cell |-> x] : x \in Head(list).cells}
  BY <1>1
<1> HIDE DEF at
<1>8. UNION {at(i) : i \in DOMAIN list} = at(1) \cup UNION {at(i + 1) : i \in DOMAIN rest}
  BY <1>1, <1>5, <1>6
<1> QED BY <1>1, <1>2, <1>4, <1>7, <1>8 DEF rest

LEMMA PrintKeeps ==
  ASSUME DiffInv, PrintRow
  PROVE  DiffInv'
<1>1. /\ input' = input /\ got' = got /\ stage = "print" /\ rowChanges # <<>>
      /\ oldTables' = oldTables /\ newTables' = newTables /\ todo' = todo
  BY DEF PrintRow
<1>2. PICK n : n = Current
  OBVIOUS
<1>3. Current' = n /\ n \in todo /\ n \in DOMAIN newTables
  <2>1. Current' = Current
    BY <1>1 DEF Current
  <2> QED BY <1>1, <1>2, <2>1 DEF DiffInv, TodoInv
<1>4. PICK head : head = {[table |-> n, row |-> Head(rowChanges).row, cell |-> x] : x \in Head(rowChanges).cells}
  OBVIOUS
<1>5. OnBothSides' = OnBothSides /\ \A m : AllLines(m)' = AllLines(m)
  BY <1>1, SameInput
<1>6. /\ \A x \in printed.changed :
           x.table \in OnBothSides /\ x \in AllLines(x.table) /\ x.cell.value # NoCell
      /\ \A m \in OnBothSides \ todo : AllLines(m) \subseteq printed.changed
      /\ \E V : rowChanges \in Seq(V)
      /\ \A y \in Lines(n, rowChanges) : y \in AllLines(n) /\ y.cell.value # NoCell
      /\ AllLines(n) \subseteq printed.changed \cup Lines(n, rowChanges)
  BY <1>1, <1>2 DEF DiffInv, PrintedInv
<1>7. Lines(n, rowChanges) = head \cup Lines(n, Tail(rowChanges)) /\ \E V : Tail(rowChanges) \in Seq(V)
  BY <1>1, <1>4, <1>6, LinesSplit
<1>8. n \in OnBothSides
  BY <1>1, <1>2, <1>3, CurrentIs DEF DiffInv
<1>9. CASE (\E x \in Head(rowChanges).cells : x.value \in Composite) /\ stage' = "panic"
           /\ printed' = printed
  <2>1. ReadInv' /\ MergedInv'
    BY <1>1, <1>9, RestKeeps
  <2>2. ShownInv' /\ TodoInv'
    BY <1>1, <1>3, <1>9 DEF DiffInv, ShownInv, TodoInv
  <2>3. \E y \in AllLines(n) : y.cell.value \in Composite
    <3>1. PICK x \in Head(rowChanges).cells : x.value \in Composite
      BY <1>9
    <3>2. PICK y : y = [table |-> n, row |-> Head(rowChanges).row, cell |-> x]
      OBVIOUS
    <3>3. y \in head /\ y.cell = x
      BY <1>4, <3>2
    <3> QED BY <1>6, <1>7, <3>1, <3>3
  <2>4. PrintedInv'
    BY <1>1, <1>3, <1>5, <1>6, <1>9, <2>3 DEF PrintedInv
  <2> QED BY <2>1, <2>2, <2>4 DEF DiffInv
<1>10. CASE printed' = [printed EXCEPT !.changed = @ \cup head] /\ rowChanges' = Tail(rowChanges)
            /\ stage' = stage
  <2>1. ReadInv' /\ MergedInv'
    BY <1>1, <1>10, RestKeeps
  <2>2. printed' = [added |-> DOMAIN newTables \ DOMAIN oldTables,
                    removed |-> DOMAIN oldTables \ DOMAIN newTables,
                    changed |-> printed.changed \cup head]
    <3>1. PICK a, r, c : /\ a = DOMAIN newTables \ DOMAIN oldTables
                         /\ r = DOMAIN oldTables \ DOMAIN newTables /\ c = printed.changed
      OBVIOUS
    <3>2. printed = [added |-> a, removed |-> r, changed |-> c]
      BY <1>1, <3>1 DEF DiffInv, ShownInv
    <3>3. printed' = [added |-> a, removed |-> r, changed |-> c \cup head]
      BY ONLY <1>10, <3>2
    <3> QED BY <3>1, <3>3
  <2>3. printed'.changed = printed.changed \cup head
    BY <2>2
  <2>4. ShownInv' /\ TodoInv'
    BY <1>1, <1>3, <1>10, <2>2, <2>3 DEF DiffInv, ShownInv, TodoInv
  <2>5. ASSUME NEW x \in head PROVE x.table = n /\ x \in AllLines(n) /\ x.cell.value # NoCell
    <3>1. x.table = n
      BY <1>4
    <3> QED BY <1>6, <1>7, <3>1
  <2>6. \A x \in printed'.changed :
          x.table \in OnBothSides /\ x \in AllLines(x.table) /\ x.cell.value # NoCell
    BY <1>6, <1>8, <2>3, <2>5
  <2>7. /\ \A m \in OnBothSides \ todo : AllLines(m) \subseteq printed'.changed
        /\ AllLines(n) \subseteq printed'.changed \cup Lines(n, Tail(rowChanges))
        /\ \A y \in Lines(n, Tail(rowChanges)) : y \in AllLines(n) /\ y.cell.value # NoCell
    BY <1>6, <1>7, <2>3
  <2>8. PrintedInv'
    BY <1>1, <1>3, <1>5, <1>7, <1>10, <2>6, <2>7 DEF PrintedInv
  <2> QED BY <2>1, <2>4, <2>8 DEF DiffInv
<1> QED BY <1>2, <1>4, <1>9, <1>10 DEF PrintRow

LEMMA DoneKeeps ==
  ASSUME DiffInv, TableDone
  PROVE  DiffInv'
<1>1. /\ input' = input /\ got' = got /\ stage = "print" /\ rowChanges = <<>> /\ stage' = "compare"
      /\ oldTables' = oldTables /\ newTables' = newTables /\ todo' = todo \ {Current}
      /\ printed' = printed
  BY DEF TableDone
<1>2. ReadInv' /\ MergedInv'
  BY <1>1, RestKeeps
<1>3. ShownInv' /\ TodoInv'
  BY <1>1 DEF DiffInv, ShownInv, TodoInv
<1>4. PICK n : n = Current
  OBVIOUS
<1>5. Lines(n, rowChanges) = {}
  BY <1>1 DEF Lines
<1>6. AllLines(n) \subseteq printed.changed
  BY <1>1, <1>4, <1>5 DEF DiffInv, PrintedInv
<1>7. \A m \in OnBothSides \ todo' : AllLines(m) \subseteq printed.changed
  BY <1>1, <1>4, <1>6 DEF DiffInv, PrintedInv
<1>8. OnBothSides' = OnBothSides /\ \A m : AllLines(m)' = AllLines(m)
  BY <1>1, SameInput
<1>9. PrintedInv'
  BY <1>1, <1>7, <1>8 DEF DiffInv, PrintedInv
<1> QED BY <1>2, <1>3, <1>9 DEF DiffInv

LEMMA FinishKeeps ==
  ASSUME DiffInv, Finish
  PROVE  DiffInv'
<1>1. /\ input' = input /\ got' = got /\ stage = "compare" /\ stage' = "done"
      /\ oldTables' = oldTables /\ newTables' = newTables /\ todo' = todo /\ printed' = printed
  BY DEF Finish
<1>2. ReadInv' /\ MergedInv'
  BY <1>1, RestKeeps
<1>3. ShownInv' /\ TodoInv'
  BY <1>1 DEF DiffInv, ShownInv, TodoInv
<1>4. OnBothSides' = OnBothSides /\ \A m : AllLines(m)' = AllLines(m)
  BY <1>1, SameInput
<1>5. PrintedInv'
  BY <1>1, <1>4 DEF DiffInv, PrintedInv
<1> QED BY <1>2, <1>3, <1>5 DEF DiffInv

LEMMA NothingKeeps ==
  ASSUME DiffInv, UNCHANGED diffVars
  PROVE  DiffInv'
<1>1. /\ input' = input /\ got' = got /\ stage' = stage /\ rowChanges' = rowChanges
      /\ oldTables' = oldTables /\ newTables' = newTables /\ todo' = todo /\ printed' = printed
  BY DEF diffVars
<1>2. /\ OnBothSides' = OnBothSides /\ \A m : AllLines(m)' = AllLines(m)
      /\ \A i : ReadOf(i)' = ReadOf(i) /\ \A new : SideTables(new)' = SideTables(new)
  BY <1>1, SameInput
<1>3. ReadInv' /\ MergedInv' /\ ShownInv'
  BY <1>1, <1>2 DEF DiffInv, ReadInv, MergedInv, ShownInv
<1>4. Current' = Current
  BY <1>1 DEF Current
<1>5. TodoInv' /\ PrintedInv'
  BY <1>1, <1>2, <1>4 DEF DiffInv, TodoInv, PrintedInv
<1> QED BY <1>3, <1>5 DEF DiffInv

LEMMA DiffStep == DiffInv /\ [DiffNext]_diffVars => DiffInv'
BY ReadKeeps, MergeKeeps, SkipKeeps, CompareKeeps, PrintKeeps, DoneKeeps, FinishKeeps, NothingKeeps
   DEF DiffNext, Ended

LEMMA DiffAlways == DiffSpec => []DiffInv
BY DiffStarts, DiffStep, PTL DEF DiffSpec

-----------------------------------------------------------------------------
(* What a line that the comparison found stands for.                       *)
LEMMA LineIs ==
  ASSUME input \in Inputs, NEW n, n \in OnBothSides, Unambiguous(n), NEW x \in AllLines(n)
  PROVE  /\ x.cell.value # NoCell => x \in Differences(n)
         /\ x.cell.value = NoCell => \E y \in Differences(n) :
              Renamed(OldTable(n), y.cell.label) \/ Renamed(NewTable(n), y.cell.label)
<1>1. PICK o, t : o = OldTable(n) /\ t = NewTable(n)
  OBVIOUS
<1>2. IsTable(o) /\ IsTable(t) /\ ColumnsDiffer(o) /\ ColumnsDiffer(t)
  BY <1>1, LastExists DEF OnBothSides, OldTable, NewTable, Unambiguous
<1>3. PICK id, c : /\ id \in RowIds(t) /\ c \in RowDiff(Loaded(o), Loaded(t), id)
                   /\ x = [table |-> n, row |-> id, cell |-> c]
  BY <1>1 DEF AllLines
<1>4. id \in Int
  <2>1. t.base \in Nat /\ DOMAIN t.rows = 1..Len(t.rows)
    BY <1>2, TableIs
  <2> QED BY <1>3, <2>1 DEF RowIds
<1>5. PICK l : l = c.label
  OBVIOUS
<1>6. /\ l \in Labels
      /\ c.value # NoCell => Differs(c, l, CellsAt(o, id, l), CellsAt(t, id, l))
      /\ c.value = NoCell => /\ Renamed(o, l) \/ Renamed(t, l)
                             /\ \E y : y.label = l /\ Differs(y, l, CellsAt(o, id, l), CellsAt(t, id, l))
  BY <1>2, <1>3, <1>4, <1>5, RealChange
<1>7. ASSUME NEW y, Differs(y, l, CellsAt(o, id, l), CellsAt(t, id, l))
      PROVE  [table |-> n, row |-> id, cell |-> y] \in Differences(n)
  <2>1. [table |-> n, row |-> id, cell |-> y] \in DifferencesAt(n, id, l)
    BY <1>1, <1>7 DEF Differs, DifferencesAt
  <2> QED BY <1>1, <1>3, <1>6, <2>1 DEF Differences
<1>8. x.cell = c
  BY <1>3
<1>9. CASE c.value # NoCell
  BY <1>3, <1>6, <1>7, <1>8, <1>9
<1>10. CASE c.value = NoCell
  <2>1. PICK y : y.label = l /\ Differs(y, l, CellsAt(o, id, l), CellsAt(t, id, l))
    BY <1>6, <1>10
  <2>2. PICK z : z = [table |-> n, row |-> id, cell |-> y]
    OBVIOUS
  <2>3. z \in Differences(n) /\ z.cell = y
    BY <1>7, <2>1, <2>2
  <2> QED BY <1>1, <1>6, <1>8, <1>10, <2>1, <2>3
<1> QED BY <1>9, <1>10

(* Whatever the diff command shows as changed is on both sides, and does   *)
(* differ between them (RowDiff::diff), for all files, tables, names and   *)
(* orders in which the workers end.                                        *)
THEOREM OnlyReal == DiffSpec => []OnlyRealDifferences
<1>1. DiffInv => OnlyRealDifferences
  <2> SUFFICES ASSUME DiffInv, NEW x \in printed.changed
               PROVE  x.table \in OnBothSides /\ (Unambiguous(x.table) => x \in Differences(x.table))
    BY DEF OnlyRealDifferences
  <2>1. PICK n : n = x.table
    OBVIOUS
  <2>2. n \in OnBothSides /\ x \in AllLines(n) /\ x.cell.value # NoCell /\ input \in Inputs
    BY <2>1 DEF DiffInv, PrintedInv, ReadInv
  <2> QED BY <2>1, <2>2, LineIs
<1> QED BY <1>1, DiffAlways, PTL

(* Of a table that was dealt with, every difference was shown, but for     *)
(* those under a label that was a hash in the file.                        *)
THEOREM AllShown == DiffSpec => []AllDifferences
<1>1. DiffInv => AllDifferences
  <2> SUFFICES ASSUME DiffInv, stage \in {"compare", "done"}, NEW n \in OnBothSides \ todo,
                      Unambiguous(n), NEW id \in RowIds(NewTable(n)), NEW l \in Labels,
                      ~Renamed(OldTable(n), l), ~Renamed(NewTable(n), l),
                      NEW x \in DifferencesAt(n, id, l)
               PROVE  x \in printed.changed
    BY DEF AllDifferences
  <2>1. PICK o, t : o = OldTable(n) /\ t = NewTable(n)
    OBVIOUS
  <2>2. IsTable(o) /\ IsTable(t) /\ ColumnsDiffer(o) /\ ColumnsDiffer(t)
    BY <2>1, LastExists DEF OnBothSides, OldTable, NewTable, Unambiguous, DiffInv, ReadInv
  <2>3. id \in Int
    <3>1. t.base \in Nat /\ DOMAIN t.rows = 1..Len(t.rows)
      BY <2>2, TableIs
    <3> QED BY <2>1, <3>1 DEF RowIds
  <2>4. PICK c : /\ x = [table |-> n, row |-> id, cell |-> c]
                 /\ Differs(c, l, CellsAt(o, id, l), CellsAt(t, id, l))
    BY <2>1 DEF DifferencesAt, Differs
  <2>5. c \in RowDiff(Loaded(o), Loaded(t), id)
    BY <2>1, <2>2, <2>3, <2>4, AllChanges DEF DiffInv, ReadInv
  <2>6. x \in AllLines(n)
    BY <2>1, <2>4, <2>5 DEF AllLines
  <2> QED BY <2>6 DEF DiffInv, PrintedInv
<1> QED BY <1>1, DiffAlways, PTL

(* A table both sides have is shown as added or removed only if the files  *)
(* of the other side that hold it could not be read.                       *)
THEOREM SidesShown == DiffSpec => []WrongSideOnlyIfUnread
<1>1. DiffInv => WrongSideOnlyIfUnread
  <2> SUFFICES ASSUME DiffInv, stage # "read", NEW new \in BOOLEAN, NEW n \in Labels
               PROVE  /\ n \in ShownFor(new) =>
                           \A i \in FilesOf(~new) : n \in NamesIn(i) => ~input.files[i].readable
                      /\ (n \notin ShownFor(new) /\ \A i \in FilesOf(~new) : n \notin NamesIn(i)) =>
                           \A i \in FilesOf(new) : n \in NamesIn(i) => ~input.files[i].readable
    BY DEF WrongSideOnlyIfUnread
  <2>1. /\ printed.added = DOMAIN newTables \ DOMAIN oldTables
        /\ printed.removed = DOMAIN oldTables \ DOMAIN newTables
    BY DEF DiffInv, ShownInv
  <2>2. n \in ShownFor(new) <=> Places(new, n) # {} /\ Places(~new, n) = {}
    BY <2>1, SidesAre DEF ShownFor, DiffInv
  <2>3. input \in Inputs
    BY DEF DiffInv, ReadInv
  <2>4. ASSUME NEW side, NEW i \in FilesOf(side), n \in NamesIn(i), input.files[i].readable
        PROVE  Places(side, n) # {}
    <3>1. i \in 1..Len(input.files) /\ input.files[i].new = side
      BY <2>3, <2>4, FilesAre DEF FilesOf
    <3>2. PICK k \in 1..Len(input.files[i].tables) : NameIn(input.files[i].tables[k]) = n
      BY <2>3, <2>4, <3>1, FilesAre DEF NamesIn, ToSet
    <3>3. <<i, k>> \in Places(side, n)
      BY <2>3, <2>4, <3>1, <3>2, PlaceIs
    <3> QED BY <3>3
  <2>5. ASSUME NEW side, Places(side, n) # {}
        PROVE  \E i \in FilesOf(side) : n \in NamesIn(i)
    <3>1. PICK p \in Places(side, n) : p = <<p[1], p[2]>>
      BY <2>3, <2>5, PlaceIs
    <3>2. PICK i, k : p = <<i, k>>
      BY <3>1
    <3>3. <<i, k>> \in Places(side, n)
      BY <3>2
    <3>4. /\ i \in 1..Len(input.files) /\ input.files[i].new = side
          /\ k \in 1..Len(input.files[i].tables) /\ NameIn(input.files[i].tables[k]) = n
      BY <2>3, <3>3, PlaceIs
    <3>5. n \in NamesIn(i) /\ i \in FilesOf(side)
      BY <2>3, <3>4, FilesAre DEF NamesIn, FilesOf, ToSet
    <3> QED BY <3>5
  <2> QED BY <2>2, <2>4, <2>5
<1> QED BY <1>1, DiffAlways, PTL

(* The command breaks off only at a table with a difference that cannot be *)
(* printed.                                                                *)
THEOREM BreaksOff == DiffSpec => []BreaksOffOnlyAt
<1>1. DiffInv => BreaksOffOnlyAt
  <2> SUFFICES ASSUME DiffInv, stage = "panic", NEW n, n = Current, Unambiguous(n)
               PROVE  \E x \in Differences(n) :
                        \/ x.cell.value \in Composite
                        \/ Renamed(OldTable(n), x.cell.label) \/ Renamed(NewTable(n), x.cell.label)
    BY DEF BreaksOffOnlyAt
  <2>1. n \in OnBothSides /\ input \in Inputs
    BY CurrentIs DEF DiffInv, TodoInv, ReadInv
  <2>2. PICK y \in AllLines(n) : y.cell.value = NoCell \/ y.cell.value \in Composite
    BY DEF DiffInv, PrintedInv
  <2>3. NoCell \notin Composite
    BY DiffAssumption DEF DiffAssumption
  <2> QED BY <2>1, <2>2, <2>3, LineIs
<1> QED BY <1>1, DiffAlways, PTL
=============================================================================
