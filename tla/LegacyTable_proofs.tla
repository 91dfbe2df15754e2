------------------------- MODULE LegacyTable_proofs -------------------------
(***************************************************************************)
(* Proofs about LegacyTableWriter, for every table and every options: that *)
(* it keeps its types and reserves what it writes; then what of the image  *)
(* is written where, and that it stays so until the image is damaged.      *)
(***************************************************************************)
EXTENDS LegacyRoundTrip, ProofBasics

(* Padding never shrinks a length.                                         *)
LEMMA Padding ==
  ASSUME NEW len \in Nat, NEW n \in {2, 4, 8, 32, 64}
  PROVE  PadTo(n, len) \in Nat /\ PadTo(n, len) >= len
  BY DEF PadTo

LEMMA NameSizes ==
  ASSUME NEW t \in Text
  PROVE  NameSize(t) \in Nat /\ NameSize(t) > 0
  BY FormatAssumption, Padding DEF NameSize

(* What the assumptions say of the items of a table.                       *)
LEMMA Items ==
  ASSUME tab \in Tables
  PROVE  /\ N \in Nat
         /\ \A j \in 0..N : Label(j) \in Text
         /\ \A j \in 1..N : InfoSize(tab, j) \in {4, 6, 8} /\ DataSize(tab, j) \in Nat
         /\ \A j \in 1..N : IsFlag(tab, j) => FlagOf(tab, j).parent \in 1..N
         /\ \A j \in 1..N : ~IsFlag(tab, j) => tab.columns[j].count \in Nat
<1>1. tab \in Table /\ ParentsExist(tab)
  BY WriterAssumption
<1>2. /\ tab.name \in Text
      /\ tab.columns \in Seq(Column) /\ Len(tab.columns) \in Nat
      /\ tab.flags \in Seq(Flag) /\ Len(tab.flags) \in Nat
  BY <1>1 DEF Table
<1>3. N = Len(tab.columns) + Len(tab.flags)
  BY DEF N, ItemCount
<1>9. N \in Nat
  BY <1>1, <1>3 DEF Table
<1>4. ASSUME NEW j \in 1..N, IsFlag(tab, j)
      PROVE  /\ FlagOf(tab, j) \in Flag
             /\ FlagOf(tab, j).parent \in 1..N
  <2>. DEFINE i == j - Len(tab.columns)
  <2>1. i \in 1..Len(tab.flags)
    BY <1>1, <1>3, <1>4 DEF IsFlag, Table
  <2>2. FlagOf(tab, j) \in Flag
    BY <1>1, <2>1 DEF FlagOf, Table
  <2>3. FlagOf(tab, j).parent <= Len(tab.columns)
    BY <1>1, <2>1 DEF ParentsExist, FlagOf
  <2>4. PICK f \in Flag : f = FlagOf(tab, j)
    BY <2>2
  <2>5. f.parent \in 1..N
    BY <1>1, <1>3, <2>3, <2>4 DEF Table, Flag
  <2>. QED BY <2>4, <2>5
<1>5. ASSUME NEW j \in 1..N, ~IsFlag(tab, j)
      PROVE  tab.columns[j] \in Column
  BY <1>1, <1>3, <1>5 DEF IsFlag, Table
<1>6. ASSUME NEW j \in 0..N
      PROVE  Label(j) \in Text
  <2>1. CASE j = 0
    BY <1>2, <2>1 DEF Label
  <2>2. CASE j # 0 /\ IsFlag(tab, j)
    <3>1. j \in 1..N
      BY <1>9, <2>2
    <3>2. FlagOf(tab, j) \in Flag
      BY <1>4, <2>2, <3>1
    <3>3. Label(j) = FlagOf(tab, j).label
      BY <2>2 DEF Label, ItemLabel
    <3>. QED BY <3>2, <3>3 DEF Flag
  <2>3. CASE j # 0 /\ ~IsFlag(tab, j)
    <3>1. j \in 1..N
      BY <1>9, <2>3
    <3>2. tab.columns[j] \in Column
      BY <1>5, <2>3, <3>1
    <3>3. Label(j) = tab.columns[j].label
      BY <2>3 DEF Label, ItemLabel
    <3>. QED BY <3>2, <3>3 DEF Column
  <2>. QED BY <2>1, <2>2, <2>3
<1>7. ASSUME NEW j \in 1..N
      PROVE  InfoSize(tab, j) \in {4, 6, 8} /\ DataSize(tab, j) \in Nat
  <2>1. CASE IsFlag(tab, j)
    BY <2>1 DEF InfoSize, DataSize
  <2>2. CASE ~IsFlag(tab, j)
    <3>1. /\ tab.columns[j].width \in {1, 2, 4}
          /\ tab.columns[j].count \in Nat
      BY <1>5, <2>2 DEF Column
    <3>. DEFINE c == tab.columns[j].count
                w == tab.columns[j].width
    <3>2. w * c \in Nat /\ w * 1 \in Nat
      BY <3>1
    <3>. QED BY <2>2, <3>2 DEF InfoSize, DataSize
  <2>. QED BY <2>1, <2>2
<1>8. \A j \in 1..N : ~IsFlag(tab, j) => tab.columns[j].count \in Nat
  BY <1>5 DEF Column
<1>. QED BY <1>4, <1>6, <1>7, <1>8, <1>9

LEMMA OptionsOK ==
  ASSUME opt \in Options
  PROVE  /\ opt.wii \in BOOLEAN /\ opt.scramble \in BOOLEAN
         /\ opt.hashSlots \in Nat \ {0}
         /\ HeaderSize(opt.wii) \in Nat
<1>1. opt \in [wii : BOOLEAN, hashSlots : Nat \ {0}, scramble : BOOLEAN]
  BY WriterAssumption
<1>2. opt.wii \in BOOLEAN /\ opt.scramble \in BOOLEAN
  BY <1>1, Zenon
<1>3. opt.hashSlots \in Nat \ {0}
  BY <1>1
<1>4. HeaderSize(opt.wii) \in Nat
  BY DEF HeaderSize
<1>. QED BY <1>2, <1>3, <1>4, Zenon

(* make_space and insert agree on the space a name takes.                  *)
LEMMA SpaceAgrees ==
  ASSUME CallOK, NEW j \in 0..N
  PROVE  ReservedSize(j) \in Nat /\ InsertedSize(j) = ReservedSize(j)
<1>1. NameSize(Label(j)) \in Nat
  BY Items, NameSizes DEF CallOK
<1>2. opt.wii \in BOOLEAN
  BY OptionsOK, Zenon DEF CallOK
<1>. QED BY <1>1, <1>2 DEF ReservedSize, InsertedSize, NodeSize

LEMMA Extended ==
  ASSUME NEW f, NatFun(f), NEW j, NEW x \in Nat
  PROVE  /\ NatFun(Extend(f, j, x))
         /\ DOMAIN Extend(f, j, x) = DOMAIN f \cup {j}
         /\ Extend(f, j, x)[j] = x
         /\ \A i \in DOMAIN f : i # j => Extend(f, j, x)[i] = f[i]
  BY DEF NatFun, Extend

CellsOK(mem) == mem \in [DOMAIN mem -> MemCell] /\ DOMAIN mem \subseteq Nat

LEMMA Stored ==
  ASSUME NEW mem, CellsOK(mem), NEW at \in Nat, NEW cell \in MemCell
  PROVE  CellsOK(Store(mem, at, cell))
  BY DEF CellsOK, Store

LEMMA StoredAll ==
  ASSUME NEW mem, CellsOK(mem), NEW writes, CellsOK(writes)
  PROVE  CellsOK(StoreAll(mem, writes))
  BY DEF CellsOK, StoreAll

(* A call never changes its arguments.                                     *)
LEMMA Fixed ==
  ASSUME CallOK, UNCHANGED input
  PROVE  CallOK' /\ N' = N /\ tab' = tab /\ opt' = opt
  BY DEF CallOK, N, input

IInv == TypeOK /\ Progress

LEMMA InitOK == Init => IInv
<1>. SUFFICES ASSUME Init PROVE IInv
  OBVIOUS
<1>1. CallOK /\ N \in Nat
  BY Items DEF Init, CallOK
<1>2. HeaderSize(opt.wii) \in Nat /\ opt.hashSlots \in Nat \ {0}
  BY <1>1, OptionsOK, Zenon DEF CallOK
<1>3. NatFun(Empty) /\ DOMAIN Empty = {}
  BY DEF NatFun, Empty
<1>4. ControlOK /\ NamesOK /\ InfosOK /\ ChainOK
  BY <1>1, <1>2, <1>3 DEF Init, ControlOK, NamesOK, InfosOK, ChainOK, Phases
<1>5. ImageOK /\ MarksOK /\ StringsOK /\ ResultOK
  BY <1>3 DEF Init, ImageOK, MarksOK, StringsOK, ResultOK, Empty, NatFun
<1>6. Progress
  BY <1>1, <1>3 DEF Init, Progress, WritePhases
<1>. QED BY <1>1, <1>4, <1>5, <1>6 DEF IInv, TypeOK

(* The parts of the invariant whose variables do not change.               *)
LEMMA SameParts ==
  ASSUME TypeOK, UNCHANGED input
  PROVE  /\ CallOK' /\ N' = N /\ tab' = tab /\ opt' = opt
         /\ UNCHANGED names => NamesOK'
         /\ UNCHANGED infos => InfosOK'
         /\ UNCHANGED chain => ChainOK'
         /\ UNCHANGED <<buf, pos>> => ImageOK'
         /\ UNCHANGED marks => MarksOK'
         /\ UNCHANGED strings => StringsOK'
         /\ UNCHANGED result => ResultOK'
<1>1. CallOK' /\ N' = N /\ tab' = tab /\ opt' = opt
  BY Fixed DEF TypeOK
<1>2. UNCHANGED names => NamesOK'
  BY <1>1 DEF TypeOK, NamesOK, names, NatFun
<1>3. UNCHANGED infos => InfosOK'
  BY <1>1 DEF TypeOK, InfosOK, infos, NatFun
<1>4. UNCHANGED chain => ChainOK'
  BY <1>1 DEF TypeOK, ChainOK
<1>5. UNCHANGED <<buf, pos>> => ImageOK'
  BY DEF TypeOK, ImageOK
<1>6. UNCHANGED marks => MarksOK'
  BY DEF TypeOK, MarksOK, marks, NatFun
<1>7. UNCHANGED strings => StringsOK'
  BY DEF TypeOK, StringsOK, strings, NatFun
<1>8. UNCHANGED result => ResultOK'
  BY DEF TypeOK, ResultOK, result
<1>. QED BY <1>1, <1>2, <1>3, <1>4, <1>5, <1>6, <1>7, <1>8

LEMMA LayoutOK ==
  ASSUME IInv, LayoutStep
  PROVE  IInv'
<1>. USE DEF IInv
<1>1. /\ N \in Nat
      /\ \A j \in 0..N : Label(j) \in Text
      /\ \A j \in 1..N : InfoSize(tab, j) \in Nat /\ DataSize(tab, j) \in Nat
      /\ \A j \in 0..N : ReservedSize(j) \in Nat /\ InsertedSize(j) \in Nat
  BY Items, SpaceAgrees DEF TypeOK, CallOK
<1>2. HeaderSize(opt.wii) \in Nat /\ opt.hashSlots \in Nat \ {0}
  BY OptionsOK, Zenon DEF TypeOK, CallOK
<1>3. UNCHANGED input
  BY DEF LayoutStep, ReserveTableName, ReserveName, ReserveDone, AddInfo,
         InfosDone, AddNode, NodesDone
<1>4. CASE ReserveTableName
  <2>0. NatFun(nameOff') /\ DOMAIN nameOff' = DOMAIN nameOff \cup {0}
    BY <1>4, Extended DEF ReserveTableName, TypeOK, NamesOK
  <2>5. NatFun(spaceAt') /\ DOMAIN spaceAt' = DOMAIN spaceAt \cup {0}
    BY <1>4, Extended DEF ReserveTableName, TypeOK, NamesOK
  <2>6. nameLen' \in Nat /\ nameMax' \in Nat /\ nameBase' \in Nat
    BY <1>1, <1>4 DEF ReserveTableName, TypeOK, NamesOK
  <2>1. NamesOK'
    BY <1>1, <1>3, <2>0, <2>5, <2>6, SameParts DEF TypeOK, NamesOK
  <2>2. ControlOK'
    BY <1>4 DEF ReserveTableName, TypeOK, ControlOK, Goto, Phases, rowAt
  <2>3. TypeOK'
    BY <1>3, <1>4, <2>1, <2>2, SameParts DEF ReserveTableName, TypeOK
  <2>4. Progress'
    BY <1>1, <1>3, <1>4, <2>0, <2>5, SameParts
    DEF ReserveTableName, Progress, WritePhases, Goto, infos
  <2>. QED BY <2>3, <2>4
<1>5. CASE ReserveName
  <2>1. k \in 1..N
    BY <1>1, <1>5 DEF ReserveName, Progress
  <2>2. NatFun(spaceAt') /\ DOMAIN spaceAt' = DOMAIN spaceAt \cup {k}
    BY <1>5, Extended DEF ReserveName, TypeOK, NamesOK
  <2>3. nameMax' \in Nat /\ UNCHANGED <<nameBase, nameLen, nameOff>>
    BY <1>1, <1>5, <2>1 DEF ReserveName, TypeOK, NamesOK
  <2>4. NamesOK'
    BY <1>3, <2>1, <2>2, <2>3, SameParts DEF TypeOK, NamesOK, NatFun
  <2>5. ControlOK'
    BY <1>5 DEF ReserveName, TypeOK, ControlOK, Stay, Phases, rowAt
  <2>6. TypeOK'
    BY <1>3, <1>5, <2>4, <2>5, SameParts DEF ReserveName, TypeOK
  <2>7. Progress'
    BY <1>1, <1>3, <1>5, <2>1, <2>2, <2>3, SameParts, SMTT(30)
    DEF ReserveName, Progress, WritePhases, Stay, infos
  <2>. QED BY <2>6, <2>7
<1>6. CASE ReserveDone
  <2>1. ControlOK'
    BY <1>6 DEF ReserveDone, TypeOK, ControlOK, Goto, Phases, rowAt
  <2>2. TypeOK'
    BY <1>3, <1>6, <2>1, SameParts DEF ReserveDone, TypeOK
  <2>3. Progress'
    BY <1>1, <1>3, <1>6, SameParts
    DEF ReserveDone, Progress, WritePhases, Goto, names, infos
  <2>. QED BY <2>2, <2>3
<1>7. CASE AddInfo
  <2>1. k \in 1..N
    BY <1>1, <1>7 DEF AddInfo, Progress
  <2>0. HeaderSize(opt.wii) + infoLen \in Nat
    BY <1>2 DEF TypeOK, InfosOK
  <2>2. NatFun(infoPtr') /\ DOMAIN infoPtr' = DOMAIN infoPtr \cup {k}
    BY <2>0, <1>7, Extended DEF AddInfo, TypeOK, InfosOK
  <2>3. NatFun(dataOff') /\ DOMAIN dataOff' = DOMAIN dataOff \cup {k}
    BY <1>7, Extended DEF AddInfo, TypeOK, InfosOK
  <2>4. infoLen' \in Nat /\ rowLen' \in Nat
    BY <1>1, <1>7, <2>1 DEF AddInfo, TypeOK, InfosOK
  <2>5. InfosOK'
    BY <1>3, <2>1, <2>2, <2>3, <2>4, SameParts DEF TypeOK, InfosOK
  <2>6. ControlOK'
    BY <1>7 DEF AddInfo, TypeOK, ControlOK, Stay, Phases, rowAt
  <2>7. TypeOK'
    BY <1>3, <1>7, <2>5, <2>6, SameParts DEF AddInfo, TypeOK
  <2>8. pc = "infos" /\ pc' = pc /\ k' = k + 1 /\ k' \in 1..(N' + 1) /\ UNCHANGED names
    BY <1>1, <1>3, <1>7, <2>1, SameParts DEF AddInfo, Stay
  <2>9. DOMAIN infoPtr' = 1..(k' - 1) /\ DOMAIN dataOff' = 1..(k' - 1)
    BY <2>1, <2>2, <2>3, <2>8 DEF Progress
  <2>10. Progress'
    BY <1>3, <2>8, <2>9, SameParts DEF Progress, WritePhases, names
  <2>. QED BY <2>7, <2>10
<1>8. CASE InfosDone
  <2>1. PadTo(4, infoLen) \in Nat
    BY Padding DEF TypeOK, InfosOK
  <2>2. InfosOK'
    BY <1>3, <1>8, <2>1, SameParts DEF InfosDone, TypeOK, InfosOK, NatFun
  <2>3. NamesOK'
    BY <1>3, <1>8, <2>1, SameParts DEF InfosDone, TypeOK, NamesOK, NatFun
  <2>4. ControlOK'
    BY <1>8 DEF InfosDone, TypeOK, ControlOK, Goto, Phases, rowAt
  <2>5. TypeOK'
    BY <1>3, <1>8, <2>2, <2>3, <2>4, SameParts DEF InfosDone, TypeOK
  <2>6. Progress'
    BY <1>1, <1>3, <1>8, SameParts DEF InfosDone, Progress, WritePhases, Goto
  <2>. QED BY <2>5, <2>6
<1>9. CASE AddNode
  <2>1. k \in 1..N
    BY <1>1, <1>9 DEF AddNode, Progress
  <2>2. nameOff' = Extend(nameOff, k, nameLen) /\ nameLen' = nameLen + InsertedSize(k)
    BY <1>9 DEF AddNode
  <2>3. NatFun(nameOff') /\ DOMAIN nameOff' = DOMAIN nameOff \cup {k}
    BY <2>2, Extended DEF TypeOK, NamesOK
  <2>4. nameLen' \in Nat /\ UNCHANGED <<nameBase, nameMax, spaceAt>>
    BY <1>1, <1>9, <2>1, <2>2 DEF AddNode, TypeOK, NamesOK
  <2>5. NamesOK'
    BY <1>3, <2>1, <2>3, <2>4, SameParts DEF TypeOK, NamesOK, NatFun
  <2>6. PICK ptr \in Nat, slot \in 0..(opt.hashSlots - 1) :
          \/ chain' = [chain EXCEPT ![slot] = Append(@, ptr)]
          \/ chain' = chain
    <3>1. Slot(Label(k), opt.hashSlots) \in 0..(opt.hashSlots - 1)
      BY <1>1, <1>2, <2>1, FormatAssumption DEF Slot
    <3>2. nameBase + nameLen \in Nat
      BY DEF TypeOK, NamesOK
    <3>3. NodesOffset + (k - 1) * NodeSize(FALSE) \in Nat
      BY <1>2, <2>1 DEF TypeOK, NamesOK, InfosOK, NodesOffset, NodeSize
    <3>. QED BY <1>9, <3>1, <3>2, <3>3 DEF AddNode
  <2>7. ChainOK'
    <3>1. PICK q \in Seq(Nat) : q = chain[slot]
      BY <2>6 DEF TypeOK, ChainOK
    <3>2. Append(q, ptr) \in Seq(Nat)
      BY <2>6
    <3>. QED BY <1>3, <2>6, <3>1, <3>2, SameParts DEF TypeOK, ChainOK
  <2>8. /\ pc = "nodes" /\ UNCHANGED <<row, col, infos, spaceAt>>
        /\ \/ pc' = pc /\ k' = k + 1
           \/ pc' = "error" /\ k' = k
           \/ pc' = "panicNode" /\ k' = k
    BY <1>9 DEF AddNode, Stay, Goto, rowAt
  <2>9. ControlOK'
    BY <2>8 DEF TypeOK, ControlOK, Phases
  <2>10. TypeOK'
    BY <1>3, <1>9, <2>5, <2>7, <2>9, SameParts DEF AddNode, TypeOK
  <2>11. Progress'
    <3>1. CASE pc' # pc
      BY <2>8, <3>1 DEF Progress, WritePhases
    <3>2. CASE pc' = pc
      <4>1. DOMAIN nameOff' = 0..(k' - 1) /\ k' \in 1..(N' + 1)
        BY <1>1, <1>3, <2>1, <2>3, <2>8, <3>2, SameParts DEF Progress
      <4>. QED BY <1>3, <2>8, <3>2, <4>1, SameParts DEF Progress, WritePhases, infos
    <3>. QED BY <3>1, <3>2
  <2>. QED BY <2>10, <2>11
<1>10. CASE NodesDone
  <2>1. ImageOK'
    BY <1>2, <1>3, <1>10, SameParts DEF NodesDone, TypeOK, ImageOK
  <2>2. ControlOK'
    BY <1>10 DEF NodesDone, TypeOK, ControlOK, Goto, Phases, rowAt
  <2>3. TypeOK'
    BY <1>3, <1>10, <2>1, <2>2, SameParts DEF NodesDone, TypeOK
  <2>4. Progress'
    BY <1>1, <1>3, <1>10, SameParts, SMTT(30)
    DEF NodesDone, Progress, WritePhases, Goto, names, infos
  <2>. QED BY <2>3, <2>4
<1>. QED BY <1>4, <1>5, <1>6, <1>7, <1>8, <1>9, <1>10 DEF LayoutStep

(* Once the layout is complete, every pointer exists.                      *)
LEMMA Pointers ==
  ASSUME IInv, pc \in WritePhases, NEW j \in 1..N
  PROVE  /\ infoPtr[j] \in Nat /\ NodePtr(j) \in Nat /\ NamePtr(j) \in Nat
         /\ InfoVal(j) \in Nat
<1>. USE DEF IInv
<1>1. /\ N \in Nat
      /\ IsFlag(tab, j) => FlagOf(tab, j).parent \in 1..N
  BY Items DEF TypeOK, CallOK
<1>2. HeaderSize(opt.wii) \in Nat
  BY OptionsOK DEF TypeOK, CallOK
<1>3. infoPtr[j] \in Nat /\ dataOff[j] \in Nat
  BY <1>1 DEF TypeOK, InfosOK, NatFun, Progress
<1>4. \A i \in 1..N : nameBase + nameOff[i] \in Nat
  BY <1>1 DEF TypeOK, NamesOK, NatFun, Progress
<1>5. NodesOffset \in Nat
  BY <1>2 DEF TypeOK, NamesOK, InfosOK, NodesOffset
<1>6. \A i \in 1..N : NodePtr(i) \in Nat
  BY <1>1, <1>4, <1>5 DEF NodePtr, NodeSize
<1>7. NamePtr(j) \in Nat
  BY <1>4 DEF NamePtr
<1>8. InfoVal(j) \in Nat
  BY <1>1, <1>3, <1>6 DEF InfoVal
<1>. QED BY <1>3, <1>6, <1>7, <1>8

LEMMA CellTyped ==
  ASSUME NEW kind \in CellKind, NEW item \in Nat, NEW val \in Nat
  PROVE  Cell(kind, item, val) \in MemCell
  BY DEF Cell, MemCell

(* Every link is stored in a place of the image and leads to a node.       *)
LEMMA LinksTyped ==
  ASSUME TypeOK
  PROVE  CellsOK(Links)
<1>1. N \in Nat
  BY Items DEF TypeOK, CallOK
<1>2. ASSUME NEW p \in Windows
      PROVE  NodeIn(p) \in Nat /\ NextIn(p) \in Nat
  <2>1. p[1] \in DOMAIN chain /\ p[2] \in 1..N /\ p[2] < Len(chain[p[1]])
    BY DEF Windows
  <2>2. PICK q \in Seq(Nat) : q = chain[p[1]]
    BY <2>1 DEF TypeOK, ChainOK
  <2>3. PICK i \in 1..N : i = p[2]
    BY <2>1
  <2>4. i \in 1..Len(q) /\ i + 1 \in 1..Len(q)
    BY <1>1, <2>1, <2>2, <2>3
  <2>5. q[i] \in Nat /\ q[i + 1] \in Nat
    BY <2>4
  <2>. QED BY <2>2, <2>3, <2>5 DEF NodeIn, NextIn
<1>3. ASSUME NEW p \in Windows
      PROVE  LinkAt(NodeIn(p)) \in Nat
  BY <1>2 DEF LinkAt
<1>4. ASSUME NEW p \in Windows
      PROVE  Cell("nodeLink", 0, NextIn(p)) \in MemCell
  BY <1>2, CellTyped DEF CellKind
<1>5. ASSUME NEW a, \E p \in Windows : LinkAt(NodeIn(p)) = a
      PROVE  a \in Nat /\ Cell("nodeLink", 0, NextIn(WindowAt(a))) \in MemCell
  <2>1. WindowAt(a) \in Windows
    BY <1>5, Zenon DEF WindowAt
  <2>2. Cell("nodeLink", 0, NextIn(WindowAt(a))) \in MemCell
    BY <1>4, <2>1, Zenon
  <2>. QED BY <1>3, <1>5, <2>2, Zenon
<1>. QED BY <1>5 DEF CellsOK, Links

LEMMA SectionsOK ==
  ASSUME IInv,
         \/ WriteInfo \/ WriteInfosDone \/ WriteName \/ WriteWiiNode
         \/ WriteNamesDone \/ WriteNode \/ WriteNodesDone \/ WriteFirstLevel
         \/ LinkNodes
  PROVE  IInv'
<1>. USE DEF IInv
<1>1. /\ N \in Nat
      /\ \A j \in 0..N : NameSize(Label(j)) \in Nat
      /\ \A j \in 1..N : InfoSize(tab, j) \in Nat
  BY Items, NameSizes DEF TypeOK, CallOK
<1>2. HeaderSize(opt.wii) \in Nat /\ opt.hashSlots \in Nat \ {0}
  BY OptionsOK, Zenon DEF TypeOK, CallOK
<1>3. UNCHANGED input
  BY ZenonT(60) DEF WriteInfo, WriteInfosDone, WriteName, WriteWiiNode, WriteNamesDone,
         WriteNode, WriteNodesDone, WriteFirstLevel, LinkNodes
<1>4. CellsOK(buf) /\ pos \in Nat
  BY DEF TypeOK, ImageOK, CellsOK
<1>5. CASE WriteInfo
  <2>1. k \in 1..N
    BY <1>1, <1>5 DEF WriteInfo, Progress
  <2>0. pc \in WritePhases
    BY <1>5 DEF WriteInfo, WritePhases
  <2>2. Cell("info", k, InfoVal(k)) \in MemCell
    BY <2>0, <2>1, Pointers, CellTyped DEF CellKind
  <2>3. ImageOK'
    BY <1>1, <1>4, <1>5, <2>1, <2>2, Stored DEF WriteInfo, ImageOK, CellsOK
  <2>4. /\ pc = "writeInfos" /\ UNCHANGED <<row, col, names, infos>>
        /\ \/ pc' = pc /\ k' = k + 1
           \/ pc' = "error" /\ k' = k
    BY <1>5 DEF WriteInfo, Stay, Goto, rowAt
  <2>5. ControlOK'
    BY <2>4 DEF TypeOK, ControlOK, Phases
  <2>6. TypeOK'
    BY <1>3, <1>5, <2>3, <2>5, SameParts DEF WriteInfo, TypeOK
  <2>7. Progress'
    BY <1>1, <1>3, <2>1, <2>4, SameParts DEF Progress, WritePhases, names, infos
  <2>. QED BY <2>6, <2>7
<1>6. CASE WriteInfosDone
  <2>1. pos' \in Nat
    BY <1>2, <1>6 DEF WriteInfosDone, TypeOK, ImageOK, InfosOK
  <2>2. ImageOK'
    BY <1>6, <2>1 DEF WriteInfosDone, TypeOK, ImageOK
  <2>3. ControlOK'
    BY <1>6 DEF WriteInfosDone, TypeOK, ControlOK, Phases, Goto, rowAt
  <2>4. TypeOK'
    BY <1>3, <1>6, <2>2, <2>3, SameParts DEF WriteInfosDone, TypeOK
  <2>5. Progress'
    BY <1>1, <1>3, <1>6, SameParts
    DEF WriteInfosDone, Goto, Progress, WritePhases, names, infos
  <2>. QED BY <2>4, <2>5
<1>7. CASE WriteName
  <2>1. k \in 0..N
    BY <1>1, <1>7 DEF WriteName, Progress
  <2>2. Cell("name", k, 0) \in MemCell
    BY <1>1, <2>1, CellTyped DEF CellKind
  <2>3. ImageOK'
    BY <1>1, <1>4, <1>7, <2>1, <2>2, Stored DEF WriteName, ImageOK, CellsOK
  <2>4. /\ pc = "writeNames" /\ UNCHANGED <<row, col, names, infos>>
        /\ pc' = pc /\ k' = k + 1
    BY <1>7 DEF WriteName, Stay, rowAt
  <2>5. ControlOK'
    BY <2>4 DEF TypeOK, ControlOK, Phases
  <2>6. TypeOK'
    BY <1>3, <1>7, <2>3, <2>5, SameParts DEF WriteName, TypeOK
  <2>7. Progress'
    BY <1>1, <1>3, <2>1, <2>4, SameParts DEF Progress, WritePhases, names, infos
  <2>. QED BY <2>6, <2>7
<1>8. CASE WriteWiiNode
  <2>1. k \in 1..N /\ pc \in WritePhases
    BY <1>1, <1>8 DEF WriteWiiNode, Progress, WritePhases
  <2>2. /\ Cell("nodeInfo", k, infoPtr[k]) \in MemCell
        /\ Cell("nodeLink", 0, 0) \in MemCell
        /\ Cell("name", k, 0) \in MemCell
    BY <2>1, Pointers, CellTyped DEF CellKind
  <2>. DEFINE written ==
         [a \in {pos, pos + 2, pos + 4} |->
            IF a = pos THEN Cell("nodeInfo", k, infoPtr[k])
            ELSE IF a = pos + 2 THEN Cell("nodeLink", 0, 0)
            ELSE Cell("name", k, 0)]
  <2>3. CellsOK(written)
    BY <1>4, <2>2 DEF CellsOK
  <2>4. buf' = StoreAll(buf, written) /\ pos' = pos + 4 + NameSize(Label(k))
    BY <1>8 DEF WriteWiiNode
  <2>. HIDE DEF written
  <2>5. CellsOK(buf') /\ pos' \in Nat
    BY <1>1, <1>4, <2>1, <2>3, <2>4, StoredAll
  <2>6. /\ pc = "writeNames" /\ UNCHANGED <<row, col, names, infos>>
        /\ pc' = pc /\ k' = k + 1
    BY <1>8 DEF WriteWiiNode, Stay, rowAt
  <2>7. ControlOK' /\ ImageOK'
    BY <2>5, <2>6 DEF TypeOK, ControlOK, Phases, ImageOK, CellsOK
  <2>8. TypeOK'
    BY <1>3, <1>8, <2>7, SameParts DEF WriteWiiNode, TypeOK
  <2>9. Progress'
    BY <1>1, <1>3, <2>1, <2>6, SameParts DEF Progress, WritePhases, names, infos
  <2>. QED BY <2>8, <2>9
<1>9. CASE WriteNamesDone
  <2>1. /\ pc = "writeNames" /\ UNCHANGED <<row, col, names, infos>>
        /\ pc' \in {"hash", "writeNodes"} /\ k' = 1
    BY <1>9 DEF WriteNamesDone, Goto, rowAt
  <2>2. ControlOK'
    BY <2>1 DEF TypeOK, ControlOK, Phases
  <2>3. TypeOK'
    BY <1>3, <1>9, <2>2, SameParts DEF WriteNamesDone, TypeOK
  <2>4. Progress'
    BY <1>1, <1>3, <2>1, SameParts DEF Progress, WritePhases, names, infos
  <2>. QED BY <2>3, <2>4
<1>10. CASE WriteNode
  <2>1. k \in 1..N /\ pc \in WritePhases
    BY <1>1, <1>10 DEF WriteNode, Progress, WritePhases
  <2>2. /\ Cell("nodeInfo", k, infoPtr[k]) \in MemCell
        /\ Cell("nodeLink", 0, 0) \in MemCell
        /\ Cell("nodeName", k, NamePtr(k)) \in MemCell
    BY <2>1, Pointers, CellTyped DEF CellKind
  <2>. DEFINE written ==
         [a \in {pos, pos + 2, pos + 4} |->
            IF a = pos THEN Cell("nodeInfo", k, infoPtr[k])
            ELSE IF a = pos + 2 THEN Cell("nodeLink", 0, 0)
            ELSE Cell("nodeName", k, NamePtr(k))]
  <2>3. CellsOK(written)
    BY <1>4, <2>2 DEF CellsOK
  <2>4. buf' = StoreAll(buf, written) /\ pos' = pos + 6
    BY <1>10 DEF WriteNode, NodeSize
  <2>. HIDE DEF written
  <2>5. CellsOK(buf') /\ pos' \in Nat
    BY <1>4, <2>3, <2>4, StoredAll
  <2>6. /\ pc = "writeNodes" /\ UNCHANGED <<row, col, names, infos>>
        /\ pc' = pc /\ k' = k + 1
    BY <1>10 DEF WriteNode, Stay, rowAt
  <2>7. ControlOK' /\ ImageOK'
    BY <2>5, <2>6 DEF TypeOK, ControlOK, Phases, ImageOK, CellsOK
  <2>8. TypeOK'
    BY <1>3, <1>10, <2>7, SameParts DEF WriteNode, TypeOK
  <2>9. Progress'
    BY <1>1, <1>3, <2>1, <2>6, SameParts DEF Progress, WritePhases, names, infos
  <2>. QED BY <2>8, <2>9
<1>11. CASE WriteNodesDone
  <2>1. ControlOK'
    BY <1>11 DEF WriteNodesDone, Goto, rowAt, TypeOK, ControlOK, Phases
  <2>2. TypeOK'
    BY <1>3, <1>11, <2>1, SameParts DEF WriteNodesDone, TypeOK
  <2>3. Progress'
    BY <1>1, <1>3, <1>11, SameParts
    DEF WriteNodesDone, Goto, Progress, WritePhases, names, infos
  <2>. QED BY <2>2, <2>3
<1>12. CASE WriteFirstLevel
  <2>. DEFINE heads ==
         [a \in {pos + 2 * s : s \in DOMAIN chain} |->
            LET s == (a - pos) \div 2
            IN  Cell("slot", s, IF chain[s] = <<>> THEN 0 ELSE chain[s][1])]
  <2>1. ASSUME NEW s \in DOMAIN chain
        PROVE  /\ pos + 2 * s \in Nat /\ ((pos + 2 * s) - pos) \div 2 = s
               /\ Cell("slot", s, IF chain[s] = <<>> THEN 0 ELSE chain[s][1]) \in MemCell
    <3>1. s \in Nat
      BY <1>2, <2>1 DEF TypeOK, ChainOK
    <3>2. PICK q \in Seq(Nat) : q = chain[s]
      BY <2>1 DEF TypeOK, ChainOK
    <3>3. q = <<>> \/ q[1] \in Nat
      OBVIOUS
    <3>4. (IF q = <<>> THEN 0 ELSE q[1]) \in Nat
      BY <3>3
    <3>5. Cell("slot", s, IF q = <<>> THEN 0 ELSE q[1]) \in MemCell
      BY <3>1, <3>4, CellTyped DEF CellKind
    <3>6. pos + 2 * s \in Nat /\ ((pos + 2 * s) - pos) \div 2 = s
      BY <1>4, <3>1
    <3>. QED BY <3>2, <3>5, <3>6, Zenon
  <2>2. \A a \in DOMAIN heads : a \in Nat /\ heads[a] \in MemCell
    <3>. SUFFICES ASSUME NEW s \in DOMAIN chain
                 PROVE  pos + 2 * s \in Nat /\ heads[pos + 2 * s] \in MemCell
      OBVIOUS
    <3>. QED BY <2>1
  <2>3. CellsOK(heads)
    BY <2>2 DEF CellsOK
  <2>4. buf' = StoreAll(buf, heads) /\ pos' = pos + FirstLevelSize(opt.hashSlots)
    BY <1>12 DEF WriteFirstLevel
  <2>. HIDE DEF heads
  <2>5. FirstLevelSize(opt.hashSlots) \in Nat
    BY <1>2, Padding, SMTT(30) DEF FirstLevelSize
  <2>6. ImageOK'
    BY <1>4, <2>3, <2>4, <2>5, StoredAll DEF ImageOK, CellsOK
  <2>7. MarksOK' /\ ControlOK'
    BY <1>4, <1>12
    DEF WriteFirstLevel, Goto, rowAt, TypeOK, MarksOK, NatFun, ControlOK, Phases
  <2>8. TypeOK'
    BY <1>3, <1>12, <2>6, <2>7, SameParts DEF WriteFirstLevel, TypeOK
  <2>9. Progress'
    BY <1>1, <1>3, <1>12, SameParts
    DEF WriteFirstLevel, Goto, Progress, WritePhases, names, infos
  <2>. QED BY <2>8, <2>9
<1>13. CASE LinkNodes
  <2>3. CellsOK(Links)
    BY LinksTyped
  <2>4. /\ buf' = StoreAll(buf, Links) /\ pos' = pos
        /\ pc' = "rows" /\ k' = 1 /\ UNCHANGED <<row, col>>
    BY <1>13 DEF LinkNodes, Goto, rowAt
  <2>5. TotalRowSize \in Nat
    <3>1. Len(tab.rows) \in Nat
      BY WriterAssumption DEF TypeOK, CallOK, Table
    <3>2. rowLen * Len(tab.rows) \in Nat
      BY <3>1 DEF TypeOK, InfosOK
    <3>. QED BY <3>2, Padding DEF TotalRowSize
  <2>6. ImageOK' /\ ControlOK'
    BY <1>4, <2>3, <2>4, StoredAll DEF ImageOK, CellsOK, TypeOK, ControlOK, Phases
  <2>7. NatFun(rowStart')
    BY <1>4, <1>13, Extended DEF LinkNodes, TypeOK, MarksOK
  <2>8. MarksOK'
    BY <1>4, <1>13, <2>7 DEF LinkNodes, TypeOK, MarksOK
  <2>9. strBase' \in Nat /\ UNCHANGED <<strLen, strOff, strList>>
    BY <1>4, <1>13, <2>5 DEF LinkNodes
  <2>10. StringsOK'
    BY <2>9 DEF TypeOK, StringsOK, NatFun
  <2>11. TypeOK'
    BY <1>3, <1>13, <2>6, <2>8, <2>10, SameParts DEF LinkNodes, TypeOK
  <2>12. pc = "link" /\ UNCHANGED <<names, infos>>
    BY <1>13 DEF LinkNodes
  <2>13. Progress'
    BY <1>1, <1>3, <2>4, <2>12, SameParts DEF Progress, WritePhases, names, infos
  <2>. QED BY <2>11, <2>13
<1>. QED BY <1>5, <1>6, <1>7, <1>8, <1>9, <1>10, <1>11, <1>12, <1>13

LEMMA RowsOK ==
  ASSUME IInv, WriteValue \/ RowDone \/ RowsDone
  PROVE  IInv'
<1>. USE DEF IInv
<1>1. tab.rows \in Seq(Seq(CellValue))
  BY WriterAssumption DEF TypeOK, CallOK, Table
<1>2. CellsOK(buf) /\ pos \in Nat
  BY DEF TypeOK, ImageOK, CellsOK
<1>3. UNCHANGED input
  BY ZenonT(60) DEF WriteValue, RowDone, RowsDone
<1>4. CASE WriteValue
  <2>1. PICK cell \in CellValue : cell = tab.rows[row][col]
    <3>1. row \in 1..Len(tab.rows)
      BY <1>1, <1>4 DEF WriteValue, TypeOK, ControlOK
    <3>2. PICK q \in Seq(CellValue) : q = tab.rows[row]
      BY <1>1, <3>1
    <3>3. col \in 1..Len(q)
      BY <1>4, <3>2 DEF WriteValue, TypeOK, ControlOK
    <3>. QED BY <3>2, <3>3
  <2>2. cell.width \in Nat /\ cell.num \in Nat
        /\ (cell.text # NoText => cell.text \in Text)
    BY DEF CellValue
  <2>3. PICK ptr \in Nat : buf' = Store(buf, pos, Cell("value", cell.width, ptr))
    <3>1. cell.text = NoText => cell.num \in Nat
      BY <2>2
    <3>2. strBase + strLen \in Nat
      BY DEF TypeOK, StringsOK
    <3>3. cell.text # NoText /\ ~IsNew(cell.text) => strBase + strOff[cell.text] \in Nat
      BY DEF TypeOK, StringsOK, NatFun, IsNew
    <3>. QED BY <1>4, <2>1, <3>1, <3>2, <3>3 DEF WriteValue
  <2>4. Cell("value", cell.width, ptr) \in MemCell
    BY <2>2, <2>3, CellTyped DEF CellKind
  <2>5. pos' = pos + cell.width
    BY <1>4, <2>1 DEF WriteValue
  <2>6. ImageOK'
    BY <1>2, <2>2, <2>3, <2>4, <2>5, Stored DEF ImageOK, CellsOK
  <2>7. StringsOK'
    <3>1. CASE IsNew(cell.text)
      <4>0. PICK t \in Text : t = cell.text
        BY <2>2, <3>1 DEF IsNew
      <4>1. /\ strOff' = Extend(strOff, t, strLen)
            /\ strList' = Append(strList, t)
            /\ strLen' = strLen + NameSize(t)
            /\ strBase' = strBase
        BY <1>4, <2>1, <3>1, <4>0 DEF WriteValue
      <4>2. NameSize(t) \in Nat
        BY NameSizes
      <4>3. NatFun(strOff) /\ strLen \in Nat
        BY DEF TypeOK, StringsOK
      <4>4. NatFun(Extend(strOff, t, strLen))
            /\ DOMAIN Extend(strOff, t, strLen) = DOMAIN strOff \cup {t}
        BY <4>3, Extended
      <4>5. strLen' \in Nat /\ strList' \in Seq(Text)
        BY <4>1, <4>2 DEF TypeOK, StringsOK
      <4>6. NatFun(strOff') /\ DOMAIN strOff' = DOMAIN strOff \cup {t}
        BY <4>1, <4>4 DEF NatFun
      <4>. QED BY <4>1, <4>5, <4>6 DEF TypeOK, StringsOK, NatFun
    <3>2. CASE ~IsNew(cell.text)
      <4>1. UNCHANGED strings
        BY <1>4, <2>1, <3>2 DEF WriteValue, strings
      <4>. QED BY <1>3, <4>1, SameParts
    <3>. QED BY <3>1, <3>2
  <2>8. pc' = pc /\ k' = k /\ row' = row /\ col' = col + 1 /\ UNCHANGED <<names, infos>>
    BY <1>4 DEF WriteValue
  <2>9. ControlOK'
    BY <2>8 DEF TypeOK, ControlOK
  <2>10. TypeOK'
    BY <1>3, <1>4, <2>6, <2>7, <2>9, SameParts DEF WriteValue, TypeOK
  <2>11. Progress'
    BY <1>3, <2>8, SameParts DEF Progress, names, infos
  <2>. QED BY <2>10, <2>11
<1>5. CASE RowDone
  <2>1. /\ row' = row + 1 /\ col' = 1 /\ pc' = pc /\ k' = k
        /\ UNCHANGED <<names, infos, hashOffset, rowOffset, finalPadding>>
        /\ rowStart' = Extend(rowStart, row + 1, pos)
    BY <1>5 DEF RowDone
  <2>2. NatFun(rowStart')
    BY <1>2, <2>1, Extended DEF TypeOK, MarksOK
  <2>3. MarksOK' /\ ControlOK'
    BY <2>1, <2>2 DEF TypeOK, MarksOK, ControlOK
  <2>4. TypeOK'
    BY <1>3, <1>5, <2>3, SameParts DEF RowDone, TypeOK
  <2>5. Progress'
    BY <1>3, <2>1, SameParts DEF Progress, names, infos
  <2>. QED BY <2>4, <2>5
<1>6. CASE RowsDone
  <2>1. /\ pc = "rows" /\ UNCHANGED <<row, col, names, infos, buf>>
        /\ \/ pc' = "strings" /\ k' = 1 /\ pos' = rowOffset + PadTo(32, pos - rowOffset)
           \/ pc' = "panicRows" /\ k' = k /\ pos' = pos
    BY <1>6 DEF RowsDone, Goto, rowAt
  <2>2. pos' \in Int /\ (pos' # pos => pos' >= 0)
    BY <1>2, <2>1 DEF TypeOK, MarksOK, PadTo
  <2>3. ImageOK' /\ ControlOK'
    BY <1>2, <2>1, <2>2 DEF TypeOK, ImageOK, ControlOK, Phases
  <2>4. TypeOK'
    BY <1>3, <1>6, <2>3, SameParts DEF RowsDone, TypeOK
  <2>5. Progress'
    BY <1>3, <2>1, SameParts DEF Progress, WritePhases, names, infos
  <2>. QED BY <2>4, <2>5
<1>. QED BY <1>4, <1>5, <1>6

LEMMA StringsPhaseOK ==
  ASSUME IInv, WriteString \/ StringsDone
  PROVE  IInv'
<1>. USE DEF IInv
<1>1. CellsOK(buf) /\ pos \in Nat
  BY DEF TypeOK, ImageOK, CellsOK
<1>2. UNCHANGED input
  BY ZenonT(60) DEF WriteString, StringsDone
<1>3. CASE WriteString
  <2>1. PICK t \in Text : t = strList[k]
    BY <1>3 DEF WriteString, TypeOK, StringsOK, ControlOK, Progress
  <2>2. pos' = pos + NameSize(t) /\ pos' \in Nat
    BY <1>1, <1>3, <2>1, NameSizes DEF WriteString
  <2>3. Cell("string", k, 0) \in MemCell
    BY CellTyped DEF TypeOK, ControlOK, CellKind
  <2>4. ImageOK'
    BY <1>1, <1>3, <2>2, <2>3, Stored DEF WriteString, ImageOK, CellsOK
  <2>5. pc' = pc /\ pc = "strings" /\ k' = k + 1 /\ UNCHANGED <<row, col, names, infos>>
    BY <1>3 DEF WriteString, Stay, rowAt
  <2>6. ControlOK'
    BY <2>5 DEF TypeOK, ControlOK
  <2>7. TypeOK'
    BY <1>2, <1>3, <2>4, <2>6, SameParts DEF WriteString, TypeOK
  <2>8. Progress'
    BY <1>2, <2>5, SameParts DEF TypeOK, ControlOK, Progress, WritePhases, names, infos
  <2>. QED BY <2>7, <2>8
<1>4. CASE StringsDone
  <2>1. PadTo(64, pos) \in Nat /\ PadTo(64, pos) >= pos
    BY <1>1, Padding
  <2>2. ImageOK'
    BY <1>4, <2>1 DEF StringsDone, TypeOK, ImageOK
  <2>3. MarksOK'
    BY <1>1, <1>4, <2>1 DEF StringsDone, FinalPadding, TypeOK, MarksOK
  <2>4. ControlOK'
    BY <1>4 DEF StringsDone, Goto, rowAt, TypeOK, ControlOK, Phases
  <2>5. TypeOK'
    BY <1>2, <1>4, <2>2, <2>3, <2>4, SameParts DEF StringsDone, TypeOK
  <2>6. Progress'
    BY <1>2, <1>4, SameParts DEF StringsDone, Goto, Progress, WritePhases, names, infos
  <2>. QED BY <2>5, <2>6
<1>. QED BY <1>3, <1>4

LEMMA PatchOK ==
  ASSUME IInv, PatchStep
  PROVE  IInv'
<1>. USE DEF IInv
<1>1. UNCHANGED input
  BY ZenonT(60) DEF PatchStep, WriteHeader, Rescramble
<1>2. CASE WriteHeader
  <2>1. DOMAIN header' = DOMAIN NoHeader
    BY <1>2 DEF WriteHeader, NoHeader, TypeOK, ResultOK
  <2>2. ResultOK'
    BY <1>2, <2>1 DEF WriteHeader, TypeOK, ResultOK, NoHeader
  <2>3. pc = "header" /\ pc' \in {"scramble", "done", "error"} /\ k' = k
        /\ UNCHANGED <<row, col, names, infos>>
    BY <1>2 DEF WriteHeader, Goto, rowAt
  <2>4. ControlOK'
    BY <2>3 DEF TypeOK, ControlOK, Phases
  <2>5. TypeOK'
    BY <1>1, <1>2, <2>2, <2>4, SameParts DEF WriteHeader, TypeOK
  <2>6. Progress'
    BY <1>1, <2>3, SameParts DEF Progress, WritePhases, names, infos
  <2>. QED BY <2>5, <2>6
<1>3. CASE Rescramble
  <2>1. HeaderSize(opt.wii) \in Nat
    BY OptionsOK, Zenon DEF TypeOK, CallOK
  <2>2. ScrambledRanges \subseteq Nat \X Nat
    BY DEF ScrambledRanges, TypeOK, NamesOK, MarksOK, StringsOK
  <2>3. ResultOK'
    BY <1>3, <2>2 DEF Rescramble, TypeOK, ResultOK, NoHeader
  <2>4. ControlOK'
    BY <1>3 DEF Rescramble, Goto, rowAt, TypeOK, ControlOK, Phases
  <2>5. TypeOK'
    BY <1>1, <1>3, <2>3, <2>4, SameParts DEF Rescramble, TypeOK
  <2>6. Progress'
    BY <1>1, <1>3, SameParts DEF Rescramble, Goto, Progress, WritePhases, names, infos
  <2>. QED BY <2>5, <2>6
<1>. QED BY <1>2, <1>3 DEF PatchStep

LEMMA StutterOK ==
  ASSUME IInv, UNCHANGED vars
  PROVE  IInv'
<1>1. UNCHANGED input /\ UNCHANGED <<pc, k, row, col, names, infos, chain, buf, pos, marks, strings, result>>
  BY DEF vars, rowAt
<1>2. ControlOK'
  BY <1>1 DEF IInv, TypeOK, ControlOK
<1>3. TypeOK'
  BY <1>1, <1>2, SameParts DEF IInv, TypeOK
<1>4. Progress'
  BY <1>1, SameParts DEF IInv, Progress, names, infos
<1>. QED BY <1>3, <1>4 DEF IInv

LEMMA StepOK == IInv /\ [Next]_vars => IInv'
  BY LayoutOK, SectionsOK, RowsOK, StringsPhaseOK, PatchOK, StutterOK, Zenon
  DEF Next, WriteStep, Returned

(* Every state of a call to TableWriter::write is well-typed: offsets and  *)
(* lengths are naturals, pointers exist for the items laid out so far, and *)
(* the image is made of cells.                                             *)
THEOREM TypeCorrect == Spec => []TypeOK
<1>1. IInv => TypeOK
  BY DEF IInv
<1>. QED BY InitOK, StepOK, <1>1, PTL DEF Spec

-----------------------------------------------------------------------------
(* The two passes over the names agree: name j is inserted where the space *)
(* for it was reserved.                                                    *)
Reserved ==
  /\ 0 \in DOMAIN spaceAt => spaceAt[0] = 0
  /\ \A j \in DOMAIN spaceAt \ {0} : spaceAt[j] = spaceAt[j - 1] + ReservedSize(j - 1)
  /\ pc = "start" => nameMax = 0
  /\ pc = "reserve" => nameMax = spaceAt[k - 1] + ReservedSize(k - 1)
  /\ pc \in WritePhases \cup {"infos", "nodes"} => nameMax = spaceAt[N] + ReservedSize(N)
Inserted ==
  /\ \A j \in DOMAIN nameOff : nameOff[j] = spaceAt[j]
  /\ pc = "start" => nameLen = 0
  /\ pc \in {"reserve", "infos"} => nameLen = nameOff[0] + ReservedSize(0)
  /\ pc = "nodes" => nameLen = nameOff[k - 1] + ReservedSize(k - 1)
  /\ pc \in WritePhases => nameLen = nameOff[N] + ReservedSize(N)

SpaceInv == IInv /\ Reserved /\ Inserted

LEMMA SpaceInit == Init => SpaceInv
<1>. SUFFICES ASSUME Init PROVE SpaceInv
  OBVIOUS
<1>1. Reserved /\ Inserted
  BY DEF Init, Reserved, Inserted, Empty, WritePhases
<1>. QED BY <1>1, InitOK DEF SpaceInv

(* The steps after the layout pass leave the names alone.                  *)
LEMMA NamesFixed ==
  ASSUME IInv, WriteStep \/ PatchStep
  PROVE  /\ UNCHANGED names /\ pc \in WritePhases
         /\ pc' \in WritePhases \cup {"error"}
<1>1. CASE WriteInfo \/ WriteInfosDone \/ WriteName \/ WriteWiiNode \/ WriteNamesDone
  <2>1. UNCHANGED names
    BY <1>1, Zenon DEF WriteInfo, WriteInfosDone, WriteName, WriteWiiNode, WriteNamesDone
  <2>. QED BY <1>1, <2>1 DEF WriteInfo, WriteInfosDone, WriteName, WriteWiiNode,
                             WriteNamesDone, Goto, Stay, WritePhases
<1>2. CASE WriteNode \/ WriteNodesDone \/ WriteFirstLevel \/ LinkNodes
  <2>1. UNCHANGED names
    BY <1>2, Zenon DEF WriteNode, WriteNodesDone, WriteFirstLevel, LinkNodes
  <2>. QED BY <1>2, <2>1 DEF WriteNode, WriteNodesDone, WriteFirstLevel, LinkNodes,
                             Goto, Stay, WritePhases
<1>3. CASE WriteValue \/ RowDone \/ RowsDone \/ WriteString \/ StringsDone
  <2>1. UNCHANGED names
    BY <1>3, Zenon DEF WriteValue, RowDone, RowsDone, WriteString, StringsDone
  <2>. QED BY <1>3, <2>1 DEF WriteValue, RowDone, RowsDone, WriteString, StringsDone,
                             Goto, Stay, WritePhases
<1>4. CASE PatchStep
  BY <1>4 DEF PatchStep, WriteHeader, Rescramble, Goto, WritePhases
<1>. QED BY <1>1, <1>2, <1>3, <1>4, Zenon DEF WriteStep

LEMMA SameSizes ==
  ASSUME CallOK, UNCHANGED input
  PROVE  N' = N /\ \A j : ReservedSize(j)' = ReservedSize(j)
  BY DEF input, N, ReservedSize, Label

LEMMA SpaceKept ==
  ASSUME SpaceInv, UNCHANGED <<input, names>>,
         \/ pc' = pc /\ k' = k
         \/ pc \in WritePhases /\ pc' \in WritePhases \cup {"error"}
         \/ pc = "reserve" /\ k = N + 1 /\ pc' = "infos"
         \/ pc = "infos" /\ pc' = "infos"
  PROVE  (Reserved /\ Inserted)'
<1>1. N' = N /\ \A j : ReservedSize(j)' = ReservedSize(j)
  BY SameSizes DEF SpaceInv, IInv, TypeOK
<1>2. /\ nameLen' = nameLen /\ nameMax' = nameMax
      /\ nameOff' = nameOff /\ spaceAt' = spaceAt
  BY DEF names
<1>3. N \in Nat
  BY Items DEF SpaceInv, IInv, TypeOK, CallOK
<1>4. Reserved'
  BY <1>1, <1>2, <1>3 DEF SpaceInv, Reserved, WritePhases
<1>5. Inserted'
  BY <1>1, <1>2, <1>3 DEF SpaceInv, Inserted, WritePhases
<1>. QED BY <1>4, <1>5

LEMMA SpaceStep == SpaceInv /\ [Next]_vars => SpaceInv'
<1>. SUFFICES ASSUME SpaceInv, [Next]_vars PROVE (Reserved /\ Inserted)'
  BY StepOK DEF SpaceInv
<1>1. CallOK /\ N \in Nat /\ \A j \in 0..N : /\ ReservedSize(j) \in Nat
                                           /\ InsertedSize(j) = ReservedSize(j)
  BY Items, SpaceAgrees DEF SpaceInv, IInv, TypeOK, CallOK
<1>2. UNCHANGED input => /\ N' = N
                         /\ \A j : ReservedSize(j)' = ReservedSize(j)
  BY <1>1, SameSizes
<1>3. /\ NatFun(nameOff) /\ NatFun(spaceAt) /\ NatFun(infoPtr)
      /\ nameLen \in Nat /\ nameMax \in Nat
  BY DEF SpaceInv, IInv, TypeOK, NamesOK, InfosOK
<1>4. CASE ReserveTableName
  <2>1. /\ k = 0 /\ DOMAIN nameOff = {} /\ DOMAIN spaceAt = {}
        /\ nameLen = 0 /\ nameMax = 0
    BY <1>4 DEF ReserveTableName, SpaceInv, IInv, Progress, Reserved, Inserted
  <2>2. /\ DOMAIN spaceAt' = {0} /\ spaceAt'[0] = 0
        /\ DOMAIN nameOff' = {0} /\ nameOff'[0] = 0
        /\ nameMax' = ReservedSize(0) /\ nameLen' = ReservedSize(0)
        /\ pc' = "reserve" /\ k' = 1 /\ UNCHANGED input
    BY <1>1, <1>4, <2>1 DEF ReserveTableName, Goto, Extend
  <2>. QED BY <1>1, <1>2, <2>2 DEF Reserved, Inserted, WritePhases
<1>5. CASE ReserveName
  <2>1. /\ k \in 1..N /\ DOMAIN spaceAt = 0..(k - 1) /\ DOMAIN nameOff = {0} /\ pc = "reserve"
    BY <1>1, <1>5 DEF ReserveName, SpaceInv, IInv, Progress
  <2>2. /\ DOMAIN spaceAt' = 0..k /\ spaceAt'[k] = nameMax
        /\ \A j \in 0..(k - 1) : spaceAt'[j] = spaceAt[j]
        /\ nameMax' = nameMax + ReservedSize(k)
        /\ UNCHANGED <<nameOff, nameLen>>
        /\ pc' = pc /\ k' = k + 1 /\ UNCHANGED input
    BY <1>5, <2>1 DEF ReserveName, Stay, Extend
  <2>5. nameMax = spaceAt[k - 1] + ReservedSize(k - 1) /\ spaceAt[0] = 0
    BY <2>1 DEF SpaceInv, Reserved
  <2>6. ASSUME NEW j \in DOMAIN spaceAt' \ {0}
        PROVE  spaceAt'[j] = spaceAt'[j - 1] + ReservedSize(j - 1)
    <3>1. CASE j = k
      BY <2>1, <2>2, <2>5, <3>1
    <3>2. CASE j # k
      <4>1. j \in DOMAIN spaceAt \ {0} /\ j - 1 \in 0..(k - 1) /\ j \in 0..(k - 1)
        BY <2>1, <2>2, <3>2
      <4>2. spaceAt[j] = spaceAt[j - 1] + ReservedSize(j - 1)
        BY <4>1 DEF SpaceInv, Reserved
      <4>. QED BY <2>2, <4>1, <4>2
    <3>. QED BY <3>1, <3>2
  <2>7. spaceAt'[0] = 0 /\ nameMax' = spaceAt'[k' - 1] + ReservedSize(k' - 1)
    BY <2>1, <2>2, <2>5
  <2>3. Reserved'
    BY <1>2, <2>1, <2>2, <2>6, <2>7 DEF Reserved, WritePhases
  <2>4. Inserted'
    BY <1>1, <1>2, <2>1, <2>2 DEF SpaceInv, Inserted, WritePhases
  <2>. QED BY <2>3, <2>4
<1>6. CASE ReserveDone
  <2>1. k = N + 1
    BY <1>1, <1>6 DEF ReserveDone, SpaceInv, IInv, Progress
  <2>. QED BY <1>6, <2>1, SpaceKept DEF ReserveDone, Goto
<1>7. CASE AddInfo
  BY <1>7, SpaceKept DEF AddInfo, Stay
<1>8. CASE InfosDone
  <2>1. /\ UNCHANGED <<input, nameLen, nameMax, nameOff, spaceAt>>
        /\ pc = "infos" /\ pc' = "nodes" /\ k' = 1
    BY <1>8 DEF InfosDone, Goto
  <2>. QED BY <1>1, <1>2, <2>1 DEF SpaceInv, Reserved, Inserted, WritePhases
<1>9. CASE AddNode
  <2>1. /\ k \in 1..N /\ DOMAIN spaceAt = 0..N /\ DOMAIN nameOff = 0..(k - 1) /\ pc = "nodes"
    BY <1>1, <1>9 DEF AddNode, SpaceInv, IInv, Progress, WritePhases
  <2>2. /\ DOMAIN nameOff' = 0..k /\ nameOff'[k] = nameLen
        /\ \A j \in 0..(k - 1) : nameOff'[j] = nameOff[j]
        /\ nameLen' = nameLen + ReservedSize(k)
        /\ UNCHANGED <<nameMax, spaceAt>> /\ UNCHANGED input
    BY <1>1, <1>9, <2>1 DEF AddNode, Extend
  <2>3. \/ pc' = pc /\ k' = k + 1
        \/ pc' \in {"error", "panicNode"}
    BY <1>9 DEF AddNode, Stay, Goto
  <2>4. Reserved'
    BY <1>2, <2>1, <2>2, <2>3 DEF SpaceInv, Reserved, WritePhases
  <2>5. nameLen = spaceAt[k]
    <3>1. nameLen = nameOff[k - 1] + ReservedSize(k - 1)
      BY <2>1 DEF SpaceInv, Inserted
    <3>2. k - 1 \in DOMAIN nameOff /\ k \in DOMAIN spaceAt \ {0}
      BY <1>1, <2>1
    <3>3. nameOff[k - 1] = spaceAt[k - 1]
      BY <3>2 DEF SpaceInv, Inserted
    <3>4. spaceAt[k] = spaceAt[k - 1] + ReservedSize(k - 1)
      BY <3>2 DEF SpaceInv, Reserved
    <3>. QED BY <3>1, <3>3, <3>4
  <2>6. ASSUME NEW j \in DOMAIN nameOff'
        PROVE  nameOff'[j] = spaceAt'[j]
    <3>1. CASE j = k
      BY <2>2, <2>5, <3>1
    <3>2. CASE j # k
      <4>1. j \in 0..(k - 1)
        BY <2>1, <2>2, <3>2
      <4>2. nameOff[j] = spaceAt[j]
        BY <2>1, <4>1 DEF SpaceInv, Inserted
      <4>. QED BY <2>2, <4>1, <4>2
    <3>. QED BY <3>1, <3>2
  <2>7. pc' = "nodes" => nameLen' = nameOff'[k' - 1] + ReservedSize(k' - 1)
    <3>. SUFFICES ASSUME pc' = "nodes" PROVE nameLen' = nameOff'[k' - 1] + ReservedSize(k' - 1)
      OBVIOUS
    <3>1. k' - 1 = k
      BY <2>1, <2>3
    <3>. QED BY <2>2, <3>1
  <2>8. Inserted'
    <3>1. \A j \in DOMAIN nameOff' : nameOff'[j] = spaceAt'[j]
      BY <2>6
    <3>2. CASE pc' = "nodes"
      BY <1>2, <2>2, <2>7, <3>1, <3>2 DEF Inserted, WritePhases
    <3>3. CASE pc' # "nodes"
      BY <2>1, <2>3, <3>1, <3>3 DEF Inserted, WritePhases
    <3>. QED BY <3>2, <3>3
  <2>. QED BY <2>4, <2>8
<1>10. CASE NodesDone
  <2>1. k = N + 1
    BY <1>1, <1>10 DEF NodesDone, SpaceInv, IInv, Progress
  <2>2. UNCHANGED <<input, nameLen, nameMax, nameOff, spaceAt>>
        /\ pc = "nodes" /\ pc' = "writeInfos" /\ k' = 1
    BY <1>10 DEF NodesDone, Goto, names
  <2>. QED BY <1>1, <1>2, <2>1, <2>2 DEF SpaceInv, Reserved, Inserted, WritePhases
<1>11. CASE WriteStep \/ PatchStep
  <2>1. UNCHANGED input
    BY <1>11, ZenonT(60)
    DEF WriteStep, PatchStep, WriteInfo, WriteInfosDone, WriteName, WriteWiiNode,
        WriteNamesDone, WriteNode, WriteNodesDone, WriteFirstLevel, LinkNodes,
        WriteValue, RowDone, RowsDone, WriteString, StringsDone, WriteHeader, Rescramble
  <2>2. /\ UNCHANGED names /\ pc \in WritePhases /\ pc' \in WritePhases \cup {"error"}
    BY <1>11, NamesFixed DEF SpaceInv
  <2>. QED BY <2>1, <2>2, SpaceKept
<1>12. CASE UNCHANGED vars
  BY <1>12, SpaceKept DEF vars
<1>. QED BY <1>4, <1>5, <1>6, <1>7, <1>8, <1>9, <1>10, <1>11, <1>12, Zenon
         DEF Next, LayoutStep, Returned

(* Whatever the table, the names take exactly the space make_space_names   *)
(* reserved for them before any was inserted: build_regular takes the end  *)
(* of the reservation for the place of the first node.                     *)
THEOREM ReservationCorrect == Spec => []SpaceReservedIsUsed
<1>1. SpaceInv => SpaceReservedIsUsed
  <2>. SUFFICES ASSUME SpaceInv, LaidOut PROVE nameLen = nameMax
    BY DEF SpaceReservedIsUsed
  <2>1. N \in Nat /\ pc \in WritePhases
    BY Items DEF SpaceInv, IInv, TypeOK, CallOK, ControlOK, Phases, LaidOut, WritePhases
  <2>2. DOMAIN nameOff = 0..N
    BY <2>1 DEF SpaceInv, IInv, Progress
  <2>. QED BY <2>1, <2>2 DEF SpaceInv, Reserved, Inserted
<1>. QED BY SpaceInit, SpaceStep, <1>1, PTL DEF Spec

-----------------------------------------------------------------------------
(* The layout: infos and names follow one another without gaps, and nodes  *)
(* rise.                                                                   *)
Located == WritePhases \cup {"nodes"}
InfoEnd(j) == IF j = 0 THEN HeaderSize(opt.wii) ELSE infoPtr[j] + InfoSize(tab, j)
NameEnd(j) == nameOff[j] + ReservedSize(j)

Offsets ==
  /\ \A j \in DOMAIN infoPtr : infoPtr[j] = InfoEnd(j - 1)
  /\ pc \in {"start", "reserve"} => infoLen = 0
  /\ pc = "infos" => HeaderSize(opt.wii) + infoLen = InfoEnd(k - 1)
  /\ pc \in {"start", "reserve", "infos"} => nameBase = HeaderSize(opt.wii)
  /\ pc \in Located => nameBase = HeaderSize(opt.wii) + infoLen /\ InfoEnd(N) <= nameBase
NamesRise ==
  /\ \A j \in DOMAIN nameOff : NameEnd(j) <= nameLen
  /\ \A i, j \in DOMAIN nameOff : i < j => NameEnd(i) <= nameOff[j]
LayoutInv == Offsets /\ NamesRise

(* The hash table: a slot has the nodes of the names that hash to it, in   *)
(* the order of the image, and no others.                                  *)
Threaded == IF pc = "nodes" THEN k - 1 ELSE IF pc \in WritePhases THEN N ELSE 0
SlotOf(j) == Slot(Label(j), opt.hashSlots)
SlotInv ==
  pc \notin {"error", "panicNode"} =>
    /\ \A s \in DOMAIN chain :
         /\ Len(chain[s]) <= Threaded
         /\ \A i \in 1..Len(chain[s]) :
              \E j \in 1..Threaded : chain[s][i] = NodePtr(j) /\ SlotOf(j) = s
         /\ \A i, h \in 1..Len(chain[s]) : i < h => chain[s][i] < chain[s][h]
    /\ \A j \in 1..Threaded :
         /\ NodePtr(j) <= U16Max
         /\ \E i \in 1..Len(chain[SlotOf(j)]) : chain[SlotOf(j)][i] = NodePtr(j)

-----------------------------------------------------------------------------
(* The image: what has been written, and where the cursor is.              *)
AtEnd == {"strings", "header", "scramble", "done"}
KnownCell(cell) ==
  CASE cell.kind = "info" -> cell.item \in 1..N
    [] cell.kind = "name" -> cell.item \in 0..N
    [] cell.kind = "string" -> pc \in AtEnd \cup {"error"} /\ cell.item \in 1..Len(strList)
    [] cell.kind = "value" -> cell.item \in {1, 2, 4}
    [] OTHER -> TRUE
(* Every cell ends before the cursor, and no two overlap. *)
BeforeCursor ==
  \A a \in DOMAIN buf : KnownCell(buf[a]) /\ a + CellSize(buf[a]) <= pos
FrontInv == BeforeCursor /\ ItemsDisjoint
FitInv == \A a \in DOMAIN buf : buf[a].kind # "value" => buf[a].val <= U16Max

InfosWritten == IF pc = "writeInfos" THEN k - 1 ELSE IF pc \in WritePhases THEN N ELSE 0
NamesWritten ==
  IF pc = "writeNames" THEN k - 1
  ELSE IF pc \in WritePhases \ {"writeInfos"} THEN N ELSE -1
NodesWritten ==
  IF opt.wii THEN (IF NamesWritten >= 0 THEN NamesWritten ELSE 0)
  ELSE IF pc = "writeNodes" THEN k - 1
  ELSE IF pc \in WritePhases \ {"writeInfos", "writeNames"} THEN N ELSE 0

InfosThere == \A j \in 1..InfosWritten : Holds(infoPtr[j], Cell("info", j, InfoVal(j)))
NamesThere == \A j \in 0..NamesWritten : Holds(NamePtr(j), Cell("name", j, 0))
IsLink(a) == a \in DOMAIN buf /\ buf[a].kind = "nodeLink"
NodesThere ==
  \A j \in 1..NodesWritten :
    /\ Holds(NodePtr(j), Cell("nodeInfo", j, infoPtr[j]))
    /\ IsLink(LinkAt(NodePtr(j)))
    /\ ~opt.wii => Holds(NodePtr(j) + 4, Cell("nodeName", j, NamePtr(j)))

Cursor ==
  /\ pc \in {"start", "reserve", "infos", "nodes"} => pos = 0
  /\ pc = "writeInfos" => pos = InfoEnd(k - 1)
  /\ pc = "writeNames" => pos = IF k = 0 THEN nameBase ELSE nameBase + NameEnd(k - 1)
  /\ pc = "writeNodes" => ~opt.wii /\ pos = NodesOffset + (k - 1) * NodeSize(FALSE)
  /\ pc \in WritePhases \ {"writeInfos"} => nameBase <= pos
  /\ pc = "link" => nameBase <= hashOffset /\ hashOffset <= pos

(* The links of a slot: none before LinkNodes. *)
Linked == {"rows", "panicRows"} \cup AtEnd
NextOf(s, i) == IF i < Len(chain[s]) THEN chain[s][i + 1] ELSE 0
LinksThere ==
  /\ pc \in WritePhases \ Linked =>
       \A j \in 1..NodesWritten : buf[LinkAt(NodePtr(j))] = Cell("nodeLink", 0, 0)
  /\ pc \in Linked => \A s \in DOMAIN chain : \A i \in 1..Len(chain[s]) :
       Holds(LinkAt(chain[s][i]), Cell("nodeLink", 0, NextOf(s, i)))
  /\ pc \in Linked \cup {"link"} => \A s \in DOMAIN chain :
       Holds(hashOffset + 2 * s, Cell("slot", s, IF chain[s] = <<>> THEN 0 ELSE chain[s][1]))
ThereInv == InfosThere /\ NamesThere /\ NodesThere /\ LinksThere

(* The strings: each text has one place, one behind the other. *)
StrEnd(i) == IF i = 0 THEN 0 ELSE strOff[strList[i]] + NameSize(strList[i])
StringsWritten ==
  IF pc = "strings" THEN k - 1 ELSE IF pc \in AtEnd THEN Len(strList) ELSE 0
TextInv ==
  /\ \A i \in 1..Len(strList) :
       strList[i] \in DOMAIN strOff /\ strOff[strList[i]] = StrEnd(i - 1)
  /\ \A i, j \in 1..Len(strList) : strList[i] = strList[j] => i = j
  /\ \A t \in DOMAIN strOff : \E i \in 1..Len(strList) : strList[i] = t
  /\ strLen = StrEnd(Len(strList))
  /\ pc \in {"rows"} \cup AtEnd => strBase = rowOffset + TotalRowSize
  /\ pc \in {"rows"} \cup AtEnd => rowOffset <= pos /\ nameBase <= hashOffset /\ hashOffset <= rowOffset
  /\ pc = "strings" => pos = strBase + StrEnd(k - 1) /\ k <= Len(strList) + 1
  /\ pc \in AtEnd \ {"strings"} => pos = strBase + strLen + finalPadding
  /\ \A i \in 1..StringsWritten :
       Holds(strBase + strOff[strList[i]], Cell("string", i, 0))
  /\ \A a \in DOMAIN buf :
       buf[a].kind = "string" => a + CellSize(buf[a]) <= strBase + StrEnd(buf[a].item)

HeaderValue ==
  [names |-> AsU16(HeaderSize(opt.wii) + infoLen),
   rowLen |-> rowLen, hashes |-> hashOffset,
   hashSlots |-> opt.hashSlots, rows |-> rowOffset,
   rowCount |-> Len(tab.rows), strings |-> strBase,
   stringsLen |-> strLen + finalPadding,
   nodes |-> IF opt.wii THEN 0 ELSE nameBase + nameLen,
   nodeCount |-> IF opt.wii THEN 0 ELSE N,
   scrambled |-> opt.scramble]
HeaderInv ==
  /\ pc \in {"scramble", "done"} => HeaderFits /\ header = HeaderValue
  /\ pc = "scramble" => opt.scramble
  /\ scrambled = IF pc = "done" /\ opt.scramble THEN ScrambledRanges ELSE {}

ImageInv == FrontInv /\ FitInv /\ ThereInv /\ Cursor /\ TextInv /\ HeaderInv

-----------------------------------------------------------------------------
(* LayoutInv. *)
LEMMA Basics ==
  ASSUME IInv
  PROVE  /\ N \in Nat /\ opt.wii \in BOOLEAN /\ opt.hashSlots \in Nat \ {0}
         /\ HeaderSize(opt.wii) \in {32, 64}
         /\ \A j \in 0..N : /\ Label(j) \in Text /\ NameSize(Label(j)) \in Nat \ {0}
                            /\ ReservedSize(j) \in Nat
                            /\ InsertedSize(j) = ReservedSize(j)
                            /\ ReservedSize(j) = NameSize(Label(j)) + (IF opt.wii /\ j > 0 THEN 4 ELSE 0)
         /\ \A j \in 1..N : InfoSize(tab, j) \in {4, 6, 8}
<1>1. CallOK
  BY DEF IInv, TypeOK
<1>2. opt.wii \in BOOLEAN /\ opt.hashSlots \in Nat \ {0}
  BY <1>1, OptionsOK, Zenon DEF CallOK
<1>3. HeaderSize(opt.wii) \in {32, 64}
  BY DEF HeaderSize
<1>4. /\ N \in Nat /\ \A j \in 0..N : Label(j) \in Text
      /\ \A j \in 1..N : InfoSize(tab, j) \in {4, 6, 8}
  BY <1>1, Items DEF CallOK
<1>5. ASSUME NEW j \in 0..N
      PROVE  /\ NameSize(Label(j)) \in Nat \ {0}
             /\ ReservedSize(j) \in Nat
             /\ InsertedSize(j) = ReservedSize(j)
             /\ ReservedSize(j) = NameSize(Label(j)) + (IF opt.wii /\ j > 0 THEN 4 ELSE 0)
  <2>1. NameSize(Label(j)) \in Nat \ {0}
    BY <1>4, NameSizes
  <2>2. ReservedSize(j) = NameSize(Label(j)) + (IF opt.wii /\ j > 0 THEN 4 ELSE 0)
    BY DEF ReservedSize, NodeSize
  <2> QED BY <1>1, <2>1, <2>2, SpaceAgrees
<1> QED BY <1>2, <1>3, <1>4, <1>5

LEMMA LayoutInit == Init => LayoutInv
<1> SUFFICES ASSUME Init PROVE LayoutInv
  OBVIOUS
<1>1. DOMAIN infoPtr = {} /\ DOMAIN nameOff = {}
  BY DEF Init, Empty
<1> QED BY <1>1 DEF Init, LayoutInv, Offsets, NamesRise, Located, WritePhases

(* The write pass leaves the layout alone. *)
LEMMA InfosFixed ==
  ASSUME WriteStep \/ PatchStep
  PROVE  UNCHANGED <<input, infos, chain>>
BY ZenonT(60)
DEF WriteStep, PatchStep, WriteInfo, WriteInfosDone, WriteName, WriteWiiNode,
    WriteNamesDone, WriteNode, WriteNodesDone, WriteFirstLevel, LinkNodes,
    WriteValue, RowDone, RowsDone, WriteString, StringsDone, WriteHeader, Rescramble

LEMMA LayoutSame ==
  ASSUME CallOK, UNCHANGED input
  PROVE  /\ N' = N /\ tab' = tab /\ opt' = opt
         /\ \A j : Label(j)' = Label(j) /\ ReservedSize(j)' = ReservedSize(j)
         /\ UNCHANGED infos => \A j : InfoEnd(j)' = InfoEnd(j)
         /\ UNCHANGED names => \A j : NameEnd(j)' = NameEnd(j)
BY DEF input, N, ReservedSize, Label, InfoEnd, NameEnd, infos, names

LEMMA LayoutKept ==
  ASSUME IInv, LayoutInv, UNCHANGED <<input, names, infos>>,
         \/ pc' = pc /\ k' = k
         \/ pc \in Located /\ pc' \in Located \cup {"error"}
         \/ pc = "reserve" /\ pc' = "reserve"
  PROVE  LayoutInv'
<1>1. /\ N' = N /\ tab' = tab /\ opt' = opt
      /\ \A j : InfoEnd(j)' = InfoEnd(j) /\ NameEnd(j)' = NameEnd(j)
  BY LayoutSame DEF IInv, TypeOK
<1>2. Offsets'
  BY <1>1 DEF LayoutInv, Offsets, Located, WritePhases, infos, names
<1>3. NamesRise'
  BY <1>1 DEF LayoutInv, NamesRise, names
<1> QED BY <1>2, <1>3 DEF LayoutInv

LEMMA LayoutInvStep == SpaceInv /\ LayoutInv /\ [Next]_vars => LayoutInv'
<1> SUFFICES ASSUME SpaceInv, LayoutInv, [Next]_vars PROVE LayoutInv'
  OBVIOUS
<1>1. IInv
  BY DEF SpaceInv
<1>2. /\ N \in Nat /\ HeaderSize(opt.wii) \in Nat
      /\ \A j \in 0..N : ReservedSize(j) \in Nat /\ InsertedSize(j) = ReservedSize(j)
      /\ \A j \in 1..N : InfoSize(tab, j) \in Nat
  BY <1>1, Basics
<1>3. /\ nameBase \in Nat /\ nameLen \in Nat /\ infoLen \in Nat
      /\ NatFun(nameOff) /\ NatFun(infoPtr) /\ k \in Nat
  BY <1>1 DEF IInv, TypeOK, NamesOK, InfosOK, ControlOK
<1>4. UNCHANGED input => /\ N' = N /\ tab' = tab /\ opt' = opt
                         /\ \A j : ReservedSize(j)' = ReservedSize(j)
  BY <1>1, LayoutSame DEF IInv, TypeOK
<1>5. CASE ReserveTableName
  <2>1. DOMAIN nameOff = {} /\ DOMAIN infoPtr = {} /\ nameLen = 0
    BY <1>5 DEF ReserveTableName, SpaceInv, IInv, Progress, Inserted
  <2>2. /\ DOMAIN nameOff' = {0} /\ nameOff'[0] = 0 /\ nameLen' = ReservedSize(0)
        /\ UNCHANGED <<input, infoPtr, infoLen, nameBase>> /\ pc = "start" /\ pc' = "reserve"
    BY <1>2, <1>5, <2>1 DEF ReserveTableName, Goto, Extend, infos
  <2>3. Offsets'
    BY <1>4, <2>1, <2>2 DEF LayoutInv, Offsets, Located, WritePhases
  <2>4. NamesRise'
    BY <1>2, <1>4, <2>2 DEF NamesRise, NameEnd
  <2> QED BY <2>3, <2>4 DEF LayoutInv
<1>6. CASE ReserveName
  <2>1. UNCHANGED <<input, infos, nameBase, nameOff, nameLen>> /\ pc = "reserve" /\ pc' = "reserve"
    BY <1>6 DEF ReserveName, Stay
  <2>2. \A j : InfoEnd(j)' = InfoEnd(j) /\ NameEnd(j)' = NameEnd(j)
    BY <1>4, <2>1 DEF InfoEnd, NameEnd, infos
  <2> QED BY <1>4, <2>1, <2>2 DEF LayoutInv, Offsets, NamesRise, Located, WritePhases, infos
<1>7. CASE ReserveDone
  <2>1. UNCHANGED <<input, infos, names>> /\ pc = "reserve" /\ pc' = "infos" /\ k' = 1
    BY <1>7 DEF ReserveDone, Goto
  <2>2. DOMAIN infoPtr = {} /\ infoLen = 0
    BY <1>1, <2>1 DEF IInv, Progress, LayoutInv, Offsets
  <2>3. \A j : NameEnd(j)' = NameEnd(j)
    BY <1>4, <2>1 DEF NameEnd, names
  <2>4. NamesRise'
    BY <2>1, <2>3 DEF LayoutInv, NamesRise, names
  <2>5. Offsets'
    BY <1>2, <1>4, <2>1, <2>2 DEF LayoutInv, Offsets, Located, WritePhases, infos, names, InfoEnd
  <2> QED BY <2>4, <2>5 DEF LayoutInv
<1>8. CASE AddInfo
  <2>c. PICK c : c = k
    OBVIOUS
  <2>1. /\ UNCHANGED <<input, names>> /\ pc = "infos" /\ pc' = "infos" /\ k' = c + 1
        /\ infoPtr' = Extend(infoPtr, c, HeaderSize(opt.wii) + infoLen)
        /\ infoLen' = infoLen + InfoSize(tab, c)
    BY <1>8, <2>c DEF AddInfo, Stay
  <2>2. c \in 1..N /\ DOMAIN infoPtr = 1..(c - 1)
    BY <1>1, <1>2, <1>8, <2>c DEF AddInfo, IInv, Progress
  <2>3. HeaderSize(opt.wii) + infoLen = InfoEnd(c - 1)
    BY <2>1, <2>c DEF LayoutInv, Offsets
  <2>4. /\ DOMAIN infoPtr' = 1..c /\ infoPtr'[c] = InfoEnd(c - 1)
        /\ \A j \in 1..(c - 1) : infoPtr'[j] = infoPtr[j]
    BY <1>2, <2>1, <2>2, <2>3 DEF Extend
  <2>5. \A j \in 0..(c - 1) : InfoEnd(j)' = InfoEnd(j)
    BY <1>4, <2>1, <2>2, <2>4 DEF InfoEnd
  <2>6. \A j \in DOMAIN infoPtr' : infoPtr'[j] = InfoEnd(j - 1)'
    BY <2>2, <2>4, <2>5 DEF LayoutInv, Offsets
  <2>7. InfoEnd(c)' = InfoEnd(c - 1) + InfoSize(tab, c)
    BY <1>4, <2>1, <2>2, <2>4 DEF InfoEnd
  <2>8. HeaderSize(opt.wii)' + infoLen' = InfoEnd(k - 1)'
    <3>1. k' - 1 = c
      BY <2>1, <2>2
    <3>2. HeaderSize(opt.wii)' + infoLen' = InfoEnd(c)'
      BY <1>2, <1>3, <1>4, <2>1, <2>2, <2>3, <2>7
    <3> QED BY <3>1, <3>2
  <2>9. Offsets'
    BY <1>4, <2>1, <2>6, <2>8 DEF LayoutInv, Offsets, Located, WritePhases, names
  <2>10. NamesRise'
    BY <1>4, <2>1 DEF LayoutInv, NamesRise, NameEnd, names
  <2> QED BY <2>9, <2>10 DEF LayoutInv
<1>9. CASE InfosDone
  <2>1. /\ UNCHANGED <<input, nameLen, nameOff, infoPtr>> /\ pc = "infos" /\ pc' = "nodes" /\ k' = 1
        /\ infoLen' = PadTo(4, infoLen) /\ nameBase' = nameBase + PadTo(4, infoLen)
    BY <1>9 DEF InfosDone, Goto
  <2>2. k = N + 1 /\ PadTo(4, infoLen) \in Nat /\ PadTo(4, infoLen) >= infoLen
    BY <1>1, <1>2, <1>3, <1>9, Padding DEF InfosDone, IInv, Progress
  <2>3. \A j : InfoEnd(j)' = InfoEnd(j) /\ NameEnd(j)' = NameEnd(j)
    BY <1>4, <2>1 DEF InfoEnd, NameEnd
  <2>4. /\ HeaderSize(opt.wii) + infoLen = InfoEnd(N) /\ nameBase = HeaderSize(opt.wii)
    BY <1>2, <2>1, <2>2 DEF LayoutInv, Offsets
  <2>5. nameBase' = HeaderSize(opt.wii)' + infoLen' /\ InfoEnd(N)' <= nameBase'
    BY <1>2, <1>3, <1>4, <2>1, <2>2, <2>3, <2>4
  <2>6. N' = N
    BY <1>4, <2>1
  <2>7. Offsets'
    BY <1>4, <2>1, <2>3, <2>5, <2>6 DEF LayoutInv, Offsets, Located, WritePhases
  <2>8. NamesRise'
    BY <2>1, <2>3 DEF LayoutInv, NamesRise
  <2> QED BY <2>7, <2>8 DEF LayoutInv
<1>10. CASE AddNode
  <2>c. PICK c : c = k
    OBVIOUS
  <2>1. /\ UNCHANGED <<input, nameBase, infos>> /\ pc = "nodes"
        /\ pc' \in {"nodes", "error", "panicNode"}
        /\ nameOff' = Extend(nameOff, c, nameLen)
        /\ nameLen' = nameLen + InsertedSize(c)
    BY <1>10, <2>c DEF AddNode, Stay, Goto
  <2>2. c \in 1..N /\ DOMAIN nameOff = 0..(c - 1)
    BY <1>1, <1>2, <1>10, <2>c DEF AddNode, IInv, Progress
  <2>3. /\ DOMAIN nameOff' = 0..c /\ nameOff'[c] = nameLen
        /\ \A j \in 0..(c - 1) : nameOff'[j] = nameOff[j]
    BY <2>1, <2>2 DEF Extend
  <2>4. /\ \A j \in 0..(c - 1) : NameEnd(j)' = NameEnd(j)
        /\ NameEnd(c)' = nameLen'
    BY <1>2, <1>4, <2>1, <2>2, <2>3 DEF NameEnd
  <2>5. \A j \in 0..(c - 1) : NameEnd(j) <= nameLen /\ NameEnd(j) \in Nat
    BY <1>2, <1>3, <2>2, SMTT(30) DEF LayoutInv, NamesRise, NameEnd, NatFun
  <2>6. nameLen <= nameLen' /\ nameLen' \in Nat
    BY <1>2, <1>3, <2>1, <2>2
  <2>7. \A j \in 0..c : NameEnd(j)' <= nameLen'
    BY <1>3, <2>2, <2>4, <2>5, <2>6
  <2>8. ASSUME NEW i \in 0..c, NEW j \in 0..c, i < j PROVE NameEnd(i)' <= nameOff'[j]
    <3>1. i \in 0..(c - 1) /\ NameEnd(i)' = NameEnd(i)
      BY <2>2, <2>4, <2>8
    <3>2. CASE j = c
      BY <2>3, <2>5, <3>1, <3>2
    <3>3. CASE j # c
      <4>1. j \in 0..(c - 1)
        BY <2>2, <3>3
      <4> QED BY <2>2, <2>3, <2>8, <3>1, <4>1 DEF LayoutInv, NamesRise
    <3> QED BY <3>2, <3>3
  <2>9. NamesRise'
    BY <2>3, <2>7, <2>8 DEF NamesRise
  <2>10. \A j : InfoEnd(j)' = InfoEnd(j)
    BY <1>4, <2>1 DEF InfoEnd, infos
  <2>11. Offsets'
    BY <1>4, <2>1, <2>10 DEF LayoutInv, Offsets, Located, WritePhases, infos
  <2> QED BY <2>9, <2>11 DEF LayoutInv
<1>11. CASE NodesDone
  <2>1. UNCHANGED <<input, names, infos>> /\ pc = "nodes" /\ pc' = "writeInfos"
    BY <1>11 DEF NodesDone, Goto
  <2> QED BY <1>1, <2>1, LayoutKept DEF Located, WritePhases
<1>12. CASE WriteStep \/ PatchStep
  <2>1. UNCHANGED <<input, names, infos>> /\ pc \in WritePhases /\ pc' \in WritePhases \cup {"error"}
    BY <1>1, <1>12, NamesFixed, InfosFixed
  <2> QED BY <1>1, <2>1, LayoutKept DEF Located
<1>13. CASE UNCHANGED vars
  BY <1>1, <1>13, LayoutKept DEF vars
<1> QED BY <1>5, <1>6, <1>7, <1>8, <1>9, <1>10, <1>11, <1>12, <1>13, Zenon
        DEF Next, LayoutStep, Returned

-----------------------------------------------------------------------------
(* SlotInv. *)
LEMMA SlotRange ==
  ASSUME IInv, NEW j \in 1..N
  PROVE  SlotOf(j) \in DOMAIN chain
<1>1. Label(j) \in Text /\ opt.hashSlots \in Nat \ {0}
  BY Basics
<1>2. HashSum[Label(j)] \in Nat
  BY <1>1, FormatAssumption
<1>3. \A x \in Nat, y \in Nat \ {0} : x % y \in 0..(y - 1)
  OBVIOUS
<1> QED BY <1>1, <1>2, <1>3 DEF SlotOf, Slot, IInv, TypeOK, ChainOK

LEMMA NodePtrs ==
  ASSUME IInv, LayoutInv, pc \in Located
  PROVE  /\ Threaded \in 0..N
         /\ \A j \in 1..Threaded : NodePtr(j) \in Nat \ {0}
         /\ \A i, j \in 1..Threaded : i < j => NodePtr(i) < NodePtr(j)
<1>1. /\ N \in Nat /\ HeaderSize(opt.wii) \in {32, 64}
      /\ \A j \in 0..N : ReservedSize(j) \in Nat \ {0}
  BY Basics
<1>2. nameBase \in Nat /\ nameMax \in Nat /\ infoLen \in Nat /\ NatFun(nameOff) /\ nameLen \in Nat
  BY DEF IInv, TypeOK, NamesOK, InfosOK
<1>3. Threaded \in 0..N /\ DOMAIN nameOff = 0..Threaded
  BY <1>1 DEF IInv, Progress, Threaded, Located, WritePhases
<1>4. \A j \in 0..Threaded : nameOff[j] \in Nat
  BY <1>2, <1>3 DEF NatFun
<1>5. nameBase = HeaderSize(opt.wii) + infoLen
  BY DEF LayoutInv, Offsets
<1>6. CASE opt.wii
  <2>1. \A j \in 1..Threaded : NodePtr(j) = nameBase + nameOff[j]
    BY <1>6 DEF NodePtr
  <2>2. nameBase \in Nat \ {0}
    BY <1>1, <1>2, <1>5
  <2>3. \A i, j \in 1..Threaded : i < j => nameOff[i] + ReservedSize(i) <= nameOff[j]
    BY <1>3 DEF LayoutInv, NamesRise, NameEnd
  <2>4. ASSUME NEW j \in 1..Threaded PROVE NodePtr(j) \in Nat \ {0}
    BY <1>3, <1>4, <2>1, <2>2
  <2>5. ASSUME NEW i \in 1..Threaded, NEW j \in 1..Threaded, i < j PROVE NodePtr(i) < NodePtr(j)
    <3>1. nameOff[i] \in Nat /\ nameOff[j] \in Nat /\ ReservedSize(i) \in Nat \ {0}
      BY <1>1, <1>3, <1>4
    <3> QED BY <1>2, <2>1, <2>3, <2>5, <3>1
  <2> QED BY <1>3, <2>4, <2>5
<1>7. CASE ~opt.wii
  <2>1. \A j \in 1..Threaded : NodePtr(j) = NodesOffset + (j - 1) * 6
    BY <1>7 DEF NodePtr, NodeSize
  <2>2. NodesOffset \in Nat \ {0}
    BY <1>1, <1>2 DEF NodesOffset
  <2> HIDE DEF NodesOffset
  <2>3. \A j \in 1..Threaded : NodePtr(j) \in Nat \ {0}
    BY <1>3, <2>1, <2>2
  <2>4. \A i, j \in 1..Threaded : i < j => NodePtr(i) < NodePtr(j)
    BY <1>3, <2>1, <2>2
  <2> QED BY <1>3, <1>7, <2>3, <2>4
<1> QED BY <1>6, <1>7

LEMMA SlotInit == Init => SlotInv
BY DEF Init, SlotInv, Threaded, WritePhases

(* Steps that thread no node. *)
LEMMA SlotsKept ==
  ASSUME IInv, SlotInv, UNCHANGED <<input, chain>>,
         pc' \in {"error", "panicNode"} \/ (pc \notin {"error", "panicNode"} /\ Threaded' = Threaded),
         Threaded = 0 \/ \A j \in 1..N : NodePtr(j)' = NodePtr(j)
  PROVE  SlotInv'
<1>1. /\ N' = N /\ tab' = tab /\ opt' = opt /\ \A j : Label(j)' = Label(j)
  BY LayoutSame DEF IInv, TypeOK
<1>2. \A j : SlotOf(j)' = SlotOf(j)
  BY <1>1 DEF SlotOf
<1>3. CASE pc' \in {"error", "panicNode"}
  BY <1>3 DEF SlotInv
<1>4. CASE Threaded = 0 /\ pc' \notin {"error", "panicNode"}
  <2>1. \A s \in DOMAIN chain : Len(chain[s]) <= 0
    BY <1>4 DEF SlotInv
  <2>2. \A s \in DOMAIN chain : Len(chain[s]) \in Nat
    BY DEF IInv, TypeOK, ChainOK
  <2> QED BY <1>4, <2>1, <2>2 DEF SlotInv
<1>5. CASE Threaded # 0 /\ pc' \notin {"error", "panicNode"}
  <2>1. 1..Threaded \subseteq 1..N
    BY Basics DEF Threaded, IInv, Progress
  <2> QED BY <1>2, <1>5, <2>1 DEF SlotInv
<1> QED BY <1>3, <1>4, <1>5

LEMMA SlotStep == SpaceInv /\ LayoutInv /\ SlotInv /\ [Next]_vars => SlotInv'
<1> SUFFICES ASSUME SpaceInv, LayoutInv, SlotInv, [Next]_vars PROVE SlotInv'
  OBVIOUS
<1>1. IInv /\ N \in Nat
  BY Basics DEF SpaceInv
<1>2. CASE ReserveTableName \/ ReserveName \/ ReserveDone \/ AddInfo \/ InfosDone
  <2>1. /\ UNCHANGED <<input, chain>> /\ pc \in {"start", "reserve", "infos"}
        /\ pc' \in {"reserve", "infos"} \/ (pc' = "nodes" /\ k' = 1)
    BY <1>2 DEF ReserveTableName, ReserveName, ReserveDone, AddInfo, InfosDone, Goto, Stay
  <2>2. Threaded = 0 /\ Threaded' = 0
    BY <2>1 DEF Threaded, WritePhases
  <2> QED BY <1>1, <2>1, <2>2, SlotsKept
<1>3. CASE NodesDone
  <2>1. UNCHANGED <<input, names, infos, chain>> /\ pc = "nodes" /\ pc' = "writeInfos" /\ k = N + 1
    BY <1>1, <1>3 DEF NodesDone, Goto, IInv, Progress
  <2>2. N' = N /\ opt' = opt
    BY <1>1, <2>1, LayoutSame DEF IInv, TypeOK
  <2>3. Threaded' = Threaded
    BY <1>1, <2>1, <2>2 DEF Threaded, WritePhases
  <2>4. \A j : NodePtr(j)' = NodePtr(j)
    BY <2>1, <2>2 DEF NodePtr, NodesOffset, names, infos
  <2> QED BY <1>1, <2>1, <2>3, <2>4, SlotsKept
<1>4. CASE WriteStep \/ PatchStep
  <2>1. UNCHANGED <<input, names, infos, chain>> /\ pc \in WritePhases /\ pc' \in WritePhases \cup {"error"}
    BY <1>1, <1>4, NamesFixed, InfosFixed
  <2>2. N' = N /\ opt' = opt
    BY <1>1, <2>1, LayoutSame DEF IInv, TypeOK
  <2>3. pc' = "error" \/ Threaded' = Threaded
    BY <2>1, <2>2 DEF Threaded, WritePhases
  <2>4. \A j : NodePtr(j)' = NodePtr(j)
    BY <2>1, <2>2 DEF NodePtr, NodesOffset, names, infos
  <2> QED BY <1>1, <2>1, <2>3, <2>4, SlotsKept DEF WritePhases
<1>5. CASE UNCHANGED vars
  <2>1. UNCHANGED <<input, names, infos, chain, pc, k>>
    BY <1>5 DEF vars
  <2>2. N' = N /\ opt' = opt
    BY <1>1, <2>1, LayoutSame DEF IInv, TypeOK
  <2>3. Threaded' = Threaded
    BY <2>1, <2>2 DEF Threaded
  <2>4. \A j : NodePtr(j)' = NodePtr(j)
    BY <2>1, <2>2 DEF NodePtr, NodesOffset, names, infos
  <2> QED BY <1>1, <2>1, <2>3, <2>4, SlotsKept DEF SlotInv
<1>6. CASE AddNode
  <2>c. PICK c : c = k
    OBVIOUS
  <2> DEFINE ptr == IF opt.wii THEN nameBase + nameLen ELSE NodesOffset + (c - 1) * NodeSize(FALSE)
             slot == SlotOf(c)
  <2>1. /\ UNCHANGED <<input, nameBase, nameMax, infos>> /\ pc = "nodes"
        /\ nameOff' = Extend(nameOff, c, nameLen)
        /\ \/ ptr <= U16Max /\ chain' = [chain EXCEPT ![slot] = Append(@, ptr)]
              /\ pc' = "nodes" /\ k' = c + 1
           \/ pc' \in {"error", "panicNode"}
    BY <1>6, <2>c DEF AddNode, Stay, Goto, FitsU16, SlotOf
  <2>2. c \in 1..N /\ DOMAIN nameOff = 0..(c - 1) /\ Threaded = c - 1 /\ pc \in Located
    BY <1>1, <1>6, <2>c DEF AddNode, IInv, Progress, Threaded, Located
  <2> SUFFICES ASSUME pc' = "nodes" PROVE SlotInv'
    BY <2>1 DEF SlotInv
  <2>3. ptr <= U16Max /\ chain' = [chain EXCEPT ![slot] = Append(@, ptr)] /\ k' = c + 1
    BY <2>1
  <2>4. N' = N /\ tab' = tab /\ opt' = opt /\ \A j : Label(j)' = Label(j)
    BY <1>1, <2>1, LayoutSame DEF IInv, TypeOK
  <2>5. \A j : SlotOf(j)' = SlotOf(j)
    BY <2>4 DEF SlotOf
  <2>6. Threaded' = c
    BY <2>2, <2>3 DEF Threaded
  <2>7. /\ \A j \in 1..(c - 1) : NodePtr(j)' = NodePtr(j)
        /\ NodePtr(c)' = ptr
    BY <2>1, <2>2, <2>4, SMTT(30) DEF NodePtr, NodesOffset, Extend, infos, names
  <2>8. ptr \in Nat /\ \A j \in 1..(c - 1) : NodePtr(j) < ptr
    <3>1. /\ HeaderSize(opt.wii) \in {32, 64} /\ \A j \in 0..N : ReservedSize(j) \in Nat \ {0}
          /\ nameBase \in Nat /\ nameMax \in Nat /\ infoLen \in Nat /\ nameLen \in Nat /\ NatFun(nameOff)
      BY <1>1, Basics DEF IInv, TypeOK, NamesOK, InfosOK
    <3>2. CASE opt.wii
      <4>1. \A j \in 1..(c - 1) : nameOff[j] \in Nat /\ nameOff[j] + ReservedSize(j) <= nameLen
        BY <2>2, <3>1 DEF LayoutInv, NamesRise, NameEnd, NatFun
      <4>2. ptr = nameBase + nameLen
        BY <3>2
      <4>3. ASSUME NEW j \in 1..(c - 1) PROVE NodePtr(j) < ptr
        <5>1. NodePtr(j) = nameBase + nameOff[j]
          BY <3>2 DEF NodePtr
        <5>2. ReservedSize(j) \in Nat \ {0}
          BY <1>1, <2>2, <3>1
        <5> HIDE DEF ptr
        <5> QED BY <3>1, <4>1, <4>2, <5>1, <5>2
      <4> HIDE DEF ptr
      <4>4. ptr \in Nat
        BY <3>1, <4>2
      <4> QED BY <4>3, <4>4
    <3>3. CASE ~opt.wii
      <4>1. NodesOffset \in Nat
        BY <3>1 DEF NodesOffset
      <4> HIDE DEF NodesOffset
      <4> QED BY <2>2, <3>3, <4>1 DEF NodePtr, NodeSize
    <3> QED BY <3>2, <3>3
  <2> HIDE DEF ptr
  <2>9. slot \in DOMAIN chain
    BY <1>1, <2>2, SlotRange
  <2> HIDE DEF slot
  <2>10. PICK q \in Seq(Nat) : q = chain[slot]
    BY <1>1, <2>9 DEF IInv, TypeOK, ChainOK
  <2>11. /\ chain'[slot] = Append(q, ptr) /\ DOMAIN chain' = DOMAIN chain
         /\ \A s \in DOMAIN chain : s # slot => chain'[s] = chain[s]
    BY <1>1, <2>3, <2>9, <2>10 DEF IInv, TypeOK, ChainOK
  <2>12. /\ Len(Append(q, ptr)) = Len(q) + 1 /\ Len(q) \in Nat
         /\ Append(q, ptr)[Len(q) + 1] = ptr
         /\ \A i \in 1..Len(q) : Append(q, ptr)[i] = q[i]
    BY <2>8
  <2> DEFINE r == Append(q, ptr)
  <2> HIDE DEF r
  <2>13. /\ Len(r) = Len(q) + 1 /\ r[Len(q) + 1] = ptr /\ \A i \in 1..Len(q) : r[i] = q[i]
         /\ chain'[slot] = r
    BY <2>11, <2>12 DEF r
  <2>20. SlotOf(c) = slot
    BY DEF slot
  <2>14. /\ Len(q) <= c - 1
         /\ \A i \in 1..Len(q) : \E j \in 1..(c - 1) : q[i] = NodePtr(j) /\ SlotOf(j) = slot
         /\ \A i, h \in 1..Len(q) : i < h => q[i] < q[h]
    BY <2>1, <2>2, <2>9, <2>10 DEF SlotInv
  <2>15. ASSUME NEW s \in DOMAIN chain'
         PROVE  /\ Len(chain'[s]) <= c
                /\ \A i \in 1..Len(chain'[s]) :
                     \E j \in 1..c : chain'[s][i] = NodePtr(j)' /\ SlotOf(j) = s
                /\ \A i, h \in 1..Len(chain'[s]) : i < h => chain'[s][i] < chain'[s][h]
    <3>1. CASE s # slot
      <4>1. chain'[s] = chain[s] /\ s \in DOMAIN chain /\ Len(chain[s]) \in Nat
        BY <1>1, <2>11, <3>1 DEF IInv, TypeOK, ChainOK
      <4>2. /\ Len(chain[s]) <= c - 1
            /\ \A i \in 1..Len(chain[s]) : \E j \in 1..(c - 1) : chain[s][i] = NodePtr(j) /\ SlotOf(j) = s
            /\ \A i, h \in 1..Len(chain[s]) : i < h => chain[s][i] < chain[s][h]
        BY <2>1, <2>2, <4>1 DEF SlotInv
      <4> QED BY <2>2, <2>7, <4>1, <4>2
    <3>2. CASE s = slot
      <4>1. Len(r) <= c
        BY <2>2, <2>12, <2>13, <2>14
      <4>2. ASSUME NEW i \in 1..Len(r)
            PROVE  \E j \in 1..c : r[i] = NodePtr(j)' /\ SlotOf(j) = s
        <5>1. CASE i = Len(q) + 1
          BY <2>2, <2>7, <2>13, <2>20, <3>2, <5>1
        <5>2. CASE i # Len(q) + 1
          <6>1. i \in 1..Len(q)
            BY <2>12, <2>13, <5>2
          <6>2. PICK j \in 1..(c - 1) : q[i] = NodePtr(j) /\ SlotOf(j) = slot
            BY <2>14, <6>1
          <6> QED BY <2>2, <2>7, <2>13, <3>2, <6>1, <6>2
        <5> QED BY <5>1, <5>2
      <4>3. ASSUME NEW i \in 1..Len(r), NEW h \in 1..Len(r), i < h
            PROVE  r[i] < r[h]
        <5>1. i \in 1..Len(q) /\ r[i] = q[i]
          BY <2>12, <2>13, <4>3
        <5>2. CASE h = Len(q) + 1
          <6>1. PICK j \in 1..(c - 1) : q[i] = NodePtr(j)
            BY <2>14, <5>1
          <6> QED BY <2>8, <2>13, <5>1, <5>2, <6>1
        <5>3. CASE h # Len(q) + 1
          <6>1. h \in 1..Len(q)
            BY <2>12, <2>13, <5>3
          <6> QED BY <2>13, <2>14, <4>3, <5>1, <6>1
        <5> QED BY <5>2, <5>3
      <4> QED BY <2>13, <3>2, <4>1, <4>2, <4>3
    <3> QED BY <3>1, <3>2
  <2>16. ASSUME NEW j \in 1..c
         PROVE  /\ NodePtr(j)' <= U16Max
                /\ \E i \in 1..Len(chain'[SlotOf(j)]) : chain'[SlotOf(j)][i] = NodePtr(j)'
    <3>1. CASE j = c
      <4>1. Len(q) + 1 \in 1..Len(r)
        BY <2>12, <2>13
      <4> QED BY <2>3, <2>7, <2>13, <2>20, <3>1, <4>1
    <3>2. CASE j # c
      <4>1. j \in 1..(c - 1) /\ j \in 1..N
        BY <1>1, <2>2, <3>2
      <4>2. NodePtr(j) <= U16Max /\ \E i \in 1..Len(chain[SlotOf(j)]) : chain[SlotOf(j)][i] = NodePtr(j)
        BY <2>1, <2>2, <4>1 DEF SlotInv
      <4>3. PICK i \in 1..Len(chain[SlotOf(j)]) : chain[SlotOf(j)][i] = NodePtr(j)
        BY <4>2
      <4>4. CASE SlotOf(j) = slot
        <5>1. i \in 1..Len(q) /\ i \in 1..Len(r)
          BY <2>10, <2>12, <2>13, <4>3, <4>4
        <5> QED BY <2>7, <2>10, <2>13, <4>1, <4>2, <4>3, <4>4, <5>1
      <4>5. CASE SlotOf(j) # slot
        <5>1. SlotOf(j) \in DOMAIN chain
          BY <1>1, <4>1, SlotRange
        <5> QED BY <2>7, <2>11, <4>1, <4>2, <4>3, <4>5, <5>1
      <4> QED BY <4>4, <4>5
    <3> QED BY <3>1, <3>2
  <2> QED BY <2>5, <2>6, <2>15, <2>16 DEF SlotInv
<1> QED BY <1>2, <1>3, <1>4, <1>5, <1>6, Zenon DEF Next, LayoutStep, Returned

-----------------------------------------------------------------------------
(* FrontInv and FitInv: what happens to them when the image grows at its   *)
(* end.                                                                    *)
TextPhases == AtEnd \cup {"error"}

LEMMA Sizes ==
  ASSUME IInv, NEW cell \in MemCell, KnownCell(cell)
  PROVE  CellSize(cell) \in Nat \ {0}
<1>1. /\ \A j \in 0..N : Label(j) \in Text
      /\ \A j \in 1..N : InfoSize(tab, j) \in {4, 6, 8}
  BY Basics
<1>2. strList \in Seq(Text)
  BY DEF IInv, TypeOK, StringsOK
<1>3. \A t \in Text : TextLen[t] + 1 \in Nat \ {0}
  BY FormatAssumption
<1>4. CASE cell.kind = "info"
  BY <1>1, <1>4 DEF CellSize, KnownCell
<1>5. CASE cell.kind = "name"
  BY <1>1, <1>3, <1>5 DEF CellSize, KnownCell
<1>6. CASE cell.kind = "string"
  BY <1>2, <1>3, <1>6 DEF CellSize, KnownCell
<1>7. CASE cell.kind = "value"
  BY <1>7 DEF CellSize, KnownCell
<1>8. CASE cell.kind \notin {"info", "name", "string", "value"}
  BY <1>8 DEF CellSize
<1> QED BY <1>4, <1>5, <1>6, <1>7, <1>8

LEMMA SizeSame ==
  ASSUME IInv, UNCHANGED input,
         pc \in TextPhases => pc' \in TextPhases /\ strList' = strList,
         NEW cell \in MemCell, KnownCell(cell)
  PROVE  KnownCell(cell)' /\ CellSize(cell)' = CellSize(cell)
<1>1. /\ N' = N /\ tab' = tab /\ \A j : Label(j)' = Label(j)
  BY LayoutSame DEF IInv, TypeOK
<1>2. CASE cell.kind = "string"
  BY <1>2 DEF CellSize, KnownCell, TextPhases
<1>3. CASE cell.kind # "string"
  <2>1. KnownCell(cell)'
    BY <1>1, <1>3 DEF KnownCell
  <2>2. CellSize(cell)' = CellSize(cell)
    BY <1>1, <1>3 DEF CellSize
  <2> QED BY <2>1, <2>2
<1> QED BY <1>2, <1>3

LEMMA InBuf ==
  ASSUME IInv, FrontInv, NEW a \in DOMAIN buf
  PROVE  /\ a \in Nat /\ buf[a] \in MemCell /\ KnownCell(buf[a])
         /\ CellSize(buf[a]) \in Nat \ {0} /\ a + CellSize(buf[a]) <= pos /\ a < pos
<1>1. a \in Nat /\ buf[a] \in MemCell /\ KnownCell(buf[a]) /\ a + CellSize(buf[a]) <= pos
  BY DEF IInv, TypeOK, ImageOK, FrontInv, BeforeCursor
<1>2. CellSize(buf[a]) \in Nat \ {0} /\ pos \in Nat
  BY <1>1, Sizes DEF IInv, TypeOK, ImageOK
<1> HIDE DEF FrontInv
<1> QED BY <1>1, <1>2

(* A step that writes nothing. *)
LEMMA Idle ==
  ASSUME IInv, IInv', FrontInv, FitInv, UNCHANGED <<input, buf>>, pos <= pos',
         pc \in TextPhases => pc' \in TextPhases /\ strList' = strList
  PROVE  /\ FrontInv' /\ FitInv'
         /\ \A a, c : Holds(a, c) => Holds(a, c)'
<1>1. pos \in Nat /\ pos' \in Nat
  BY DEF IInv, TypeOK, ImageOK
<1>2. ASSUME NEW a \in DOMAIN buf
      PROVE  KnownCell(buf[a])' /\ CellSize(buf[a])' = CellSize(buf[a]) /\ a + CellSize(buf[a])' <= pos'
  <2>1. PICK c : c = buf[a]
    OBVIOUS
  <2>2. /\ a \in Nat /\ c \in MemCell /\ KnownCell(c)
        /\ CellSize(c) \in Nat /\ a + CellSize(c) <= pos
    BY <2>1, InBuf
  <2>3. KnownCell(c)' /\ CellSize(c)' = CellSize(c)
    BY <2>2, SizeSame
  <2> QED BY <1>1, <2>1, <2>2, <2>3
<1>3. BeforeCursor'
  BY <1>2 DEF BeforeCursor
<1>4. ItemsDisjoint'
  BY <1>2 DEF FrontInv, ItemsDisjoint
<1> QED BY <1>3, <1>4 DEF FrontInv, FitInv, Holds

(* A step that writes at the cursor or behind it. *)
LEMMA Grows ==
  ASSUME IInv, IInv', FrontInv, FitInv, UNCHANGED input, pos <= pos',
         pc \in TextPhases => pc' \in TextPhases /\ strList' = strList,
         NEW w, CellsOK(w), buf' = StoreAll(buf, w),
         \A a \in DOMAIN w :
           /\ pos <= a /\ KnownCell(w[a])' /\ a + CellSize(w[a])' <= pos'
           /\ w[a].kind # "value" => w[a].val <= U16Max,
         \A a, b \in DOMAIN w : a < b => a + CellSize(w[a])' <= b
  PROVE  /\ FrontInv' /\ FitInv'
         /\ \A a, c : Holds(a, c) => Holds(a, c)'
         /\ \A a \in DOMAIN w : Holds(a, w[a])'
         /\ DOMAIN buf' = DOMAIN buf \cup DOMAIN w
<1>1. pos \in Nat /\ pos' \in Nat
  BY DEF IInv, TypeOK, ImageOK
<1>2. /\ DOMAIN buf' = DOMAIN buf \cup DOMAIN w
      /\ \A a \in DOMAIN w : buf'[a] = w[a] /\ a \in Nat /\ w[a] \in MemCell
  BY DEF StoreAll, CellsOK
<1>3. ASSUME NEW a \in DOMAIN buf
      PROVE  /\ a \in Nat /\ a \notin DOMAIN w /\ buf'[a] = buf[a]
             /\ KnownCell(buf[a])' /\ CellSize(buf[a])' = CellSize(buf[a])
             /\ a + CellSize(buf[a])' <= pos
  <2>1. PICK c : c = buf[a]
    OBVIOUS
  <2>2. /\ a \in Nat /\ c \in MemCell /\ KnownCell(c)
        /\ CellSize(c) \in Nat /\ a + CellSize(c) <= pos /\ a < pos
    BY <2>1, InBuf
  <2>3. a \notin DOMAIN w
    BY <1>1, <1>2, <2>2
  <2>4. buf'[a] = c
    BY <2>1, <2>3 DEF StoreAll
  <2>5. KnownCell(c)' /\ CellSize(c)' = CellSize(c)
    BY <2>2, SizeSame
  <2> QED BY <2>1, <2>2, <2>3, <2>4, <2>5
<1>4. ASSUME NEW a \in DOMAIN w
      PROVE  /\ buf'[a] = w[a] /\ pos <= a /\ a \in Nat
             /\ KnownCell(buf[a])' /\ a + CellSize(buf[a])' <= pos'
    BY <1>2
<1>5. BeforeCursor'
  <2> SUFFICES ASSUME NEW a \in DOMAIN buf'
               PROVE  KnownCell(buf[a])' /\ a + CellSize(buf[a])' <= pos'
    BY DEF BeforeCursor
  <2>1. CASE a \in DOMAIN buf
    <3>1. CellSize(buf[a])' \in Nat
      BY <1>3, <2>1, InBuf
    <3> QED BY <1>1, <1>3, <2>1, <3>1
  <2>2. CASE a \in DOMAIN w
    BY <1>4, <2>2
  <2> QED BY <1>2, <2>1, <2>2
<1>6. ItemsDisjoint'
  <2> SUFFICES ASSUME NEW a \in DOMAIN buf', NEW b \in DOMAIN buf', a < b
               PROVE  a + CellSize(buf[a])' <= b
    BY DEF ItemsDisjoint
  <2>1. CASE a \in DOMAIN buf /\ b \in DOMAIN buf
    <3>1. a + CellSize(buf[a]) <= b
      BY <2>1 DEF FrontInv, ItemsDisjoint
    <3> QED BY <1>3, <2>1, <3>1
  <2>2. CASE a \in DOMAIN buf /\ b \in DOMAIN w
    <3>1. CellSize(buf[a])' \in Nat
      BY <1>3, <2>2, InBuf
    <3> QED BY <1>1, <1>3, <1>4, <2>2, <3>1
  <2>3. CASE a \in DOMAIN w /\ b \in DOMAIN buf
    BY <1>1, <1>3, <1>4, <2>3, InBuf
  <2>4. CASE a \in DOMAIN w /\ b \in DOMAIN w
    BY <1>4, <2>4
  <2> QED BY <1>2, <2>1, <2>2, <2>3, <2>4
<1>7. FitInv'
  <2> SUFFICES ASSUME NEW a \in DOMAIN buf', buf'[a].kind # "value"
               PROVE  buf'[a].val <= U16Max
    BY DEF FitInv
  <2>1. CASE a \in DOMAIN buf
    BY <1>3, <2>1 DEF FitInv
  <2>2. CASE a \in DOMAIN w
    BY <1>4, <2>2
  <2> QED BY <1>2, <2>1, <2>2
<1>8. \A a, c : Holds(a, c) => Holds(a, c)'
  BY <1>2, <1>3 DEF Holds
<1>9. \A a \in DOMAIN w : Holds(a, w[a])'
  BY <1>2 DEF Holds
<1> QED BY <1>2, <1>5, <1>6, <1>7, <1>8, <1>9 DEF FrontInv

-----------------------------------------------------------------------------
(* What the steps of the write pass have in common.                        *)
AllInv == SpaceInv /\ LayoutInv /\ SlotInv /\ ImageInv

(* Once the layout is complete, everything has its place. *)
LEMMA Places ==
  ASSUME SpaceInv, LayoutInv, pc \in WritePhases
  PROVE  /\ nameLen = nameMax /\ NodesOffset = nameBase + nameLen /\ NameEnd(N) = nameLen
         /\ nameBase \in Nat /\ nameLen \in Nat /\ nameOff[0] = 0
         /\ \A j \in 1..N : nameOff[j] = NameEnd(j - 1)
         /\ \A j \in 0..N : nameOff[j] \in Nat
         /\ \A j \in 1..N : infoPtr[j] = InfoEnd(j - 1) /\ infoPtr[j] \in Nat
         /\ nameBase = HeaderSize(opt.wii) + infoLen /\ InfoEnd(N) <= nameBase
<1>1. /\ IInv /\ N \in Nat /\ HeaderSize(opt.wii) \in Nat
      /\ \A j \in 0..N : ReservedSize(j) \in Nat
  BY Basics DEF SpaceInv
<1>2. /\ nameBase \in Nat /\ nameMax \in Nat /\ infoLen \in Nat /\ nameLen \in Nat
      /\ NatFun(nameOff) /\ NatFun(infoPtr)
  BY <1>1 DEF IInv, TypeOK, NamesOK, InfosOK
<1>3. DOMAIN nameOff = 0..N /\ DOMAIN infoPtr = 1..N /\ DOMAIN spaceAt = 0..N
  BY <1>1 DEF IInv, Progress
<1>4. /\ \A j \in 0..N : nameOff[j] \in Nat
      /\ \A j \in 1..N : infoPtr[j] \in Nat
  BY <1>2, <1>3 DEF NatFun
<1>5. /\ \A j \in 0..N : nameOff[j] = spaceAt[j]
      /\ \A j \in 1..N : spaceAt[j] = spaceAt[j - 1] + ReservedSize(j - 1)
      /\ spaceAt[0] = 0
      /\ nameMax = spaceAt[N] + ReservedSize(N) /\ nameLen = nameOff[N] + ReservedSize(N)
  <2>1. \A j \in 1..N : j \in DOMAIN spaceAt \ {0}
    BY <1>1, <1>3
  <2>2. \A j \in 0..N : nameOff[j] = spaceAt[j]
    BY <1>3 DEF SpaceInv, Inserted
  <2>3. \A j \in 1..N : spaceAt[j] = spaceAt[j - 1] + ReservedSize(j - 1)
    BY <1>3, <2>1 DEF SpaceInv, Reserved
  <2>4. spaceAt[0] = 0
    BY <1>1, <1>3 DEF SpaceInv, Reserved
  <2>5. nameMax = spaceAt[N] + ReservedSize(N) /\ nameLen = nameOff[N] + ReservedSize(N)
    BY DEF SpaceInv, Reserved, Inserted
  <2> QED BY <2>2, <2>3, <2>4, <2>5
<1>6. nameBase = HeaderSize(opt.wii) + infoLen /\ InfoEnd(N) <= nameBase
  BY DEF LayoutInv, Offsets, Located
<1>7. \A j \in 1..N : infoPtr[j] = InfoEnd(j - 1)
  BY <1>3 DEF LayoutInv, Offsets
<1>8. \A j \in 1..N : nameOff[j] = NameEnd(j - 1)
  <2>1. \A j \in 1..N : j \in 0..N /\ j - 1 \in 0..N
    BY <1>1
  <2> QED BY <1>5, <2>1 DEF NameEnd
<1>9. nameLen = nameMax /\ NameEnd(N) = nameLen /\ nameOff[0] = 0
  BY <1>1, <1>5 DEF NameEnd
<1>10. NodesOffset = nameBase + nameLen
  BY <1>1, <1>2, <1>6, <1>9 DEF NodesOffset
<1> QED BY <1>2, <1>4, <1>6, <1>7, <1>8, <1>9, <1>10

(* A step that leaves the layout and what has been written alone. *)
Layout == <<input, names, infos, chain>>
Keeps == UNCHANGED Layout /\ \A a, c : Holds(a, c) => Holds(a, c)'

LEMMA SameLayout ==
  ASSUME IInv, UNCHANGED Layout
  PROVE  /\ N' = N /\ tab' = tab /\ opt' = opt /\ infoPtr' = infoPtr /\ chain' = chain
         /\ nameBase' = nameBase /\ nameLen' = nameLen /\ nameOff' = nameOff
         /\ rowLen' = rowLen /\ infoLen' = infoLen
         /\ \A j : /\ NodePtr(j)' = NodePtr(j) /\ NamePtr(j)' = NamePtr(j)
                   /\ InfoVal(j)' = InfoVal(j) /\ InfoEnd(j)' = InfoEnd(j)
                   /\ NameEnd(j)' = NameEnd(j) /\ Label(j)' = Label(j)
         /\ \A s, i : NextOf(s, i)' = NextOf(s, i)
         /\ NodesOffset' = NodesOffset
<1>1. /\ N' = N /\ tab' = tab /\ opt' = opt /\ infoPtr' = infoPtr /\ chain' = chain
      /\ nameBase' = nameBase /\ nameLen' = nameLen /\ nameOff' = nameOff
      /\ rowLen' = rowLen /\ infoLen' = infoLen /\ nameMax' = nameMax /\ dataOff' = dataOff
      /\ UNCHANGED input
  BY Fixed DEF Layout, names, infos, IInv, TypeOK
<1>2. \A j : InfoEnd(j)' = InfoEnd(j) /\ NameEnd(j)' = NameEnd(j) /\ Label(j)' = Label(j)
  BY LayoutSame DEF Layout, IInv, TypeOK
<1>3. NodesOffset' = NodesOffset
  BY <1>1 DEF NodesOffset
<1>4. \A j : NodePtr(j)' = NodePtr(j)
  BY <1>1, <1>3 DEF NodePtr
<1>5. \A j : NamePtr(j)' = NamePtr(j)
  BY <1>1 DEF NamePtr
<1>6. \A j : InfoVal(j)' = InfoVal(j)
  BY <1>1, <1>4 DEF InfoVal
<1>7. \A s, i : NextOf(s, i)' = NextOf(s, i)
  BY <1>1 DEF NextOf
<1> QED BY <1>1, <1>2, <1>3, <1>4, <1>5, <1>6, <1>7

LEMMA InfosKept ==
  ASSUME IInv, InfosThere, Keeps,
         \A j \in 1..InfosWritten' :
           j \in 1..InfosWritten \/ Holds(infoPtr[j], Cell("info", j, InfoVal(j)))'
  PROVE  InfosThere'
BY SameLayout DEF InfosThere, Keeps

LEMMA NamesKept ==
  ASSUME IInv, NamesThere, Keeps,
         \A j \in 0..NamesWritten' :
           j \in 0..NamesWritten \/ Holds(NamePtr(j), Cell("name", j, 0))'
  PROVE  NamesThere'
BY SameLayout DEF NamesThere, Keeps

NodeThere(j) ==
  /\ Holds(NodePtr(j), Cell("nodeInfo", j, infoPtr[j]))
  /\ IsLink(LinkAt(NodePtr(j)))
  /\ ~opt.wii => Holds(NodePtr(j) + 4, Cell("nodeName", j, NamePtr(j)))

LEMMA NodeKept ==
  ASSUME IInv, Keeps, NEW j, NodeThere(j)
  PROVE  NodeThere(j)'
<1>1. PICK a : a = LinkAt(NodePtr(j))
  OBVIOUS
<1>2. PICK c : c = buf[a]
  OBVIOUS
<1>3. Holds(a, c) /\ c.kind = "nodeLink"
  BY <1>1, <1>2 DEF NodeThere, IsLink, Holds
<1>4. Holds(a, c)'
  BY <1>3 DEF Keeps
<1>5. a = LinkAt(NodePtr(j))'
  BY <1>1, SameLayout DEF Keeps, LinkAt
<1>6. IsLink(LinkAt(NodePtr(j)))'
  BY <1>3, <1>4, <1>5 DEF IsLink, Holds
<1>7. Holds(NodePtr(j), Cell("nodeInfo", j, infoPtr[j]))'
  BY SameLayout DEF Keeps, NodeThere
<1>8. (~opt.wii => Holds(NodePtr(j) + 4, Cell("nodeName", j, NamePtr(j))))'
  BY SameLayout DEF Keeps, NodeThere
<1> QED BY <1>6, <1>7, <1>8 DEF NodeThere

LEMMA NodesKept ==
  ASSUME IInv, NodesThere, Keeps,
         \A j \in 1..NodesWritten' : j \in 1..NodesWritten \/ NodeThere(j)'
  PROVE  NodesThere'
<1>1. \A j \in 1..NodesWritten : NodeThere(j)
  BY DEF NodesThere, NodeThere
<1>2. \A j \in 1..NodesWritten' : NodeThere(j)'
  BY <1>1, NodeKept
<1> QED BY <1>2 DEF NodesThere, NodeThere

LEMMA LinksKept ==
  ASSUME IInv, NodesThere, LinksThere, Keeps,
         pc' \in Linked => pc \in Linked,
         pc' \in WritePhases \ Linked =>
           /\ pc \in (WritePhases \ Linked) \cup {"nodes"}
           /\ \A j \in 1..NodesWritten' :
                \/ j \in 1..NodesWritten /\ pc # "nodes"
                \/ Holds(LinkAt(NodePtr(j)), Cell("nodeLink", 0, 0))',
         pc' \in Linked \cup {"link"} => pc \in Linked \cup {"link"} /\ hashOffset' = hashOffset
  PROVE  LinksThere'
<1>1. ASSUME pc' \in WritePhases \ Linked, NEW j \in 1..NodesWritten'
      PROVE  buf'[LinkAt(NodePtr(j))'] = Cell("nodeLink", 0, 0)
  <2>1. CASE j \in 1..NodesWritten /\ pc # "nodes"
    <3>1. Holds(LinkAt(NodePtr(j)), Cell("nodeLink", 0, 0))
      BY <1>1, <2>1 DEF LinksThere, NodesThere, Holds, IsLink
    <3>2. LinkAt(NodePtr(j))' = LinkAt(NodePtr(j))
      BY SameLayout DEF Keeps, LinkAt
    <3> QED BY <3>1, <3>2 DEF Keeps, Holds
  <2>2. CASE Holds(LinkAt(NodePtr(j)), Cell("nodeLink", 0, 0))'
    BY <2>2 DEF Holds
  <2> QED BY <1>1, <2>1, <2>2
<1>2. ASSUME pc' \in Linked, NEW s \in DOMAIN chain', NEW i \in 1..Len(chain'[s])
      PROVE  Holds(LinkAt(chain[s][i]), Cell("nodeLink", 0, NextOf(s, i)))'
  <2>1. Holds(LinkAt(chain[s][i]), Cell("nodeLink", 0, NextOf(s, i)))
    BY <1>2, SameLayout DEF LinksThere, Keeps
  <2> QED BY <2>1, SameLayout DEF Keeps, LinkAt
<1>3. ASSUME pc' \in Linked \cup {"link"}, NEW s \in DOMAIN chain'
      PROVE  Holds(hashOffset + 2 * s, Cell("slot", s, IF chain[s] = <<>> THEN 0 ELSE chain[s][1]))'
  <2>1. Holds(hashOffset + 2 * s, Cell("slot", s, IF chain[s] = <<>> THEN 0 ELSE chain[s][1]))
    BY <1>3, SameLayout DEF LinksThere, Keeps
  <2> QED BY <1>3, <2>1, SameLayout DEF Keeps
<1> QED BY <1>1, <1>2, <1>3 DEF LinksThere

LEMMA TextIdle ==
  ASSUME FrontInv, FrontInv', TextInv, UNCHANGED <<input, strings>>,
         pc \notin {"rows"} \cup TextPhases, pc' \notin {"rows"} \cup AtEnd,
         pc' = "error" => UNCHANGED buf
  PROVE  TextInv'
<1>1. \A i : StrEnd(i)' = StrEnd(i)
  BY DEF StrEnd, strings
<1>2. StringsWritten' = 0
  BY DEF StringsWritten, AtEnd
<1>3. \A a \in DOMAIN buf' : buf'[a].kind # "string"
  <2>1. CASE pc' = "error"
    BY <2>1 DEF FrontInv, BeforeCursor, KnownCell, TextPhases
  <2>2. CASE pc' # "error"
    BY <2>2 DEF FrontInv, BeforeCursor, KnownCell
  <2> QED BY <2>1, <2>2
<1>4. /\ \A i \in 1..Len(strList') :
           strList'[i] \in DOMAIN strOff' /\ strOff'[strList'[i]] = StrEnd(i - 1)'
      /\ \A i, j \in 1..Len(strList') : strList'[i] = strList'[j] => i = j
      /\ \A t \in DOMAIN strOff' : \E i \in 1..Len(strList') : strList'[i] = t
      /\ strLen' = StrEnd(Len(strList))'
  BY <1>1 DEF TextInv, strings
<1>5. \A i \in 1..StringsWritten' : FALSE
  BY <1>2
<1> QED BY <1>3, <1>4, <1>5 DEF TextInv, AtEnd

-----------------------------------------------------------------------------
(* ImageInv, step by step.                                                 *)
LEMMA ImageInit == Init => ImageInv
<1> SUFFICES ASSUME Init PROVE ImageInv
  OBVIOUS
<1>1. DOMAIN buf = {} /\ pc = "start" /\ pos = 0 /\ strList = <<>> /\ strLen = 0 /\ DOMAIN strOff = {}
  BY DEF Init, Empty
<1>2. FrontInv /\ FitInv /\ HeaderInv /\ Cursor
  BY <1>1 DEF Init, FrontInv, BeforeCursor, ItemsDisjoint, FitInv, HeaderInv, Cursor, WritePhases
<1>3. InfosWritten = 0 /\ NamesWritten = -1 /\ NodesWritten = 0
  BY <1>1 DEF InfosWritten, NamesWritten, NodesWritten, WritePhases
<1>4. ThereInv
  BY <1>1, <1>3 DEF ThereInv, InfosThere, NamesThere, NodesThere, LinksThere, Linked, AtEnd, WritePhases
<1>5. TextInv
  BY <1>1 DEF TextInv, AtEnd, StrEnd, StringsWritten
<1> QED BY <1>2, <1>4, <1>5 DEF ImageInv

LEMMA HeaderIdle ==
  ASSUME AllInv, LayoutStep \/ WriteStep
  PROVE  HeaderInv'
<1>1. UNCHANGED result
  BY ZenonT(60)
  DEF LayoutStep, ReserveTableName, ReserveName, ReserveDone, AddInfo, InfosDone, AddNode, NodesDone,
      WriteStep, WriteInfo, WriteInfosDone, WriteName, WriteWiiNode, WriteNamesDone, WriteNode,
      WriteNodesDone, WriteFirstLevel, LinkNodes, WriteValue, RowDone, RowsDone, WriteString, StringsDone
<1>2. pc \notin {"done", "scramble"} /\ pc' \notin {"done", "scramble"}
  BY DEF LayoutStep, ReserveTableName, ReserveName, ReserveDone, AddInfo, InfosDone, AddNode, NodesDone,
      WriteStep, WriteInfo, WriteInfosDone, WriteName, WriteWiiNode, WriteNamesDone, WriteNode,
      WriteNodesDone, WriteFirstLevel, LinkNodes, WriteValue, RowDone, RowsDone, WriteString, StringsDone,
      Goto, Stay
<1> QED BY <1>1, <1>2 DEF HeaderInv, AllInv, ImageInv, result

LEMMA ImageLayout ==
  ASSUME AllInv, IInv', LayoutStep
  PROVE  ImageInv'
<1>1. IInv /\ FrontInv /\ FitInv /\ TextInv /\ Cursor
  BY DEF AllInv, SpaceInv, ImageInv
<1>2. /\ UNCHANGED <<buf, strings>> /\ pc \in {"start", "reserve", "infos", "nodes"}
      /\ \/ pos' = pos /\ pc' \in {"reserve", "infos", "nodes", "error", "panicNode"}
         \/ /\ UNCHANGED <<names, infos, chain>> /\ pc = "nodes"
            /\ pos' = HeaderSize(opt.wii) /\ pc' = "writeInfos" /\ k' = 1
  BY DEF LayoutStep, ReserveTableName, ReserveName, ReserveDone, AddInfo, InfosDone,
         AddNode, NodesDone, Goto, Stay
<1>u. UNCHANGED input
  BY ZenonT(60) DEF LayoutStep, ReserveTableName, ReserveName, ReserveDone, AddInfo, InfosDone,
         AddNode, NodesDone
<1>3. pos = 0 /\ HeaderSize(opt.wii) \in Nat /\ N' = N /\ opt' = opt /\ N \in Nat
  BY <1>1, <1>2, <1>u, Basics, LayoutSame DEF Cursor, IInv, TypeOK
<1>4. FrontInv' /\ FitInv'
  BY <1>1, <1>2, <1>3, <1>u, Idle DEF TextPhases, AtEnd
<1>5. TextInv'
  BY <1>1, <1>2, <1>4, <1>u, TextIdle DEF TextPhases, AtEnd
<1>6. HeaderInv'
  BY HeaderIdle DEF WriteStep
<1>7. Cursor'
  <2>1. pc' = "writeInfos" => pos' = InfoEnd(k - 1)'
    BY <1>2, <1>3 DEF InfoEnd
  <2> QED BY <1>2, <1>3, <2>1 DEF Cursor, WritePhases
<1>8. InfosWritten' = 0 /\ NamesWritten' = -1 /\ NodesWritten' = 0
  BY <1>2 DEF InfosWritten, NamesWritten, NodesWritten, WritePhases
<1>9. ThereInv'
  BY <1>2, <1>8 DEF ThereInv, InfosThere, NamesThere, NodesThere, LinksThere, Linked, AtEnd, WritePhases
<1> QED BY <1>4, <1>5, <1>6, <1>7, <1>9 DEF ImageInv

(* One cell is written at the cursor. *)
LEMMA WritesOne ==
  ASSUME IInv, IInv', FrontInv, FitInv, UNCHANGED Layout,
         pc \in TextPhases => pc' \in TextPhases /\ strList' = strList,
         NEW p, p = pos, NEW v \in MemCell, buf' = Store(buf, p, v),
         KnownCell(v)', CellSize(v)' \in Nat, p + CellSize(v)' <= pos', v.kind # "value" => v.val <= U16Max
  PROVE  /\ FrontInv' /\ FitInv' /\ Keeps /\ Holds(p, v)' /\ pos <= pos'
         /\ DOMAIN buf' = DOMAIN buf \cup {p}
<1>1. PICK w : w = [a \in {p} |-> v]
  OBVIOUS
<1>2. /\ pos \in Nat /\ pos' \in Nat /\ p \in Nat /\ UNCHANGED input
  BY DEF IInv, TypeOK, ImageOK, Layout
<1>4. CellsOK(w) /\ DOMAIN w = {p} /\ w[p] = v /\ \A a \in DOMAIN w : a = p /\ w[a] = v
  BY <1>1, <1>2 DEF CellsOK
<1>5. buf' = StoreAll(buf, w)
  BY <1>1, <1>4 DEF Store, StoreAll
<1>6. pos <= pos'
  BY <1>2
<1>7. /\ \A a \in DOMAIN w :
           /\ pos <= a /\ KnownCell(w[a])' /\ a + CellSize(w[a])' <= pos'
           /\ w[a].kind # "value" => w[a].val <= U16Max
      /\ \A a, b \in DOMAIN w : a < b => a + CellSize(w[a])' <= b
  BY <1>2, <1>4
<1>8. /\ FrontInv' /\ FitInv'
      /\ \A a, c : Holds(a, c) => Holds(a, c)'
      /\ \A a \in DOMAIN w : Holds(a, w[a])'
      /\ DOMAIN buf' = DOMAIN buf \cup DOMAIN w
  BY <1>2, <1>4, <1>5, <1>6, <1>7, Grows
<1> QED BY <1>4, <1>6, <1>8 DEF Keeps

(* A node and what stands behind it are written at the cursor. *)
LEMMA WritesNode ==
  ASSUME IInv, IInv', FrontInv, FitInv, UNCHANGED Layout, pc \notin TextPhases,
         NEW p, p = pos, NEW u \in MemCell, NEW l \in MemCell, NEW v \in MemCell,
         u.kind = "nodeInfo", l.kind = "nodeLink", v.kind \in {"name", "nodeName"},
         u.val <= U16Max, l.val <= U16Max, v.val <= U16Max,
         buf' = StoreAll(buf, [a \in {p, p + 2, p + 4} |->
                                 IF a = p THEN u ELSE IF a = p + 2 THEN l ELSE v]),
         KnownCell(v)', CellSize(v)' \in Nat, p + 4 + CellSize(v)' <= pos'
  PROVE  /\ FrontInv' /\ FitInv' /\ Keeps
         /\ Holds(p, u)' /\ Holds(p + 2, l)' /\ Holds(p + 4, v)'
<1>1. PICK w : w = [a \in {p, p + 2, p + 4} |-> IF a = p THEN u ELSE IF a = p + 2 THEN l ELSE v]
  OBVIOUS
<1>2. /\ pos \in Nat /\ pos' \in Nat /\ p \in Nat /\ UNCHANGED input
  BY DEF IInv, TypeOK, ImageOK, Layout
<1>4. CellSize(u)' = 2 /\ CellSize(l)' = 2 /\ KnownCell(u)' /\ KnownCell(l)'
  BY DEF CellSize, KnownCell
<1>5. /\ DOMAIN w = {p, p + 2, p + 4} /\ w[p] = u /\ w[p + 2] = l /\ w[p + 4] = v
  BY <1>1, <1>2
<1>6. CellsOK(w)
  BY <1>1, <1>2 DEF CellsOK
<1>7. buf' = StoreAll(buf, w)
  BY <1>1
<1>8. pos <= pos'
  BY <1>2
<1>9. ASSUME NEW a \in DOMAIN w
      PROVE  /\ pos <= a /\ KnownCell(w[a])' /\ a + CellSize(w[a])' <= pos'
             /\ w[a].kind # "value" => w[a].val <= U16Max
  <2>1. CASE a = p
    BY <1>2, <1>4, <1>5, <2>1
  <2>2. CASE a = p + 2
    BY <1>2, <1>4, <1>5, <2>2
  <2>3. CASE a = p + 4
    BY <1>2, <1>4, <1>5, <2>3
  <2> QED BY <1>5, <2>1, <2>2, <2>3
<1>10. ASSUME NEW a \in DOMAIN w, NEW b \in DOMAIN w, a < b
       PROVE  a + CellSize(w[a])' <= b
  <2>1. a \in {p, p + 2} /\ CellSize(w[a])' = 2
    BY <1>2, <1>4, <1>5, <1>10
  <2> QED BY <1>2, <1>5, <1>10, <2>1
<1>11. /\ FrontInv' /\ FitInv'
       /\ \A a, c : Holds(a, c) => Holds(a, c)'
       /\ \A a \in DOMAIN w : Holds(a, w[a])'
  BY <1>2, <1>6, <1>7, <1>8, <1>9, <1>10, Grows
<1>12. Holds(p, w[p])' /\ Holds(p + 2, w[p + 2])' /\ Holds(p + 4, w[p + 4])'
  BY <1>5, <1>11
<1> QED BY <1>5, <1>11, <1>12 DEF Keeps

LEMMA CellFields ==
  ASSUME NEW kind, NEW item, NEW val
  PROVE  /\ Cell(kind, item, val).kind = kind
         /\ Cell(kind, item, val).item = item
         /\ Cell(kind, item, val).val = val
BY DEF Cell

LEMMA ImageInfos ==
  ASSUME AllInv, IInv', WriteInfo \/ WriteInfosDone
  PROVE  ImageInv'
<1>1. /\ IInv /\ SpaceInv /\ LayoutInv
      /\ FrontInv /\ FitInv /\ TextInv /\ Cursor
      /\ InfosThere /\ NamesThere /\ NodesThere /\ LinksThere
  BY DEF AllInv, SpaceInv, ImageInv, ThereInv
<1>2. /\ UNCHANGED Layout /\ UNCHANGED <<input, strings>> /\ pc = "writeInfos" /\ pc \in WritePhases
      /\ (pc' \in {"writeInfos", "error"} \/ (pc' = "writeNames" /\ k' = 0))
  BY DEF WriteInfo, WriteInfosDone, Layout, names, WritePhases, Goto, Stay
<1>3. PICK c : c = k
  OBVIOUS
<1>4. /\ c \in 1..(N + 1) /\ N \in Nat /\ pos = InfoEnd(c - 1) /\ pos \in Nat /\ pos' \in Nat
      /\ N' = N /\ opt' = opt
  BY <1>1, <1>2, <1>3, Basics, SameLayout DEF IInv, TypeOK, ImageOK, Progress, Cursor
<1>5. HeaderInv'
  BY HeaderIdle DEF WriteStep
<1>6. pc \notin TextPhases /\ pc' \notin {"rows"} \cup AtEnd /\ pc \notin {"rows"} \cup TextPhases
  BY <1>2 DEF TextPhases, AtEnd
<1>7. InfosWritten = c - 1 /\ NamesWritten = -1 /\ NodesWritten = 0
  BY <1>2, <1>3 DEF InfosWritten, NamesWritten, NodesWritten, WritePhases
<1>8. NamesWritten' = -1 /\ NodesWritten' = 0
  BY <1>2 DEF NamesWritten, NodesWritten, WritePhases
<1>9. CASE WriteInfo /\ InfoFits(k)
  <2>1. c \in 1..N /\ infoPtr[c] = pos /\ InfoSize(tab, c) \in {4, 6, 8} /\ InfoVal(c) \in Nat
    BY <1>1, <1>2, <1>3, <1>4, <1>9, Places, Basics, Pointers DEF WriteInfo
  <2>2. PICK p, v : p = pos /\ v = Cell("info", c, InfoVal(c))
    OBVIOUS
  <2>3. /\ buf' = Store(buf, p, v) /\ pos' = pos + InfoSize(tab, c) /\ pc' = pc /\ k' = c + 1
        /\ v.kind = "info" /\ v.item = c /\ v.val <= U16Max
    BY <1>3, <1>9, <2>2, CellFields DEF WriteInfo, Stay, InfoFits, FitsU16
  <2>4. v \in MemCell
    BY <1>4, <2>1, <2>2, CellTyped DEF CellKind
  <2>5. KnownCell(v)' /\ CellSize(v)' = InfoSize(tab, c)
    BY <1>1, <1>2, <1>4, <2>1, <2>3, SameLayout DEF KnownCell, CellSize
  <2>10. CellSize(v)' \in Nat /\ p + CellSize(v)' <= pos'
    BY <1>4, <2>1, <2>2, <2>3, <2>5
  <2>6. FrontInv' /\ FitInv' /\ Keeps /\ Holds(p, v)' /\ pos <= pos'
    BY <1>1, <1>2, <1>6, <2>2, <2>3, <2>4, <2>5, <2>10, WritesOne
  <2>7. Holds(infoPtr[c], Cell("info", c, InfoVal(c)))'
    BY <1>1, <1>2, <2>1, <2>2, <2>6, SameLayout
  <2>8. InfosThere'
    BY <1>1, <1>2, <1>4, <1>7, <2>3, <2>6, <2>7, InfosKept DEF InfosWritten
  <2>9. Cursor'
    <3>1. InfoEnd(c)' = pos'
      BY <1>1, <1>2, <1>4, <2>1, <2>3, SameLayout DEF InfoEnd
    <3>2. k' - 1 = c
      BY <1>4, <2>3
    <3> QED BY <1>2, <2>3, <3>1, <3>2 DEF Cursor
  <2>11. NamesThere' /\ NodesThere' /\ LinksThere'
    BY <1>1, <1>2, <1>8, <2>3, <2>6, NamesKept, NodesKept, LinksKept DEF Linked, AtEnd
  <2>12. TextInv'
    BY <1>1, <1>2, <1>6, <2>3, <2>6, TextIdle
  <2> QED BY <1>5, <2>6, <2>8, <2>9, <2>11, <2>12 DEF ImageInv, ThereInv
<1>10. CASE ~(WriteInfo /\ InfoFits(k))
  <2>1. UNCHANGED buf
    BY <1>10 DEF WriteInfo, WriteInfosDone
  <2>2. \/ WriteInfosDone /\ c = N + 1
        \/ pc' = "error" /\ pos' = pos
    BY <1>3, <1>4, <1>10 DEF WriteInfo, WriteInfosDone, Goto
  <2>3. CASE WriteInfosDone /\ c = N + 1
    <3>1. pc' = "writeNames" /\ pos' = nameBase /\ k' = 0 /\ pos <= pos'
      BY <1>1, <1>2, <1>4, <2>3, Places DEF WriteInfosDone, Goto
    <3>2. FrontInv' /\ FitInv' /\ Keeps
      BY <1>1, <1>2, <1>6, <2>1, <3>1, Idle DEF Keeps
    <3>3. InfosWritten' = N
      BY <1>4, <3>1 DEF InfosWritten, WritePhases
    <3>4. InfosThere' /\ NamesThere' /\ NodesThere' /\ LinksThere'
      BY <1>1, <1>2, <1>4, <1>7, <1>8, <2>3, <3>1, <3>2, <3>3, InfosKept, NamesKept, NodesKept, LinksKept
      DEF Linked, AtEnd
    <3>5. Cursor'
      BY <1>1, <1>2, <1>4, <3>1, SameLayout DEF Cursor
    <3>6. TextInv'
      BY <1>1, <1>2, <1>6, <3>1, <3>2, TextIdle
    <3> QED BY <1>5, <3>2, <3>4, <3>5, <3>6 DEF ImageInv, ThereInv
  <2>4. CASE pc' = "error" /\ pos' = pos
    <3>2. FrontInv' /\ FitInv' /\ Keeps
      BY <1>1, <1>2, <1>4, <1>6, <2>1, <2>4, Idle DEF Keeps
    <3>3. InfosWritten' = 0
      BY <2>4 DEF InfosWritten, WritePhases
    <3>4. InfosThere' /\ NamesThere' /\ NodesThere' /\ LinksThere'
      BY <1>1, <1>2, <1>8, <2>4, <3>2, <3>3, InfosKept, NamesKept, NodesKept, LinksKept
      DEF Linked, AtEnd, WritePhases
    <3>5. Cursor'
      BY <2>4 DEF Cursor, WritePhases
    <3>6. TextInv'
      BY <1>1, <1>2, <1>6, <2>1, <2>4, <3>2, TextIdle
    <3> QED BY <1>5, <3>2, <3>4, <3>5, <3>6 DEF ImageInv, ThereInv
  <2> QED BY <2>2, <2>3, <2>4
<1> QED BY <1>9, <1>10

LEMMA ImageNames ==
  ASSUME AllInv, IInv', WriteName \/ WriteWiiNode \/ WriteNamesDone
  PROVE  ImageInv'
<1>1. /\ IInv /\ SpaceInv /\ LayoutInv
      /\ FrontInv /\ FitInv /\ TextInv /\ Cursor
      /\ InfosThere /\ NamesThere /\ NodesThere /\ LinksThere
  BY DEF AllInv, SpaceInv, ImageInv, ThereInv
<1>2. /\ UNCHANGED Layout /\ UNCHANGED <<input, strings>> /\ pc = "writeNames" /\ pc \in WritePhases
      /\ pc' \in {"writeNames", "writeNodes", "hash"}
  BY DEF WriteName, WriteWiiNode, WriteNamesDone, Layout, WritePhases, Goto, Stay
<1>3. PICK c, p : c = k /\ p = pos
  OBVIOUS
<1>4. /\ c \in 0..(N + 1) /\ N \in Nat /\ pos \in Nat /\ pos' \in Nat
      /\ N' = N /\ opt' = opt /\ tab' = tab /\ nameBase' = nameBase /\ opt.wii \in BOOLEAN
      /\ pos = IF c = 0 THEN nameBase ELSE nameBase + NameEnd(c - 1)
      /\ nameBase <= pos /\ nameBase \in Nat
  BY <1>1, <1>2, <1>3, Basics, SameLayout, Places DEF IInv, TypeOK, ImageOK, Progress, Cursor
<1>5. HeaderInv'
  BY HeaderIdle DEF WriteStep
<1>6. pc \notin TextPhases /\ pc' \notin {"rows"} \cup AtEnd /\ pc \notin {"rows"} \cup TextPhases /\ pc' # "error"
  BY <1>2 DEF TextPhases, AtEnd
<1>7. /\ InfosWritten = N /\ InfosWritten' = N /\ NamesWritten = c - 1
      /\ NodesWritten = IF opt.wii /\ c > 0 THEN c - 1 ELSE 0
  BY <1>2, <1>3, <1>4 DEF InfosWritten, NamesWritten, NodesWritten, WritePhases
<1>8. Keeps => InfosThere'
  BY <1>1, <1>7, InfosKept
<1>9. ASSUME NEW j \in 0..N
      PROVE  nameOff[j] \in Nat /\ NamePtr(j) = nameBase + nameOff[j] + (IF opt.wii /\ j > 0 THEN 4 ELSE 0)
  BY <1>1, <1>2, Places DEF NamePtr
<1>10. ASSUME c <= N
       PROVE  /\ c \in 0..N /\ pos = nameBase + nameOff[c] /\ NameSize(Label(c)) \in Nat
              /\ TextLen[Label(c)] + 1 \in Nat /\ TextLen[Label(c)] + 1 <= NameSize(Label(c))
              /\ NameEnd(c) = nameOff[c] + NameSize(Label(c)) + (IF opt.wii /\ c > 0 THEN 4 ELSE 0)
              /\ NameEnd(c) \in Nat
  <2>1. c \in 0..N
    BY <1>4, <1>10
  <2>2. /\ Label(c) \in Text /\ NameSize(Label(c)) \in Nat
        /\ ReservedSize(c) = NameSize(Label(c)) + (IF opt.wii /\ c > 0 THEN 4 ELSE 0)
    BY <1>1, <2>1, Basics
  <2>3. TextLen[Label(c)] + 1 \in Nat
    BY <2>2, FormatAssumption
  <2>4. TextLen[Label(c)] + 1 <= NameSize(Label(c))
    BY <2>3, Padding DEF NameSize
  <2>5. pos = nameBase + nameOff[c]
    <3>1. CASE c = 0
      BY <1>1, <1>2, <1>4, <3>1, Places
    <3>2. CASE c # 0
      BY <1>1, <1>2, <1>4, <2>1, <3>2, Places
    <3> QED BY <3>1, <3>2
  <2>6. nameOff[c] \in Nat
    BY <1>9, <2>1
  <2> QED BY <1>4, <2>1, <2>2, <2>3, <2>4, <2>5, <2>6 DEF NameEnd
<1>11. CASE WriteName
  <2>1. PICK v : v = Cell("name", c, 0)
    OBVIOUS
  <2>2. /\ c <= N /\ (~opt.wii \/ c = 0)
        /\ buf' = Store(buf, p, v) /\ pos' = pos + NameSize(Label(c)) /\ pc' = pc /\ k' = c + 1
        /\ v.kind = "name" /\ v.item = c /\ v.val = 0
    BY <1>3, <1>11, <2>1, CellFields DEF WriteName, Stay
  <2>3. v \in MemCell
    BY <1>4, <2>1, CellTyped DEF CellKind
  <2>4. KnownCell(v)' /\ CellSize(v)' = TextLen[Label(c)] + 1
    BY <1>1, <1>2, <1>4, <1>10, <2>2, SameLayout DEF KnownCell, CellSize
  <2>5. CellSize(v)' \in Nat /\ p + CellSize(v)' <= pos' /\ v.val <= U16Max
    BY <1>3, <1>4, <1>10, <2>2, <2>4, FormatAssumption
  <2>6. FrontInv' /\ FitInv' /\ Keeps /\ Holds(p, v)' /\ pos <= pos'
    BY <1>1, <1>2, <1>3, <1>6, <2>2, <2>3, <2>4, <2>5, WritesOne
  <2>7. p = NamePtr(c)
    BY <1>3, <1>4, <1>9, <1>10, <2>2
  <2>8. Holds(NamePtr(c), Cell("name", c, 0))'
    BY <1>1, <1>2, <2>1, <2>6, <2>7, SameLayout
  <2>9. NamesWritten' = c
    BY <1>2, <1>4, <2>2 DEF NamesWritten
  <2>10. NodesWritten' = 0 /\ NodesWritten = 0
    BY <1>2, <1>4, <1>7, <2>2, <2>9 DEF NodesWritten
  <2>11. NamesThere'
    <3>1. \A j \in 0..NamesWritten' : j \in 0..NamesWritten \/ Holds(NamePtr(j), Cell("name", j, 0))'
      BY <1>4, <1>7, <2>8, <2>9
    <3> QED BY <1>1, <2>6, <3>1, NamesKept
  <2>12. NodesThere' /\ LinksThere'
    BY <1>1, <1>2, <2>2, <2>6, <2>10, NodesKept, LinksKept DEF Linked, AtEnd
  <2>13. Cursor'
    <3>3. NameEnd(c)' = NameEnd(c)
      BY <1>1, <1>2, SameLayout
    <3>4. nameOff[c] \in Nat
      BY <1>9, <1>10, <2>2
    <3>1. pos' = nameBase + NameEnd(c) /\ k' - 1 = c /\ k' # 0
      BY <1>4, <1>10, <2>2, <3>4
    <3>2. nameBase' <= pos'
      BY <1>4, <2>6
    <3> QED BY <1>2, <1>4, <2>2, <3>1, <3>2, <3>3 DEF Cursor
  <2>14. TextInv'
    BY <1>1, <1>2, <1>6, <2>6, TextIdle
  <2> QED BY <1>5, <1>8, <2>6, <2>11, <2>12, <2>13, <2>14 DEF ImageInv, ThereInv
<1>12. CASE WriteWiiNode
  <2>1. PICK u, l, v : /\ u = Cell("nodeInfo", c, infoPtr[c])
                       /\ l = Cell("nodeLink", 0, 0) /\ v = Cell("name", c, 0)
    OBVIOUS
  <2>2. /\ c <= N /\ opt.wii /\ c > 0 /\ infoPtr[c] <= U16Max
        /\ buf' = StoreAll(buf, [a \in {p, p + 2, p + 4} |->
                                 IF a = p THEN u ELSE IF a = p + 2 THEN l ELSE v])
        /\ pos' = pos + 4 + NameSize(Label(c)) /\ pc' = pc /\ k' = c + 1
    BY <1>3, <1>12, <2>1 DEF WriteWiiNode, Stay, FitsU16
  <2>3. c \in 1..N /\ infoPtr[c] \in Nat
    BY <1>1, <1>2, <1>4, <2>2, Places
  <2>4. /\ u \in MemCell /\ l \in MemCell /\ v \in MemCell
        /\ u.kind = "nodeInfo" /\ l.kind = "nodeLink" /\ v.kind = "name" /\ v.item = c
        /\ u.val = infoPtr[c] /\ l.val = 0 /\ v.val = 0
    <3>4. c \in Nat
      BY <1>4, <2>3
    <3>1. u \in MemCell /\ u.kind = "nodeInfo" /\ u.val = infoPtr[c]
      BY <2>1, <2>3, <3>4 DEF Cell, MemCell, CellKind
    <3>2. l \in MemCell /\ l.kind = "nodeLink" /\ l.val = 0
      BY <2>1, CellTyped, CellFields DEF CellKind
    <3>3. v \in MemCell /\ v.kind = "name" /\ v.item = c /\ v.val = 0
      BY <2>1, <3>4 DEF Cell, MemCell, CellKind
    <3> QED BY <3>1, <3>2, <3>3
  <2>5. KnownCell(v)' /\ CellSize(v)' = TextLen[Label(c)] + 1
    BY <1>1, <1>2, <1>4, <1>10, <2>2, <2>4, SameLayout DEF KnownCell, CellSize
  <2>6. /\ CellSize(v)' \in Nat /\ p + 4 + CellSize(v)' <= pos' /\ pos <= pos'
        /\ u.val <= U16Max /\ l.val <= U16Max /\ v.val <= U16Max
    BY <1>3, <1>4, <1>10, <2>2, <2>4, <2>5, FormatAssumption
  <2>7. /\ FrontInv' /\ FitInv' /\ Keeps /\ Holds(p, u)' /\ Holds(p + 2, l)' /\ Holds(p + 4, v)'
    BY <1>1, <1>2, <1>3, <1>6, <2>2, <2>4, <2>5, <2>6, WritesNode
  <2>8. p = NodePtr(c) /\ p + 4 = NamePtr(c) /\ p + 2 = LinkAt(NodePtr(c))
    BY <1>3, <1>4, <1>9, <1>10, <2>2 DEF NodePtr, LinkAt
  <2>9. /\ Holds(NamePtr(c), Cell("name", c, 0))'
        /\ Holds(NodePtr(c), Cell("nodeInfo", c, infoPtr[c]))'
        /\ Holds(LinkAt(NodePtr(c)), Cell("nodeLink", 0, 0))'
    BY <1>1, <1>2, <2>1, <2>7, <2>8, SameLayout DEF LinkAt
  <2>10. NodeThere(c)'
    BY <1>4, <2>2, <2>9, CellFields DEF NodeThere, IsLink, Holds
  <2>11. NamesWritten' = c
    BY <1>2, <1>4, <2>2 DEF NamesWritten
  <2>12. NodesWritten' = c /\ NodesWritten = c - 1
    BY <1>2, <1>4, <1>7, <2>2, <2>3, <2>11 DEF NodesWritten
  <2>13. NamesThere'
    <3>1. \A j \in 0..NamesWritten' : j \in 0..NamesWritten \/ Holds(NamePtr(j), Cell("name", j, 0))'
      BY <1>4, <1>7, <2>9, <2>11
    <3> QED BY <1>1, <2>7, <3>1, NamesKept
  <2>14. NodesThere'
    BY <1>1, <1>4, <2>3, <2>7, <2>10, <2>12, NodesKept
  <2>15. LinksThere'
    BY <1>1, <1>2, <2>2, <2>3, <2>7, <2>9, <2>12, LinksKept DEF Linked, AtEnd
  <2>16. Cursor'
    <3>3. NameEnd(c)' = NameEnd(c)
      BY <1>1, <1>2, SameLayout
    <3>4. nameOff[c] \in Nat
      BY <1>9, <1>10, <2>2
    <3>1. pos' = nameBase + NameEnd(c) /\ k' - 1 = c /\ k' # 0
      BY <1>4, <1>10, <2>2, <3>4
    <3>2. nameBase' <= pos'
      BY <1>4, <2>6
    <3> QED BY <1>2, <1>4, <2>2, <3>1, <3>2, <3>3 DEF Cursor
  <2>17. TextInv'
    BY <1>1, <1>2, <1>6, <2>7, TextIdle
  <2> QED BY <1>5, <1>8, <2>7, <2>13, <2>14, <2>15, <2>16, <2>17 DEF ImageInv, ThereInv
<1>13. CASE WriteNamesDone
  <2>1. /\ UNCHANGED <<buf, pos>> /\ c = N + 1 /\ k' = 1
        /\ pc' = (IF opt.wii THEN "hash" ELSE "writeNodes")
    BY <1>3, <1>4, <1>13 DEF WriteNamesDone, Goto
  <2>2. FrontInv' /\ FitInv' /\ Keeps
    BY <1>1, <1>2, <1>4, <1>6, <2>1, Idle DEF Keeps
  <2>3. NamesWritten' = N /\ NamesWritten = N
    BY <1>4, <1>7, <2>1 DEF NamesWritten, WritePhases
  <2>4. NodesWritten' = NodesWritten
    BY <1>2, <1>4, <1>7, <2>1, <2>3 DEF NodesWritten, WritePhases
  <2>5. NamesThere' /\ NodesThere' /\ LinksThere'
    BY <1>1, <1>2, <2>1, <2>2, <2>3, <2>4, NamesKept, NodesKept, LinksKept
    DEF Linked, AtEnd
  <2>6. Cursor'
    <3>1. CASE opt.wii
      BY <1>2, <1>4, <2>1, <3>1 DEF Cursor
    <3>2. CASE ~opt.wii
      <4>1. pos = NodesOffset /\ NodesOffset' = NodesOffset
        BY <1>1, <1>2, <1>4, <2>1, Places, SameLayout
      <4> QED BY <1>2, <1>4, <2>1, <3>2, <4>1 DEF Cursor, NodeSize
    <3> QED BY <3>1, <3>2
  <2>7. TextInv'
    BY <1>1, <1>2, <1>6, <2>2, TextIdle
  <2> QED BY <1>5, <1>8, <2>2, <2>5, <2>6, <2>7 DEF ImageInv, ThereInv
<1> QED BY <1>11, <1>12, <1>13

LEMMA ImageNodes ==
  ASSUME AllInv, IInv', WriteNode \/ WriteNodesDone
  PROVE  ImageInv'
<1>1. /\ IInv /\ SpaceInv /\ LayoutInv
      /\ FrontInv /\ FitInv /\ TextInv /\ Cursor
      /\ InfosThere /\ NamesThere /\ NodesThere /\ LinksThere
  BY DEF AllInv, SpaceInv, ImageInv, ThereInv
<1>2. /\ UNCHANGED Layout /\ UNCHANGED <<input, strings>> /\ pc = "writeNodes" /\ pc \in WritePhases
      /\ pc' \in {"writeNodes", "hash"}
  BY DEF WriteNode, WriteNodesDone, Layout, WritePhases, Goto, Stay
<1>3. PICK c, p : c = k /\ p = pos
  OBVIOUS
<1>4. /\ c \in 1..(N + 1) /\ N \in Nat /\ pos \in Nat /\ pos' \in Nat /\ ~opt.wii
      /\ N' = N /\ opt' = opt /\ nameBase' = nameBase /\ NodesOffset' = NodesOffset
      /\ pos = NodesOffset + (c - 1) * 6
      /\ nameBase <= pos /\ nameBase \in Nat
  BY <1>1, <1>2, <1>3, Basics, SameLayout, Places
  DEF IInv, TypeOK, ImageOK, Progress, Cursor, NodeSize
<1>5. HeaderInv'
  BY HeaderIdle DEF WriteStep
<1>6. pc \notin TextPhases /\ pc' \notin {"rows"} \cup AtEnd /\ pc \notin {"rows"} \cup TextPhases /\ pc' # "error"
  BY <1>2 DEF TextPhases, AtEnd
<1>7. /\ InfosWritten = N /\ InfosWritten' = N /\ NamesWritten = N /\ NamesWritten' = N
      /\ NodesWritten = c - 1
  BY <1>2, <1>3, <1>4 DEF InfosWritten, NamesWritten, NodesWritten, WritePhases
<1>8. Keeps => InfosThere' /\ NamesThere'
  BY <1>1, <1>7, InfosKept, NamesKept
<1>11. CASE WriteNode
  <2>1. PICK u, l, v : /\ u = Cell("nodeInfo", c, infoPtr[c])
                       /\ l = Cell("nodeLink", 0, 0) /\ v = Cell("nodeName", c, NamePtr(c))
    OBVIOUS
  <2>2. /\ c <= N /\ infoPtr[c] <= U16Max /\ NamePtr(c) <= U16Max
        /\ buf' = StoreAll(buf, [a \in {p, p + 2, p + 4} |->
                                 IF a = p THEN u ELSE IF a = p + 2 THEN l ELSE v])
        /\ pos' = pos + 6 /\ pc' = pc /\ k' = c + 1
    BY <1>3, <1>11, <2>1 DEF WriteNode, Stay, FitsU16, NodeSize
  <2>3. c \in 1..N /\ c \in Nat /\ infoPtr[c] \in Nat /\ NamePtr(c) \in Nat
    <3>1. c \in 1..N
      BY <1>4, <2>2
    <3> QED BY <1>1, <1>2, <3>1, Pointers
  <2>4. /\ u \in MemCell /\ l \in MemCell /\ v \in MemCell
        /\ u.kind = "nodeInfo" /\ l.kind = "nodeLink" /\ v.kind = "nodeName"
        /\ u.val = infoPtr[c] /\ l.val = 0 /\ v.val = NamePtr(c)
    <3>1. u \in MemCell /\ u.kind = "nodeInfo" /\ u.val = infoPtr[c]
      BY <2>1, <2>3 DEF Cell, MemCell, CellKind
    <3>2. l \in MemCell /\ l.kind = "nodeLink" /\ l.val = 0
      BY <2>1, CellTyped, CellFields DEF CellKind
    <3>3. v \in MemCell /\ v.kind = "nodeName" /\ v.val = NamePtr(c)
      BY <2>1, <2>3 DEF Cell, MemCell, CellKind
    <3> QED BY <3>1, <3>2, <3>3
  <2>5. KnownCell(v)' /\ CellSize(v)' = 2
    BY <2>4 DEF KnownCell, CellSize
  <2>6. /\ CellSize(v)' \in Nat /\ p + 4 + CellSize(v)' <= pos' /\ pos <= pos'
        /\ u.val <= U16Max /\ l.val <= U16Max /\ v.val <= U16Max
    BY <1>3, <1>4, <2>2, <2>4, <2>5, FormatAssumption
  <2>7. /\ FrontInv' /\ FitInv' /\ Keeps /\ Holds(p, u)' /\ Holds(p + 2, l)' /\ Holds(p + 4, v)'
    BY <1>1, <1>2, <1>3, <1>6, <2>2, <2>4, <2>5, <2>6, WritesNode
  <2>8. p = NodePtr(c)
    BY <1>3, <1>4 DEF NodePtr, NodeSize
  <2>9. /\ Holds(NodePtr(c) + 4, Cell("nodeName", c, NamePtr(c)))'
        /\ Holds(NodePtr(c), Cell("nodeInfo", c, infoPtr[c]))'
        /\ Holds(LinkAt(NodePtr(c)), Cell("nodeLink", 0, 0))'
    BY <1>1, <1>2, <2>1, <2>7, <2>8, SameLayout DEF LinkAt
  <2>10. NodeThere(c)'
    BY <2>9, CellFields DEF NodeThere, IsLink, Holds
  <2>12. NodesWritten' = c
    BY <1>2, <1>4, <2>2 DEF NodesWritten
  <2>14. NodesThere'
    BY <1>1, <1>4, <1>7, <2>3, <2>7, <2>10, <2>12, NodesKept
  <2>15. LinksThere'
    BY <1>1, <1>2, <1>7, <2>2, <2>3, <2>7, <2>9, <2>12, LinksKept DEF Linked, AtEnd
  <2>16. Cursor'
    <3>1. pos' = NodesOffset + (k' - 1) * 6
      <4> HIDE DEF NodesOffset
      <4>1. NodesOffset \in Int
        BY <1>1, <1>2, Places
      <4> QED BY <1>4, <2>2, <2>3, <4>1
    <3>2. nameBase' <= pos'
      BY <1>4, <2>6
    <3> QED BY <1>2, <1>4, <2>2, <3>1, <3>2 DEF Cursor, NodeSize
  <2>17. TextInv'
    BY <1>1, <1>2, <1>6, <2>7, TextIdle
  <2> QED BY <1>5, <1>8, <2>7, <2>14, <2>15, <2>16, <2>17 DEF ImageInv, ThereInv
<1>13. CASE WriteNodesDone
  <2>1. UNCHANGED <<buf, pos>> /\ c = N + 1 /\ k' = 1 /\ pc' = "hash"
    BY <1>3, <1>4, <1>13 DEF WriteNodesDone, Goto
  <2>2. FrontInv' /\ FitInv' /\ Keeps
    BY <1>1, <1>2, <1>4, <1>6, <2>1, Idle DEF Keeps
  <2>4. NodesWritten' = NodesWritten
    BY <1>4, <1>7, <2>1 DEF NodesWritten, WritePhases
  <2>5. NodesThere' /\ LinksThere'
    BY <1>1, <1>2, <2>1, <2>2, <2>4, NodesKept, LinksKept
    DEF Linked, AtEnd
  <2>6. Cursor'
    BY <1>2, <1>4, <2>1 DEF Cursor
  <2>7. TextInv'
    BY <1>1, <1>2, <1>6, <2>2, TextIdle
  <2> QED BY <1>5, <1>8, <2>2, <2>5, <2>6, <2>7 DEF ImageInv, ThereInv
<1> QED BY <1>11, <1>13

LEMMA NodesFit ==
  ASSUME IInv, SlotInv, pc \in WritePhases, NEW s \in DOMAIN chain
  PROVE  /\ chain[s] \in Seq(Nat)
         /\ \A i \in 1..Len(chain[s]) : chain[s][i] \in Nat /\ chain[s][i] <= U16Max
         /\ \A i \in 1..Len(chain[s]) : \E j \in 1..N : chain[s][i] = NodePtr(j)
<1>1. chain[s] \in Seq(Nat)
  BY DEF IInv, TypeOK, ChainOK
<1>2. Threaded = N
  BY DEF Threaded, WritePhases
<1>3. \A i \in 1..Len(chain[s]) : \E j \in 1..N : chain[s][i] = NodePtr(j) /\ NodePtr(j) <= U16Max
  BY <1>2 DEF SlotInv, WritePhases
<1> QED BY <1>1, <1>3, SMTT(30)

LEMMA ImageHash ==
  ASSUME AllInv, IInv', WriteFirstLevel
  PROVE  ImageInv'
<1>1. /\ IInv /\ SpaceInv /\ LayoutInv /\ SlotInv
      /\ FrontInv /\ FitInv /\ TextInv /\ Cursor
      /\ InfosThere /\ NamesThere /\ NodesThere /\ LinksThere
  BY DEF AllInv, SpaceInv, ImageInv, ThereInv
<1>2. /\ UNCHANGED Layout /\ UNCHANGED <<input, strings>> /\ pc = "hash" /\ pc \in WritePhases
      /\ pc' = "link"
  BY DEF WriteFirstLevel, Layout, WritePhases, Goto, Stay
<1>3. PICK p, h : p = pos /\ h = opt.hashSlots
  OBVIOUS
<1>4. /\ N \in Nat /\ p \in Nat /\ pos' \in Nat /\ opt' = opt /\ N' = N /\ nameBase' = nameBase
      /\ nameBase <= p /\ nameBase \in Nat /\ h \in Nat \ {0} /\ DOMAIN chain = 0..(h - 1)
      /\ chain' = chain
  BY <1>1, <1>2, <1>3, Basics, SameLayout, Places
  DEF IInv, TypeOK, ImageOK, ChainOK, Cursor, WritePhases
<1>5. HeaderInv'
  BY HeaderIdle DEF WriteStep
<1>6. pc \notin TextPhases /\ pc' \notin {"rows"} \cup AtEnd /\ pc \notin {"rows"} \cup TextPhases /\ pc' # "error"
  BY <1>2 DEF TextPhases, AtEnd
<1>7. /\ InfosWritten' = InfosWritten /\ NamesWritten' = NamesWritten /\ NodesWritten' = NodesWritten
  BY <1>2, <1>4 DEF InfosWritten, NamesWritten, NodesWritten, WritePhases
<1> DEFINE first(s) == IF chain[s] = <<>> THEN 0 ELSE chain[s][1]
<1>8. PICK w : w = [a \in {p + 2 * s : s \in DOMAIN chain} |->
                      LET s == (a - p) \div 2
                      IN  Cell("slot", s, IF chain[s] = <<>> THEN 0 ELSE chain[s][1])]
  OBVIOUS
<1>9. /\ buf' = StoreAll(buf, w) /\ pos' = p + PadTo(8, 2 * h) /\ hashOffset' = p
  BY <1>3, <1>8 DEF WriteFirstLevel, FirstLevelSize
<1>10. ASSUME NEW s \in 0..(h - 1)
       PROVE  first(s) \in Nat /\ first(s) <= U16Max
  <2>1. CASE chain[s] = <<>>
    BY <2>1, FormatAssumption
  <2>2. CASE chain[s] # <<>>
    <3>1. 1 \in 1..Len(chain[s])
      BY <1>1, <1>2, <1>4, <2>2, NodesFit
    <3> QED BY <1>1, <1>2, <1>4, <2>2, <3>1, NodesFit
  <2> QED BY <2>1, <2>2
<1>11. ASSUME NEW a \in DOMAIN w
       PROVE  \E s \in 0..(h - 1) : a = p + 2 * s /\ w[a] = Cell("slot", s, first(s))
  <2>1. PICK s \in 0..(h - 1) : a = p + 2 * s
    BY <1>4, <1>8
  <2>2. (a - p) \div 2 = s
    BY <1>4, <2>1
  <2> QED BY <1>8, <2>1, <2>2
<1>12. ASSUME NEW s \in 0..(h - 1)
       PROVE  p + 2 * s \in DOMAIN w /\ w[p + 2 * s] = Cell("slot", s, first(s))
  <2>1. p + 2 * s \in DOMAIN w
    BY <1>4, <1>8
  <2>2. PICK r \in 0..(h - 1) : p + 2 * s = p + 2 * r /\ w[p + 2 * s] = Cell("slot", r, first(r))
    BY <1>11, <2>1
  <2>3. s = r
    BY <1>4, <2>2
  <2> QED BY <2>1, <2>2, <2>3
<1> HIDE DEF first
<1>13. PadTo(8, 2 * h) \in Nat /\ PadTo(8, 2 * h) >= 2 * h /\ p <= pos'
  <2>1. 2 * h \in Nat
    BY <1>4
  <2>2. PadTo(8, 2 * h) \in Nat /\ PadTo(8, 2 * h) >= 2 * h
    BY <2>1, Padding
  <2> QED BY <1>4, <1>9, <2>2
<1>14. ASSUME NEW a \in DOMAIN w
       PROVE  /\ a \in Nat /\ w[a] \in MemCell
              /\ pos <= a /\ KnownCell(w[a])' /\ CellSize(w[a])' = 2 /\ a + 2 <= pos'
              /\ w[a].kind # "value" => w[a].val <= U16Max
  <2>1. PICK s \in 0..(h - 1) : a = p + 2 * s /\ w[a] = Cell("slot", s, first(s))
    BY <1>11
  <2>2. a \in Nat /\ pos <= a /\ s \in Nat
    BY <1>3, <1>4, <2>1
  <2>3. w[a] \in MemCell /\ w[a].kind = "slot" /\ w[a].val = first(s)
    BY <1>10, <2>1, <2>2 DEF Cell, MemCell, CellKind
  <2>4. KnownCell(w[a])' /\ CellSize(w[a])' = 2
    BY <2>3 DEF KnownCell, CellSize
  <2>5. a + 2 <= pos'
    BY <1>4, <1>9, <1>13, <2>1
  <2> QED BY <1>10, <2>2, <2>3, <2>4, <2>5
<1>15. ASSUME NEW a \in DOMAIN w, NEW b \in DOMAIN w, a < b
       PROVE  a + CellSize(w[a])' <= b
  <2>1. PICK s \in 0..(h - 1) : a = p + 2 * s
    BY <1>11
  <2>2. PICK r \in 0..(h - 1) : b = p + 2 * r
    BY <1>11
  <2>3. CellSize(w[a])' = 2
    BY <1>14
  <2> QED BY <1>4, <1>15, <2>1, <2>2, <2>3
<1>16. CellsOK(w)
  BY <1>8, <1>14 DEF CellsOK
<1>17. /\ FrontInv' /\ FitInv' /\ Keeps
       /\ \A a \in DOMAIN w : Holds(a, w[a])'
  <2>1. pos <= pos'
    BY <1>3, <1>13
  <2>2. \A a \in DOMAIN w :
           /\ pos <= a /\ KnownCell(w[a])' /\ a + CellSize(w[a])' <= pos'
           /\ w[a].kind # "value" => w[a].val <= U16Max
    BY <1>14
  <2> QED BY <1>1, <1>2, <1>6, <1>9, <1>15, <1>16, <2>1, <2>2, Grows DEF Keeps
<1>18. \A s \in 0..(h - 1) : Holds(p + 2 * s, Cell("slot", s, first(s)))'
  <2> SUFFICES ASSUME NEW s \in 0..(h - 1)
               PROVE  Holds(p + 2 * s, Cell("slot", s, first(s)))'
    OBVIOUS
  <2>1. PICK a, v : a = p + 2 * s /\ v = Cell("slot", s, first(s))
    OBVIOUS
  <2>2. Holds(a, v)'
    BY <1>12, <1>17, <2>1
  <2>3. first(s)' = first(s)
    BY <1>4 DEF first
  <2> QED BY <2>1, <2>2, <2>3 DEF Cell
<1>19. InfosThere' /\ NamesThere' /\ NodesThere'
  BY <1>1, <1>7, <1>17, InfosKept, NamesKept, NodesKept
<1>20. LinksThere'
  <2>1. \A j \in 1..NodesWritten : Holds(LinkAt(NodePtr(j)), Cell("nodeLink", 0, 0))
    BY <1>1, <1>2 DEF LinksThere, NodesThere, Holds, IsLink, Linked, AtEnd
  <2>2. \A j : LinkAt(NodePtr(j))' = LinkAt(NodePtr(j))
    BY <1>1, <1>2, SameLayout DEF LinkAt
  <2>3. \A j \in 1..NodesWritten' : Holds(LinkAt(NodePtr(j)), Cell("nodeLink", 0, 0))'
    BY <1>7, <1>17, <2>1, <2>2 DEF Keeps
  <2>4. \A s \in DOMAIN chain' :
          Holds(hashOffset + 2 * s, Cell("slot", s, IF chain[s] = <<>> THEN 0 ELSE chain[s][1]))'
    BY <1>4, <1>9, <1>18 DEF first
  <2> QED BY <1>2, <2>3, <2>4 DEF LinksThere, Linked, AtEnd, Holds
<1>21. Cursor'
  BY <1>2, <1>4, <1>9, <1>13 DEF Cursor
<1>22. TextInv'
  BY <1>1, <1>2, <1>6, <1>17, TextIdle
<1> QED BY <1>5, <1>17, <1>19, <1>20, <1>21, <1>22 DEF ImageInv, ThereInv

(* A node has one place in the slots: the address of its link tells which. *)
LEMMA OneSlot ==
  ASSUME IInv, LayoutInv, SlotInv, pc \in WritePhases,
         NEW s \in DOMAIN chain, NEW i \in 1..Len(chain[s]),
         NEW r \in DOMAIN chain, NEW h \in 1..Len(chain[r]),
         chain[s][i] = chain[r][h]
  PROVE  s = r /\ i = h
<1>1. Threaded = N /\ pc \in Located /\ N \in Nat
  BY Basics DEF Threaded, WritePhases, Located
<1>2. PICK j \in 1..N : chain[s][i] = NodePtr(j) /\ SlotOf(j) = s
  BY <1>1 DEF SlotInv, WritePhases
<1>3. PICK m \in 1..N : chain[r][h] = NodePtr(m) /\ SlotOf(m) = r
  BY <1>1 DEF SlotInv, WritePhases
<1>4. j = m
  <2>1. /\ NodePtr(j) \in Nat /\ NodePtr(m) \in Nat /\ NodePtr(j) = NodePtr(m)
        /\ j < m => NodePtr(j) < NodePtr(m)
        /\ m < j => NodePtr(m) < NodePtr(j)
    BY <1>1, <1>2, <1>3, NodePtrs
  <2>2. j \in Nat /\ m \in Nat
    BY <1>1
  <2> HIDE DEF NodePtr
  <2> QED BY <2>1, <2>2
<1>5. s = r
  BY <1>2, <1>3, <1>4
<1>6. /\ i < h => chain[s][i] < chain[s][h]
      /\ h < i => chain[s][h] < chain[s][i]
  BY <1>5 DEF SlotInv, WritePhases
<1>7. chain[s][i] \in Nat /\ chain[s][h] = chain[s][i] /\ i \in Nat /\ h \in Nat
  BY <1>5, NodesFit
<1> QED BY <1>5, <1>6, <1>7

(* What LinkNodes writes: every node that has a successor in its slot      *)
(* points to it.                                                           *)
LEMMA LinksAre ==
  ASSUME IInv, LayoutInv, SlotInv, pc \in WritePhases
  PROVE  /\ \A a \in DOMAIN Links :
              /\ \E j \in 1..N : a = LinkAt(NodePtr(j))
              /\ Links[a] \in MemCell /\ Links[a].kind = "nodeLink" /\ Links[a].val <= U16Max
         /\ \A s \in DOMAIN chain : \A i \in 1..Len(chain[s]) :
              IF i < Len(chain[s])
              THEN /\ LinkAt(chain[s][i]) \in DOMAIN Links
                   /\ Links[LinkAt(chain[s][i])] = Cell("nodeLink", 0, chain[s][i + 1])
              ELSE LinkAt(chain[s][i]) \notin DOMAIN Links
<1>1. /\ N \in Nat
      /\ \A s \in DOMAIN chain : chain[s] \in Seq(Nat) /\ Len(chain[s]) \in Nat
      /\ \A s \in DOMAIN chain : \A i \in 1..Len(chain[s]) :
           chain[s][i] \in Nat /\ chain[s][i] <= U16Max
  BY Basics, NodesFit
<1>2. \A p \in Windows : /\ p[1] \in DOMAIN chain /\ p[2] \in 1..Len(chain[p[1]])
                         /\ p[2] + 1 \in 1..Len(chain[p[1]])
                         /\ p = <<p[1], p[2]>>
  BY <1>1 DEF Windows
<1>3. \A s \in DOMAIN chain : \A i \in 1..Len(chain[s]) :
        i < Len(chain[s]) => <<s, i>> \in Windows
  <2>1. \A s \in DOMAIN chain : Len(chain[s]) <= N
    BY DEF SlotInv, Threaded, WritePhases
  <2> QED BY <1>1, <2>1 DEF Windows
<1>4. DOMAIN Links = {LinkAt(NodeIn(p)) : p \in Windows}
  BY DEF Links
<1>5. ASSUME NEW p \in Windows, NEW q \in Windows, LinkAt(NodeIn(p)) = LinkAt(NodeIn(q))
      PROVE  p = q
  <2>1. NodeIn(p) \in Nat /\ NodeIn(q) \in Nat
    BY <1>1, <1>2 DEF NodeIn
  <2>2. NodeIn(p) = NodeIn(q)
    BY <1>5, <2>1 DEF LinkAt
  <2>3. p[1] = q[1] /\ p[2] = q[2]
    BY <1>2, <2>2, OneSlot DEF NodeIn
  <2> QED BY <1>2, <2>3
<1>6. ASSUME NEW p \in Windows
      PROVE  /\ LinkAt(NodeIn(p)) \in DOMAIN Links
             /\ Links[LinkAt(NodeIn(p))] = Cell("nodeLink", 0, NextIn(p))
  <2>1. LinkAt(NodeIn(p)) \in DOMAIN Links
    BY <1>4
  <2>2. WindowAt(LinkAt(NodeIn(p))) = p
    BY <1>5 DEF WindowAt
  <2> QED BY <2>1, <2>2 DEF Links
<1>7. ASSUME NEW a \in DOMAIN Links
      PROVE  /\ \E j \in 1..N : a = LinkAt(NodePtr(j))
             /\ Links[a] \in MemCell /\ Links[a].kind = "nodeLink" /\ Links[a].val <= U16Max
  <2>1. PICK p \in Windows : a = LinkAt(NodeIn(p))
    BY <1>4
  <2>2. Links[a] = Cell("nodeLink", 0, NextIn(p)) /\ NextIn(p) \in Nat /\ NextIn(p) <= U16Max
    BY <1>1, <1>2, <1>6, <2>1 DEF NextIn
  <2>3. \E j \in 1..N : NodeIn(p) = NodePtr(j)
    BY <1>2, NodesFit DEF NodeIn
  <2> QED BY <2>1, <2>2, <2>3 DEF Cell, MemCell, CellKind
<1>8. ASSUME NEW s \in DOMAIN chain, NEW i \in 1..Len(chain[s])
      PROVE  IF i < Len(chain[s])
             THEN /\ LinkAt(chain[s][i]) \in DOMAIN Links
                  /\ Links[LinkAt(chain[s][i])] = Cell("nodeLink", 0, chain[s][i + 1])
             ELSE LinkAt(chain[s][i]) \notin DOMAIN Links
  <2>1. CASE i < Len(chain[s])
    <3>1. PICK p : p = <<s, i>>
      OBVIOUS
    <3>2. p \in Windows /\ NodeIn(p) = chain[s][i] /\ NextIn(p) = chain[s][i + 1]
      BY <1>3, <2>1, <3>1 DEF NodeIn, NextIn
    <3> QED BY <1>6, <2>1, <3>2
  <2>2. CASE ~(i < Len(chain[s]))
    <3> SUFFICES ASSUME LinkAt(chain[s][i]) \in DOMAIN Links PROVE FALSE
      BY <2>2
    <3>1. PICK p \in Windows : LinkAt(chain[s][i]) = LinkAt(NodeIn(p))
      BY <1>4
    <3>2. NodeIn(p) = chain[s][i]
      <4>1. NodeIn(p) \in Nat /\ chain[s][i] \in Nat
        BY <1>1, <1>2, <3>1 DEF NodeIn
      <4> QED BY <3>1, <4>1 DEF LinkAt
    <3>3. p[1] = s /\ p[2] = i
      BY <1>2, <3>2, OneSlot DEF NodeIn
    <3> QED BY <1>1, <1>2, <2>2, <3>3
  <2> QED BY <2>1, <2>2
<1> QED BY <1>7, <1>8

LEMMA ImageLink ==
  ASSUME AllInv, IInv', LinkNodes
  PROVE  ImageInv'
<1>1. /\ IInv /\ SpaceInv /\ LayoutInv /\ SlotInv
      /\ FrontInv /\ FitInv /\ TextInv /\ Cursor
      /\ InfosThere /\ NamesThere /\ NodesThere /\ LinksThere
  BY DEF AllInv, SpaceInv, ImageInv, ThereInv
<1>2. /\ UNCHANGED Layout /\ UNCHANGED <<input, pos, hashOffset, strLen, strOff, strList>>
      /\ pc = "link" /\ pc \in WritePhases /\ pc' = "rows"
      /\ buf' = StoreAll(buf, Links) /\ rowOffset' = pos /\ strBase' = pos + TotalRowSize
  BY DEF LinkNodes, Layout, WritePhases, Goto
<1>3. PICK w : w = Links
  OBVIOUS
<1>4. /\ N \in Nat /\ pos \in Nat /\ opt' = opt /\ N' = N /\ nameBase' = nameBase
      /\ tab' = tab /\ rowLen' = rowLen
      /\ nameBase <= pos /\ nameBase <= hashOffset /\ hashOffset <= pos /\ chain' = chain
  BY <1>1, <1>2, <1>3, Basics, SameLayout DEF IInv, TypeOK, ImageOK, Cursor, WritePhases
<1>5. HeaderInv'
  BY HeaderIdle DEF WriteStep
<1>6. /\ InfosWritten = N /\ NamesWritten = N /\ NodesWritten = N
      /\ InfosWritten' = N /\ NamesWritten' = N /\ NodesWritten' = N
  BY <1>2, <1>4 DEF InfosWritten, NamesWritten, NodesWritten, WritePhases
<1>7. ASSUME NEW a \in DOMAIN w
      PROVE  /\ a \in DOMAIN buf /\ buf[a] = Cell("nodeLink", 0, 0)
             /\ w[a] \in MemCell /\ w[a].kind = "nodeLink" /\ w[a].val <= U16Max
  <2>1. PICK j \in 1..N : a = LinkAt(NodePtr(j))
    BY <1>1, <1>2, <1>3, LinksAre
  <2>2. a \in DOMAIN buf /\ buf[a] = Cell("nodeLink", 0, 0)
    BY <1>1, <1>2, <1>6, <2>1 DEF NodesThere, LinksThere, IsLink, Linked, AtEnd
  <2> QED BY <1>1, <1>2, <1>3, <2>2, LinksAre
<1>8. /\ DOMAIN buf' = DOMAIN buf
      /\ \A a \in DOMAIN buf : buf'[a] = IF a \in DOMAIN w THEN w[a] ELSE buf[a]
  BY <1>2, <1>3, <1>7 DEF StoreAll
<1>9. ASSUME NEW a \in DOMAIN buf
      PROVE  /\ a \in Nat /\ buf'[a].kind = buf[a].kind
             /\ KnownCell(buf[a])' /\ CellSize(buf[a])' = CellSize(buf[a])
             /\ a + CellSize(buf[a])' <= pos
             /\ buf'[a].kind # "value" => buf'[a].val <= U16Max
             /\ buf'[a].kind # "string"
  <2>1. PICK c : c = buf[a]
    OBVIOUS
  <2>2. a \in Nat /\ c \in MemCell /\ KnownCell(c) /\ a + CellSize(c) <= pos
    BY <1>1, <2>1, InBuf
  <2>3. KnownCell(c)' /\ CellSize(c)' = CellSize(c)
    BY <1>1, <1>2, <2>2, SizeSame DEF TextPhases, AtEnd
  <2>4. CASE a \in DOMAIN w
    <3>1. PICK v : v = w[a]
      OBVIOUS
    <3>2. v = buf'[a] /\ v.kind = "nodeLink" /\ c.kind = "nodeLink" /\ v.val <= U16Max
      BY <1>7, <1>8, <2>1, <2>4, <3>1 DEF Cell
    <3>3. CellSize(v)' = 2 /\ CellSize(c) = 2 /\ KnownCell(v)'
      BY <3>2 DEF CellSize, KnownCell
    <3> QED BY <2>1, <2>2, <2>4, <3>2, <3>3
  <2>5. CASE a \notin DOMAIN w
    <3>1. buf'[a] = c
      BY <1>8, <2>1, <2>5
    <3>2. c.kind # "string"
      BY <1>2, <2>2 DEF KnownCell, AtEnd
    <3>3. c.kind # "value" => c.val <= U16Max
      BY <1>1, <2>1 DEF FitInv
    <3> QED BY <2>1, <2>2, <2>3, <3>1, <3>2, <3>3
  <2> QED BY <2>4, <2>5
<1>10. FrontInv' /\ FitInv'
  <2>1. BeforeCursor'
    BY <1>2, <1>8, <1>9 DEF BeforeCursor
  <2>2. ItemsDisjoint'
    BY <1>1, <1>8, <1>9 DEF FrontInv, ItemsDisjoint
  <2>3. FitInv'
    BY <1>8, <1>9 DEF FitInv
  <2> QED BY <2>1, <2>2, <2>3 DEF FrontInv
<1>11. \A a, c : Holds(a, c) /\ c.kind # "nodeLink" => Holds(a, c)'
  BY <1>7, <1>8 DEF Holds, Cell
<1>12. \A a : IsLink(a) => IsLink(a)'
  BY <1>7, <1>8 DEF IsLink
<1>13. InfosThere'
  BY <1>1, <1>2, <1>6, <1>11, SameLayout, CellFields DEF InfosThere
<1>14. NamesThere'
  BY <1>1, <1>2, <1>6, <1>11, SameLayout, CellFields DEF NamesThere
<1>15. NodesThere'
  BY <1>1, <1>2, <1>4, <1>6, <1>11, <1>12, SameLayout, CellFields DEF NodesThere, LinkAt
<1>16. LinksThere'
  <2>1. ASSUME NEW s \in DOMAIN chain, NEW i \in 1..Len(chain[s])
        PROVE  Holds(LinkAt(chain[s][i]), Cell("nodeLink", 0, NextOf(s, i)))'
    <3>1. PICK a, v : a = LinkAt(chain[s][i]) /\ v = Cell("nodeLink", 0, NextOf(s, i))
      OBVIOUS
    <3>2. a = LinkAt(chain[s][i])' /\ v = Cell("nodeLink", 0, NextOf(s, i))'
      BY <1>1, <1>2, <3>1, SameLayout DEF LinkAt, Cell
    <3>3. PICK j \in 1..N : chain[s][i] = NodePtr(j)
      BY <1>1, <1>2, NodesFit
    <3>4. a \in DOMAIN buf /\ buf[a] = Cell("nodeLink", 0, 0)
      BY <1>1, <1>2, <1>6, <3>1, <3>3 DEF NodesThere, LinksThere, IsLink, Linked, AtEnd
    <3>5. buf'[a] = v
      <4>1. CASE i < Len(chain[s])
        BY <1>1, <1>2, <1>3, <1>8, <3>1, <3>4, <4>1, LinksAre DEF NextOf
      <4>2. CASE ~(i < Len(chain[s]))
        BY <1>1, <1>2, <1>3, <1>8, <3>1, <3>4, <4>2, LinksAre DEF NextOf
      <4> QED BY <4>1, <4>2
    <3> QED BY <1>8, <3>2, <3>4, <3>5 DEF Holds
  <2>2. \A s \in DOMAIN chain :
          Holds(hashOffset + 2 * s, Cell("slot", s, IF chain[s] = <<>> THEN 0 ELSE chain[s][1]))'
    BY <1>1, <1>2, <1>4, <1>11, CellFields DEF LinksThere
  <2> QED BY <1>2, <1>4, <2>1, <2>2 DEF LinksThere, Linked, AtEnd
<1>17. Cursor'
  BY <1>2, <1>4 DEF Cursor
<1>18. TextInv'
  <2>1. \A i : StrEnd(i)' = StrEnd(i)
    BY <1>2 DEF StrEnd
  <2>2. StringsWritten' = 0
    BY <1>2 DEF StringsWritten, AtEnd
  <2>3. \A a \in DOMAIN buf' : buf'[a].kind # "string"
    BY <1>8, <1>9
  <2>4. strBase' = rowOffset' + TotalRowSize'
    BY <1>2, <1>4 DEF TotalRowSize
  <2>5. rowOffset' <= pos' /\ nameBase' <= hashOffset' /\ hashOffset' <= rowOffset'
    BY <1>2, <1>4
  <2>6. /\ \A i \in 1..Len(strList') :
             strList'[i] \in DOMAIN strOff' /\ strOff'[strList'[i]] = StrEnd(i - 1)'
        /\ \A i, j \in 1..Len(strList') : strList'[i] = strList'[j] => i = j
        /\ \A t \in DOMAIN strOff' : \E i \in 1..Len(strList') : strList'[i] = t
        /\ strLen' = StrEnd(Len(strList))'
    BY <1>1, <1>2, <2>1 DEF TextInv
  <2>7. \A i \in 1..StringsWritten' : FALSE
    BY <2>2
  <2> QED BY <1>2, <2>3, <2>4, <2>5, <2>6, <2>7 DEF TextInv, AtEnd
<1> QED BY <1>5, <1>10, <1>13, <1>14, <1>15, <1>16, <1>17, <1>18 DEF ImageInv, ThereInv

(* The rest of the call is behind the nodes: the layout is not touched     *)
(* again, and everything written so far stays.                             *)
Late == {"rows", "panicRows"} \cup AtEnd

LEMMA LateKept ==
  ASSUME IInv, ThereInv, Keeps, hashOffset' = hashOffset, pc \in Late, pc' \in Late \cup {"error"}
  PROVE  ThereInv'
<1>1. /\ N' = N /\ opt' = opt
      /\ pc \in WritePhases /\ pc \in Linked
      /\ pc' \in Linked \cup {"error"} /\ (pc' = "error" \/ pc' \in WritePhases) /\ "error" \notin Linked \cup WritePhases
  BY SameLayout DEF Keeps, Late, Linked, AtEnd, WritePhases
<1>2. /\ InfosWritten = N /\ NamesWritten = N /\ NodesWritten = IF opt.wii THEN (IF N >= 0 THEN N ELSE 0) ELSE N
  BY <1>1 DEF InfosWritten, NamesWritten, NodesWritten, Linked, AtEnd, WritePhases
<1>3. CASE pc' # "error"
  <2>1. InfosWritten' = N /\ NamesWritten' = N /\ NodesWritten' = NodesWritten
    BY <1>1, <1>2, <1>3 DEF InfosWritten, NamesWritten, NodesWritten, Linked, AtEnd, WritePhases
  <2> QED BY <1>1, <1>2, <2>1, InfosKept, NamesKept, NodesKept, LinksKept DEF ThereInv
<1>4. CASE pc' = "error"
  <2>1. InfosWritten' = 0 /\ NamesWritten' = -1 /\ NodesWritten' = 0
    BY <1>4 DEF InfosWritten, NamesWritten, NodesWritten, WritePhases
  <2> QED BY <1>1, <1>4, <2>1, InfosKept, NamesKept, NodesKept, LinksKept DEF ThereInv
<1> QED BY <1>3, <1>4

(* A row value: where its text is, or will be.                             *)
LEMMA ImageValue ==
  ASSUME AllInv, IInv', WriteValue
  PROVE  ImageInv'
<1>1. IInv /\ FrontInv /\ FitInv /\ TextInv /\ Cursor /\ ThereInv
  BY DEF AllInv, SpaceInv, ImageInv
<1>2. /\ UNCHANGED Layout /\ UNCHANGED <<input, hashOffset, rowOffset, strBase, pc>>
      /\ pc = "rows" /\ pc' = "rows"
  BY DEF WriteValue, Layout, marks
<1>3. PICK p, cell : p = pos /\ cell = tab.rows[row][col]
  OBVIOUS
<1> DEFINE new == IsNew(cell.text)
           ptr == IF cell.text = NoText THEN cell.num
                  ELSE IF new THEN strBase + strLen ELSE strBase + strOff[cell.text]
<1>4. PICK v : v = Cell("value", cell.width, ptr)
  OBVIOUS
<1>5. /\ buf' = Store(buf, p, v) /\ pos' = pos + cell.width
      /\ strOff' = IF new THEN Extend(strOff, cell.text, strLen) ELSE strOff
      /\ strList' = IF new THEN Append(strList, cell.text) ELSE strList
      /\ strLen' = IF new THEN strLen + NameSize(cell.text) ELSE strLen
      /\ row \in 1..Len(tab.rows) /\ col \in 1..Len(tab.rows[row])
  <2>1. row \in 1..Len(tab.rows) /\ col \in 1..Len(tab.rows[row])
    <3>1. tab.rows \in Seq(Seq(CellValue)) /\ row \in Nat \ {0} /\ col \in Nat \ {0}
      BY <1>1, WriterAssumption DEF IInv, TypeOK, CallOK, ControlOK, Table
    <3>2. row <= Len(tab.rows) /\ col <= Len(tab.rows[row])
      BY DEF WriteValue
    <3> QED BY <3>1, <3>2
  <2> QED BY <1>3, <1>4, <2>1 DEF WriteValue
<1>6. cell \in CellValue
  <2>1. tab.rows \in Seq(Seq(CellValue))
    BY <1>1, WriterAssumption DEF IInv, TypeOK, CallOK, Table
  <2> QED BY <1>3, <1>5, <2>1
<1>7. /\ cell.width \in {1, 2, 4} /\ cell.num \in Nat /\ cell.text \in Text \cup {NoText}
      /\ strBase \in Nat /\ strLen \in Nat /\ NatFun(strOff) /\ strList \in Seq(Text)
      /\ pos \in Nat /\ pos' \in Nat /\ N' = N /\ opt' = opt /\ tab' = tab /\ nameBase' = nameBase /\ rowLen' = rowLen
  BY <1>1, <1>2, <1>6, SameLayout DEF CellValue, IInv, TypeOK, StringsOK, ImageOK
<1>8. ptr \in Nat
  <2>1. CASE cell.text = NoText
    BY <1>7, <2>1
  <2>2. CASE cell.text # NoText /\ new
    BY <1>7, <2>2
  <2>3. CASE cell.text # NoText /\ ~new
    <3>1. strOff[cell.text] \in Nat
      BY <1>7, <2>3 DEF IsNew, NatFun
    <3> QED BY <1>7, <2>3, <3>1
  <2> QED BY <2>1, <2>2, <2>3
<1> HIDE DEF ptr
<1>9. v \in MemCell /\ v.kind = "value" /\ v.item = cell.width
  <2>1. cell.width \in Nat
    BY <1>7
  <2> QED BY <1>4, <1>8, <2>1 DEF Cell, MemCell, CellKind
<1>10. KnownCell(v)' /\ CellSize(v)' = cell.width
  BY <1>7, <1>9 DEF KnownCell, CellSize
<1>11. CellSize(v)' \in Nat /\ p + CellSize(v)' <= pos' /\ pos <= pos'
  <2> HIDE DEF new
  <2>1. p = pos /\ pos' = pos + cell.width
    BY <1>3, <1>5
  <2>2. cell.width \in Nat /\ pos \in Nat
    BY <1>7
  <2> QED BY <1>10, <2>1, <2>2
<1>12. FrontInv' /\ FitInv' /\ Keeps /\ DOMAIN buf' = DOMAIN buf \cup {p}
  BY <1>1, <1>2, <1>3, <1>5, <1>9, <1>10, <1>11, WritesOne DEF TextPhases, AtEnd
<1>13. ThereInv'
  BY <1>1, <1>2, <1>12, LateKept DEF Late
<1>14. HeaderInv'
  BY HeaderIdle DEF WriteStep
<1>15. Cursor'
  BY <1>1, <1>2, <1>7, <1>11, SameLayout DEF Cursor, WritePhases, IInv, TypeOK, NamesOK
<1>16. /\ \A i \in 1..Len(strList) : strList[i] \in DOMAIN strOff /\ strOff[strList[i]] = StrEnd(i - 1)
       /\ \A i, j \in 1..Len(strList) : strList[i] = strList[j] => i = j
       /\ \A t \in DOMAIN strOff : \E i \in 1..Len(strList) : strList[i] = t
       /\ strLen = StrEnd(Len(strList))
  BY <1>1 DEF TextInv
<1>17. /\ \A i \in 1..Len(strList') : strList'[i] \in DOMAIN strOff' /\ strOff'[strList'[i]] = StrEnd(i - 1)'
       /\ \A i, j \in 1..Len(strList') : strList'[i] = strList'[j] => i = j
       /\ \A t \in DOMAIN strOff' : \E i \in 1..Len(strList') : strList'[i] = t
       /\ strLen' = StrEnd(Len(strList))'
  <2>1. CASE ~new
    <3>1. \A i : StrEnd(i)' = StrEnd(i)
      BY <1>5, <2>1 DEF StrEnd
    <3> QED BY <1>5, <1>16, <2>1, <3>1
  <2>2. CASE new
    <3>1. PICK t, n : t = cell.text /\ n = Len(strList)
      OBVIOUS
    <3>2. t \in Text /\ t \notin DOMAIN strOff /\ n \in Nat /\ NameSize(t) \in Nat
      BY <1>7, <2>2, <3>1, NameSizes DEF IsNew
    <3>3. /\ Len(strList') = n + 1 /\ strList'[n + 1] = t
          /\ \A i \in 1..n : strList'[i] = strList[i]
      BY <1>5, <1>7, <2>2, <3>1, <3>2
    <3>4. /\ DOMAIN strOff' = DOMAIN strOff \cup {t} /\ strOff'[t] = strLen
          /\ \A x \in DOMAIN strOff : strOff'[x] = strOff[x]
      BY <1>5, <2>2, <3>1, <3>2 DEF Extend
    <3>5. \A i \in 0..n : StrEnd(i)' = StrEnd(i)
      BY <1>16, <3>1, <3>2, <3>3, <3>4 DEF StrEnd
    <3>6. StrEnd(n + 1)' = strLen'
      BY <1>5, <2>2, <3>1, <3>2, <3>3, <3>4 DEF StrEnd
    <3>7. ASSUME NEW i \in 1..(n + 1)
          PROVE  strList'[i] \in DOMAIN strOff' /\ strOff'[strList'[i]] = StrEnd(i - 1)'
      <4>1. CASE i = n + 1
        <5>1. i - 1 = n /\ n \in 0..n
          BY <3>2, <4>1
        <5>2. StrEnd(n)' = strLen
          BY <1>16, <3>1, <3>5, <5>1
        <5> QED BY <3>3, <3>4, <4>1, <5>1, <5>2
      <4>2. CASE i # n + 1
        <5>1. i \in 1..n /\ i - 1 \in 0..n
          BY <3>2, <4>2
        <5> QED BY <1>16, <3>1, <3>3, <3>4, <3>5, <5>1
      <4> QED BY <4>1, <4>2
    <3>8. ASSUME NEW i \in 1..(n + 1), NEW j \in 1..(n + 1), strList'[i] = strList'[j]
          PROVE  i = j
      <4>1. \A h \in 1..(n + 1) : h = n + 1 \/ (h \in 1..n /\ strList'[h] = strList[h] /\ strList[h] # t)
        BY <1>16, <3>1, <3>2, <3>3
      <4> QED BY <1>16, <3>1, <3>3, <3>8, <4>1
    <3>9. \A x \in DOMAIN strOff' : \E i \in 1..(n + 1) : strList'[i] = x
      <4>1. \A x \in DOMAIN strOff : \E i \in 1..(n + 1) : strList'[i] = x
        BY <1>16, <3>1, <3>2, <3>3
      <4>2. n + 1 \in 1..(n + 1)
        BY <3>2
      <4> QED BY <3>3, <3>4, <4>1, <4>2
    <3> QED BY <3>3, <3>6, <3>7, <3>8, <3>9
  <2> QED BY <2>1, <2>2
<1>18. TextInv'
  <2>1. StringsWritten' = 0
    BY <1>2 DEF StringsWritten, AtEnd
  <2>2. \A a \in DOMAIN buf' : buf'[a].kind # "string"
    BY <1>2, <1>12 DEF FrontInv, BeforeCursor, KnownCell, AtEnd
  <2>3. strBase' = rowOffset' + TotalRowSize'
    BY <1>1, <1>2, <1>7 DEF TextInv, TotalRowSize
  <2>4. rowOffset' <= pos' /\ nameBase' <= hashOffset' /\ hashOffset' <= rowOffset'
    <3>1. rowOffset <= pos /\ nameBase <= hashOffset /\ hashOffset <= rowOffset
      BY <1>1, <1>2 DEF TextInv
    <3>2. rowOffset \in Nat
      BY <1>1 DEF IInv, TypeOK, MarksOK
    <3> QED BY <1>2, <1>7, <1>11, <3>1, <3>2
  <2>5. \A i \in 1..StringsWritten' : FALSE
    BY <2>1
  <2> QED BY <1>2, <1>17, <2>2, <2>3, <2>4, <2>5 DEF TextInv, AtEnd
<1> QED BY <1>12, <1>13, <1>14, <1>15, <1>18 DEF ImageInv

(* What the steps that insert no string leave of TextInv.                  *)
LEMMA TextSame ==
  ASSUME TextInv, UNCHANGED <<input, rowLen, strBase, strLen, strOff, strList>>
  PROVE  /\ \A i : StrEnd(i)' = StrEnd(i)
         /\ TotalRowSize' = TotalRowSize
         /\ \A i \in 1..Len(strList') : strList'[i] \in DOMAIN strOff' /\ strOff'[strList'[i]] = StrEnd(i - 1)'
         /\ \A i, j \in 1..Len(strList') : strList'[i] = strList'[j] => i = j
         /\ \A t \in DOMAIN strOff' : \E i \in 1..Len(strList') : strList'[i] = t
         /\ strLen' = StrEnd(Len(strList))'
<1>1. \A i : StrEnd(i)' = StrEnd(i)
  BY DEF StrEnd
<1>2. TotalRowSize' = TotalRowSize
  BY DEF TotalRowSize, input
<1> QED BY <1>1, <1>2 DEF TextInv

LEMMA ImageRows ==
  ASSUME AllInv, IInv', RowDone \/ RowsDone
  PROVE  ImageInv'
<1>1. IInv /\ FrontInv /\ FitInv /\ TextInv /\ Cursor /\ ThereInv
  BY DEF AllInv, SpaceInv, ImageInv
<1>2. /\ UNCHANGED Layout /\ UNCHANGED <<input, rowLen, hashOffset, rowOffset, strings, buf>>
      /\ pc = "rows" /\ pc' \in {"rows", "strings", "panicRows"}
  BY DEF RowDone, RowsDone, Layout, marks, Goto, infos
<1>3. /\ rowOffset <= pos /\ nameBase <= hashOffset /\ hashOffset <= rowOffset
      /\ strBase = rowOffset + TotalRowSize
      /\ nameBase \in Nat /\ rowOffset \in Nat /\ hashOffset \in Nat /\ pos \in Nat /\ pos' \in Nat
      /\ nameBase' = nameBase /\ opt' = opt /\ N' = N /\ strList \in Seq(Text)
  BY <1>1, <1>2, SameLayout DEF TextInv, IInv, TypeOK, NamesOK, MarksOK, ImageOK, StringsOK
<1>4. /\ pos <= pos'
      /\ pc' = "strings" => pos' = strBase /\ k' = 1
  <2>1. CASE RowDone
    BY <1>2, <1>3, <2>1 DEF RowDone
  <2>2. CASE RowsDone
    <3>1. PICK size : size = pos - rowOffset
      OBVIOUS
    <3>2. size \in Nat
      BY <1>3, <3>1
    <3>3. PadTo(32, size) \in Nat /\ PadTo(32, size) >= size
      BY <3>2, Padding
    <3>4. \/ pos' = rowOffset + PadTo(32, size) /\ TotalRowSize = PadTo(32, size) /\ k' = 1
          \/ pos' = pos /\ pc' = "panicRows"
      BY <2>2, <3>1 DEF RowsDone, Goto
    <3> QED BY <1>3, <3>1, <3>3, <3>4
  <2> QED BY <2>1, <2>2
<1>5. FrontInv' /\ FitInv' /\ Keeps
  BY <1>1, <1>2, <1>4, Idle DEF TextPhases, AtEnd, Keeps
<1>6. ThereInv'
  BY <1>1, <1>2, <1>5, LateKept DEF Late, AtEnd
<1>7. HeaderInv'
  BY HeaderIdle DEF WriteStep
<1>8. Cursor'
  <2>1. nameBase' <= pos'
    BY <1>3, <1>4
  <2> QED BY <1>2, <2>1 DEF Cursor
<1>9. TextInv'
  <2>1. /\ \A i : StrEnd(i)' = StrEnd(i)
        /\ TotalRowSize' = TotalRowSize
        /\ \A i \in 1..Len(strList') : strList'[i] \in DOMAIN strOff' /\ strOff'[strList'[i]] = StrEnd(i - 1)'
        /\ \A i, j \in 1..Len(strList') : strList'[i] = strList'[j] => i = j
        /\ \A t \in DOMAIN strOff' : \E i \in 1..Len(strList') : strList'[i] = t
        /\ strLen' = StrEnd(Len(strList))'
    BY <1>1, <1>2, TextSame DEF strings
  <2>2. StringsWritten' = 0
    BY <1>2, <1>4 DEF StringsWritten, AtEnd
  <2>3. \A a \in DOMAIN buf' : buf'[a].kind # "string"
    BY <1>1, <1>2 DEF FrontInv, BeforeCursor, KnownCell, AtEnd
  <2>4. strBase' = rowOffset' + TotalRowSize'
    BY <1>2, <1>3, <2>1 DEF strings
  <2>5. rowOffset' <= pos' /\ nameBase' <= hashOffset' /\ hashOffset' <= rowOffset'
    BY <1>2, <1>3, <1>4
  <2>6. \A i \in 1..StringsWritten' : FALSE
    BY <2>2
  <2>7. pc' = "strings" => pos' = strBase' + StrEnd(k - 1)' /\ k' <= Len(strList') + 1
    <3> SUFFICES ASSUME pc' = "strings" PROVE pos' = strBase' + StrEnd(k - 1)' /\ k' <= Len(strList') + 1
      OBVIOUS
    <3>1. StrEnd(k - 1)' = 0
      BY <1>4 DEF StrEnd
    <3>2. strBase' = strBase /\ strList' = strList /\ strBase \in Nat
      BY <1>1, <1>2 DEF strings, IInv, TypeOK, StringsOK
    <3> QED BY <1>3, <1>4, <3>1, <3>2
  <2>8. pc' \notin AtEnd \ {"strings"}
    BY <1>2 DEF AtEnd
  <2> QED BY <1>2, <2>1, <2>2, <2>3, <2>4, <2>5, <2>6, <2>7, <2>8 DEF TextInv
<1> QED BY <1>5, <1>6, <1>7, <1>8, <1>9 DEF ImageInv

LEMMA ImageStrings ==
  ASSUME AllInv, IInv', WriteString \/ StringsDone
  PROVE  ImageInv'
<1>1. IInv /\ FrontInv /\ FitInv /\ TextInv /\ Cursor /\ ThereInv
  BY DEF AllInv, SpaceInv, ImageInv
<1>2. /\ UNCHANGED Layout /\ UNCHANGED <<input, rowLen, hashOffset, rowOffset, strings>>
      /\ pc = "strings" /\ pc' \in {"strings", "header"} /\ strList' = strList
  BY DEF WriteString, StringsDone, Layout, marks, Goto, Stay, infos, strings
<1>3. PICK c, p : c = k /\ p = pos
  OBVIOUS
<1>4. /\ rowOffset <= pos /\ nameBase <= hashOffset /\ hashOffset <= rowOffset
      /\ strBase = rowOffset + TotalRowSize /\ pos = strBase + StrEnd(c - 1)
      /\ nameBase \in Nat /\ rowOffset \in Nat /\ hashOffset \in Nat /\ pos \in Nat /\ pos' \in Nat
      /\ nameBase' = nameBase /\ opt' = opt /\ N' = N /\ strList \in Seq(Text)
      /\ strBase \in Nat /\ strLen \in Nat /\ c \in 1..(Len(strList) + 1) /\ NatFun(strOff)
      /\ strBase' = strBase /\ strLen' = strLen /\ strOff' = strOff
  <2>1. /\ rowOffset <= pos /\ nameBase <= hashOffset /\ hashOffset <= rowOffset
        /\ strBase = rowOffset + TotalRowSize /\ pos = strBase + StrEnd(c - 1) /\ c <= Len(strList) + 1
    BY <1>1, <1>2, <1>3 DEF TextInv, AtEnd
  <2>2. /\ nameBase \in Nat /\ rowOffset \in Nat /\ hashOffset \in Nat /\ pos \in Nat /\ pos' \in Nat
        /\ strList \in Seq(Text) /\ strBase \in Nat /\ strLen \in Nat /\ NatFun(strOff)
    BY <1>1 DEF IInv, TypeOK, NamesOK, MarksOK, ImageOK, StringsOK
  <2>3. c \in Nat /\ c >= 1
    BY <1>1, <1>2, <1>3 DEF IInv, TypeOK, ControlOK, Progress
  <2>4. c \in 1..(Len(strList) + 1)
    BY <2>1, <2>2, <2>3
  <2>5. /\ nameBase' = nameBase /\ opt' = opt /\ N' = N
        /\ strBase' = strBase /\ strLen' = strLen /\ strOff' = strOff
    BY <1>1, <1>2, SameLayout DEF strings
  <2> QED BY <2>1, <2>2, <2>4, <2>5
<1>5. /\ \A i : StrEnd(i)' = StrEnd(i)
      /\ TotalRowSize' = TotalRowSize
      /\ \A i \in 1..Len(strList') : strList'[i] \in DOMAIN strOff' /\ strOff'[strList'[i]] = StrEnd(i - 1)'
      /\ \A i, j \in 1..Len(strList') : strList'[i] = strList'[j] => i = j
      /\ \A t \in DOMAIN strOff' : \E i \in 1..Len(strList') : strList'[i] = t
      /\ strLen' = StrEnd(Len(strList))'
  BY <1>1, <1>2, TextSame DEF strings
<1>6. HeaderInv'
  BY HeaderIdle DEF WriteStep
<1>7. /\ \A i \in 1..Len(strList) : strList[i] \in DOMAIN strOff /\ strOff[strList[i]] = StrEnd(i - 1)
      /\ \A i \in 1..(c - 1) : Holds(strBase + strOff[strList[i]], Cell("string", i, 0))
      /\ \A a \in DOMAIN buf : buf[a].kind = "string" => a + CellSize(buf[a]) <= strBase + StrEnd(buf[a].item)
      /\ strLen = StrEnd(Len(strList))
  BY <1>1, <1>2, <1>3 DEF TextInv, StringsWritten
<1>8. \A a \in DOMAIN buf : buf[a] \in MemCell /\ KnownCell(buf[a])
  BY <1>1, InBuf
<1>10. CASE WriteString
  <2>1. PICK v : v = Cell("string", c, 0)
    OBVIOUS
  <2>2. /\ c \in 1..Len(strList) /\ buf' = Store(buf, p, v) /\ pos' = p + NameSize(strList[c])
        /\ pc' = pc /\ k' = c + 1 /\ UNCHANGED finalPadding
    BY <1>3, <1>4, <1>10, <2>1 DEF WriteString, Stay, marks
  <2>3. /\ strList[c] \in Text /\ NameSize(strList[c]) \in Nat
        /\ TextLen[strList[c]] + 1 \in Nat /\ TextLen[strList[c]] + 1 <= NameSize(strList[c])
    <3>1. strList[c] \in Text
      BY <1>4, <2>2
    <3>2. TextLen[strList[c]] + 1 \in Nat
      BY <3>1, FormatAssumption
    <3> QED BY <3>1, <3>2, Padding, NameSizes DEF NameSize
  <2>4. v \in MemCell /\ v.kind = "string" /\ v.item = c /\ v.val = 0
    BY <1>4, <2>1 DEF Cell, MemCell, CellKind
  <2>5. KnownCell(v)' /\ CellSize(v)' = TextLen[strList[c]] + 1
    BY <1>2, <2>2, <2>4 DEF KnownCell, CellSize, AtEnd
  <2>6. CellSize(v)' \in Nat /\ p + CellSize(v)' <= pos' /\ v.val <= U16Max
    <3>1. p \in Nat /\ pos' = p + NameSize(strList[c])
      BY <1>3, <1>4, <2>2
    <3>2. v.val <= U16Max
      BY <2>4, FormatAssumption
    <3> QED BY <2>3, <2>5, <3>1, <3>2
  <2>7. FrontInv' /\ FitInv' /\ Keeps /\ Holds(p, v)' /\ pos <= pos' /\ DOMAIN buf' = DOMAIN buf \cup {p}
    BY <1>1, <1>2, <1>3, <2>2, <2>4, <2>5, <2>6, WritesOne DEF TextPhases, AtEnd
  <2>8. ThereInv'
    BY <1>1, <1>2, <2>2, <2>7, LateKept DEF Late, AtEnd
  <2>9. Cursor'
    BY <1>2, <1>4, <2>2, <2>7 DEF Cursor
  <2>10. StrEnd(c) = StrEnd(c - 1) + NameSize(strList[c]) /\ p = strBase + strOff[strList[c]]
    BY <1>3, <1>4, <1>7, <2>2 DEF StrEnd
  <2>11. StrEnd(c - 1) \in Nat
    <3>1. strOff[strList[c]] \in Nat /\ strOff[strList[c]] = StrEnd(c - 1)
      BY <1>4, <1>7, <2>2 DEF NatFun
    <3> QED BY <3>1
  <2>12. pos' = strBase + StrEnd(c) /\ k' - 1 = c
    <3>1. p = strBase + StrEnd(c - 1) /\ strBase \in Nat /\ pos' = p + NameSize(strList[c])
      BY <1>3, <1>4, <2>2
    <3>2. k' - 1 = c
      BY <1>4, <2>2
    <3> QED BY <2>3, <2>10, <2>11, <3>1, <3>2
  <2>13. \A i \in 1..StringsWritten' : Holds(strBase + strOff[strList[i]], Cell("string", i, 0))'
    <3>1. StringsWritten' = c
      BY <1>2, <2>2, <2>12 DEF StringsWritten
    <3>2. ASSUME NEW i \in 1..c PROVE Holds(strBase + strOff[strList[i]], Cell("string", i, 0))'
      <4>1. PICK a, x : a = strBase + strOff[strList[i]] /\ x = Cell("string", i, 0)
        OBVIOUS
      <4>2. a = (strBase + strOff[strList[i]])' /\ x = Cell("string", i, 0)'
        BY <1>2, <1>4, <4>1 DEF Cell
      <4>3. CASE i = c
        BY <2>1, <2>7, <2>10, <4>1, <4>2, <4>3
      <4>4. CASE i # c
        <5>1. i \in 1..(c - 1)
          BY <1>4, <4>4
        <5> QED BY <1>7, <2>7, <4>1, <4>2, <5>1 DEF Keeps
      <4> QED BY <4>3, <4>4
    <3> QED BY <3>1, <3>2
  <2>14. ASSUME NEW a \in DOMAIN buf', buf'[a].kind = "string"
         PROVE  a + CellSize(buf[a])' <= strBase' + StrEnd(buf[a].item)'
    <3>1. PICK x : x = buf'[a]
      OBVIOUS
    <3>2. CASE a = p
      <4>1. x = v
        BY <2>7, <3>1, <3>2 DEF Holds
      <4>2. a + CellSize(x)' <= strBase' + StrEnd(x.item)'
        BY <1>3, <1>4, <1>5, <2>2, <2>4, <2>6, <2>12, <3>2, <4>1
      <4> QED BY <3>1, <4>2
    <3>3. CASE a # p
      <4>1. a \in DOMAIN buf /\ x = buf[a]
        BY <2>7, <3>1, <3>3 DEF Keeps, Holds
      <4>2. x \in MemCell /\ KnownCell(x) /\ a + CellSize(x) <= strBase + StrEnd(x.item)
        BY <1>7, <1>8, <2>14, <3>1, <4>1
      <4>3. CellSize(x)' = CellSize(x)
        BY <1>1, <1>2, <4>2, SizeSame DEF TextPhases, AtEnd
      <4>4. a + CellSize(x)' <= strBase' + StrEnd(x.item)'
        BY <1>4, <1>5, <4>2, <4>3
      <4> QED BY <3>1, <4>4
    <3> QED BY <3>2, <3>3
  <2>15. TextInv'
    <3>1. strBase' = rowOffset' + TotalRowSize'
      BY <1>2, <1>4, <1>5
    <3>2. rowOffset' <= pos' /\ nameBase' <= hashOffset' /\ hashOffset' <= rowOffset'
      BY <1>2, <1>4, <2>7
    <3>3. pos' = strBase' + StrEnd(k - 1)' /\ k' <= Len(strList') + 1
      BY <1>2, <1>4, <1>5, <2>2, <2>12
    <3> QED BY <1>2, <1>5, <2>2, <2>13, <2>14, <3>1, <3>2, <3>3 DEF TextInv
  <2> QED BY <1>6, <2>7, <2>8, <2>9, <2>15 DEF ImageInv
<1>11. CASE StringsDone
  <2>1. /\ c = Len(strList) + 1 /\ buf' = buf /\ pos' = PadTo(64, pos)
        /\ pc' = "header" /\ finalPadding' = PadTo(64, pos) - pos
    BY <1>3, <1>4, <1>11, SMTT(30) DEF StringsDone, Goto, FinalPadding
  <2>2. PadTo(64, pos) \in Nat /\ pos <= PadTo(64, pos)
    BY <1>4, Padding
  <2>3. pos = strBase + strLen /\ pos' = strBase + strLen + finalPadding' /\ pos <= pos'
    <3>1. c - 1 = Len(strList)
      BY <1>4, <2>1
    <3>2. pos = strBase + strLen
      BY <1>4, <1>7, <3>1
    <3> HIDE DEF PadTo
    <3> QED BY <1>4, <2>1, <2>2, <3>2
  <2>4. FrontInv' /\ FitInv' /\ Keeps
    BY <1>1, <1>2, <2>1, <2>3, Idle DEF TextPhases, AtEnd, Keeps
  <2>5. ThereInv'
    BY <1>1, <1>2, <2>1, <2>4, LateKept DEF Late, AtEnd
  <2>6. Cursor'
    BY <1>2, <1>4, <2>1, <2>3 DEF Cursor
  <2>7. \A i \in 1..StringsWritten' : Holds(strBase + strOff[strList[i]], Cell("string", i, 0))'
    <3>1. StringsWritten' = c - 1
      BY <1>2, <1>4, <2>1 DEF StringsWritten, AtEnd
    <3> QED BY <1>2, <1>4, <1>7, <2>4, <3>1 DEF Keeps
  <2>8. ASSUME NEW a \in DOMAIN buf', buf'[a].kind = "string"
         PROVE  a + CellSize(buf[a])' <= strBase' + StrEnd(buf[a].item)'
    <3>1. PICK x : x = buf'[a]
      OBVIOUS
    <3>2. a \in DOMAIN buf /\ x = buf[a]
      BY <2>1, <3>1
    <3>3. x \in MemCell /\ KnownCell(x) /\ a + CellSize(x) <= strBase + StrEnd(x.item)
      BY <1>7, <1>8, <2>8, <3>1, <3>2
    <3>4. CellSize(x)' = CellSize(x)
      BY <1>1, <1>2, <2>1, <3>3, SizeSame DEF TextPhases, AtEnd
    <3>5. a + CellSize(x)' <= strBase' + StrEnd(x.item)'
      BY <1>4, <1>5, <3>3, <3>4
    <3> QED BY <3>1, <3>5
  <2>9. TextInv'
    <3>1. strBase' = rowOffset' + TotalRowSize'
      BY <1>2, <1>4, <1>5
    <3>2. rowOffset' <= pos' /\ nameBase' <= hashOffset' /\ hashOffset' <= rowOffset'
      BY <1>2, <1>4, <2>3
    <3>3. pos' = strBase' + strLen' + finalPadding'
      BY <1>4, <2>3
    <3> QED BY <1>2, <1>5, <2>1, <2>7, <2>8, <3>1, <3>2, <3>3 DEF TextInv, AtEnd
  <2> QED BY <1>6, <2>4, <2>5, <2>6, <2>9 DEF ImageInv
<1> QED BY <1>10, <1>11

(* The header and the scrambling write nothing of the image's cells.       *)
LEMMA ImagePatch ==
  ASSUME AllInv, IInv', PatchStep
  PROVE  ImageInv'
<1>1. IInv /\ SpaceInv /\ LayoutInv /\ FrontInv /\ FitInv /\ TextInv /\ Cursor /\ ThereInv /\ HeaderInv
  BY DEF AllInv, SpaceInv, ImageInv
<1>2. /\ UNCHANGED Layout
      /\ UNCHANGED <<input, rowLen, hashOffset, rowOffset, finalPadding, strings, buf, pos>>
  BY Zenon DEF PatchStep, WriteHeader, Rescramble, Layout, marks, infos
<1>3. /\ pc \in {"header", "scramble"} /\ pc' \in {"scramble", "done", "error"}
      /\ pc = "scramble" => pc' = "done" /\ scrambled' = ScrambledRanges /\ header' = header
      /\ pc = "header" /\ pc' # "error" => HeaderFits
      /\ pc = "header" => pc' = (IF HeaderFits THEN (IF opt.scramble THEN "scramble" ELSE "done") ELSE "error")
  BY DEF PatchStep, WriteHeader, Rescramble, Goto
<1>4. pos \in Nat /\ nameBase' = nameBase /\ nameLen' = nameLen /\ infoLen' = infoLen
      /\ opt' = opt /\ tab' = tab /\ N' = N /\ strBase' = strBase /\ strLen' = strLen
      /\ strOff' = strOff /\ strList' = strList /\ rowLen' = rowLen
  BY <1>1, <1>2, SameLayout DEF IInv, TypeOK, ImageOK, strings
<1>5. FrontInv' /\ FitInv' /\ Keeps
  BY <1>1, <1>2, <1>3, <1>4, Idle DEF TextPhases, AtEnd, Keeps
<1>6. ThereInv'
  BY <1>1, <1>2, <1>3, <1>5, LateKept DEF Late, AtEnd
<1>7. Cursor'
  BY <1>1, <1>2, <1>3, <1>4 DEF Cursor, WritePhases
<1>8. TextInv'
  <2>1. /\ \A i : StrEnd(i)' = StrEnd(i)
        /\ TotalRowSize' = TotalRowSize
        /\ \A i \in 1..Len(strList') : strList'[i] \in DOMAIN strOff' /\ strOff'[strList'[i]] = StrEnd(i - 1)'
        /\ \A i, j \in 1..Len(strList') : strList'[i] = strList'[j] => i = j
        /\ \A t \in DOMAIN strOff' : \E i \in 1..Len(strList') : strList'[i] = t
        /\ strLen' = StrEnd(Len(strList))'
    BY <1>1, <1>2, TextSame DEF strings
  <2>2. StringsWritten = Len(strList) /\ (pc' # "error" => StringsWritten' = Len(strList))
        /\ (pc' = "error" => StringsWritten' = 0)
    BY <1>3, <1>4 DEF StringsWritten, AtEnd
  <2>3. \A i \in 1..StringsWritten' : Holds(strBase + strOff[strList[i]], Cell("string", i, 0))'
    <3>1. CASE pc' = "error"
      BY <2>2, <3>1
    <3>2. CASE pc' # "error"
      BY <1>1, <1>4, <1>5, <2>2, <3>2 DEF Keeps, TextInv
    <3> QED BY <3>1, <3>2
  <2>4. ASSUME NEW a \in DOMAIN buf', buf'[a].kind = "string"
         PROVE  a + CellSize(buf[a])' <= strBase' + StrEnd(buf[a].item)'
    <3>1. PICK x : x = buf'[a]
      OBVIOUS
    <3>2. a \in DOMAIN buf /\ x = buf[a]
      BY <1>2, <3>1
    <3>3. x \in MemCell /\ KnownCell(x) /\ a + CellSize(x) <= strBase + StrEnd(x.item)
      BY <1>1, <2>4, <3>1, <3>2, InBuf DEF TextInv
    <3>4. CellSize(x)' = CellSize(x)
      BY <1>1, <1>2, <1>3, <1>4, <3>3, SizeSame DEF TextPhases, AtEnd
    <3>5. a + CellSize(x)' <= strBase' + StrEnd(x.item)'
      BY <1>4, <2>1, <3>3, <3>4
    <3> QED BY <3>1, <3>5
  <2>5. /\ strBase' = rowOffset' + TotalRowSize'
        /\ rowOffset' <= pos' /\ nameBase' <= hashOffset' /\ hashOffset' <= rowOffset'
        /\ pos' = strBase' + strLen' + finalPadding'
    BY <1>1, <1>2, <1>3, <1>4, <2>1 DEF TextInv, AtEnd
  <2> QED BY <1>3, <2>1, <2>3, <2>4, <2>5 DEF TextInv
<1>9. HeaderInv'
  <2>1. HeaderFits' = HeaderFits
    BY <1>2, <1>4 DEF HeaderFits
  <2>2. ScrambledRanges' = ScrambledRanges
    BY <1>2, <1>4 DEF ScrambledRanges
  <2>3. HeaderValue' = HeaderValue
    BY <1>2, <1>4 DEF HeaderValue, input
  <2>4. CASE pc = "scramble"
    BY <1>1, <1>3, <1>4, <2>1, <2>2, <2>3, <2>4 DEF HeaderInv
  <2>5. CASE pc = "header"
    <3>1. scrambled' = scrambled /\ (pc' # "error" => header' = HeaderValue)
      BY <2>5 DEF PatchStep, WriteHeader, Rescramble, HeaderValue, Goto
    <3> QED BY <1>1, <1>3, <1>4, <2>1, <2>2, <2>3, <2>5, <3>1 DEF HeaderInv
  <2> QED BY <1>3, <2>4, <2>5
<1> QED BY <1>5, <1>6, <1>7, <1>8, <1>9 DEF ImageInv

LEMMA AllInit == Init => AllInv
BY InitOK, SpaceInit, LayoutInit, SlotInit, ImageInit DEF AllInv

LEMMA ImageStill ==
  ASSUME AllInv, IInv', UNCHANGED vars
  PROVE  ImageInv'
<1>1. /\ UNCHANGED <<input, names, infos, chain, strings, marks, result, pc, k, buf, pos>>
      /\ UNCHANGED <<hashOffset, rowOffset, finalPadding>>
  BY DEF vars, marks
<1>2. /\ IInv /\ UNCHANGED Layout /\ FrontInv /\ FitInv /\ TextInv /\ Cursor /\ HeaderInv
      /\ InfosThere /\ NamesThere /\ NodesThere /\ LinksThere
  BY <1>1 DEF AllInv, SpaceInv, Layout, ImageInv, ThereInv
<1>3. /\ tab' = tab /\ opt' = opt /\ N' = N /\ nameBase' = nameBase /\ nameLen' = nameLen
      /\ rowLen' = rowLen /\ infoLen' = infoLen /\ NodesOffset' = NodesOffset
      /\ \A j : InfoEnd(j)' = InfoEnd(j) /\ NameEnd(j)' = NameEnd(j)
  BY <1>2, SameLayout
<1>4. pos \in Nat /\ strBase' = strBase /\ strLen' = strLen /\ strOff' = strOff /\ strList' = strList
  BY <1>1, <1>2 DEF IInv, TypeOK, ImageOK, strings
<1>5. FrontInv' /\ FitInv' /\ Keeps
  BY <1>1, <1>2, <1>4, Idle DEF Keeps
<1>6. InfosWritten' = InfosWritten /\ NamesWritten' = NamesWritten /\ NodesWritten' = NodesWritten
  BY <1>1, <1>3 DEF InfosWritten, NamesWritten, NodesWritten
<1>7. InfosThere' /\ NamesThere' /\ NodesThere'
  BY <1>2, <1>5, <1>6, InfosKept, NamesKept, NodesKept
<1>8. LinksThere'
  <2>1. pc' \in WritePhases \ Linked => pc # "nodes"
    BY <1>1 DEF WritePhases
  <2> QED BY <1>1, <1>2, <1>5, <1>6, <2>1, LinksKept
<1>9. Cursor'
  BY <1>1, <1>2, <1>3 DEF Cursor
<1>10. HeaderInv'
  <2>1. HeaderFits' = HeaderFits /\ ScrambledRanges' = ScrambledRanges /\ HeaderValue' = HeaderValue
    BY <1>1, <1>3, <1>4 DEF HeaderFits, ScrambledRanges, HeaderValue
  <2> QED BY <1>1, <1>2, <1>3, <2>1 DEF HeaderInv, result
<1>11. TextInv'
  <2>1. /\ \A i : StrEnd(i)' = StrEnd(i)
        /\ TotalRowSize' = TotalRowSize
        /\ \A i \in 1..Len(strList') : strList'[i] \in DOMAIN strOff' /\ strOff'[strList'[i]] = StrEnd(i - 1)'
        /\ \A i, j \in 1..Len(strList') : strList'[i] = strList'[j] => i = j
        /\ \A t \in DOMAIN strOff' : \E i \in 1..Len(strList') : strList'[i] = t
        /\ strLen' = StrEnd(Len(strList))'
    BY <1>1, <1>2, <1>3, <1>4, TextSame
  <2>2. StringsWritten' = StringsWritten
    BY <1>1, <1>4 DEF StringsWritten
  <2>3. \A i \in 1..StringsWritten' : Holds(strBase + strOff[strList[i]], Cell("string", i, 0))'
    BY <1>2, <1>4, <1>5, <2>2 DEF Keeps, TextInv
  <2>4. \A j : Label(j)' = Label(j)
    BY <1>2, SameLayout
  <2>5. ASSUME NEW a \in DOMAIN buf', buf'[a].kind = "string"
         PROVE  a + CellSize(buf[a])' <= strBase' + StrEnd(buf[a].item)'
    <3>1. CellSize(buf[a])' = CellSize(buf[a]) /\ buf' = buf
      BY <1>1, <1>3, <1>4, <2>4 DEF CellSize
    <3> QED BY <1>1, <1>2, <1>4, <2>1, <2>5, <3>1 DEF TextInv
  <2>6. /\ pc' \in {"rows"} \cup AtEnd => strBase' = rowOffset' + TotalRowSize'
        /\ pc' \in {"rows"} \cup AtEnd => rowOffset' <= pos' /\ nameBase' <= hashOffset' /\ hashOffset' <= rowOffset'
        /\ pc' = "strings" => pos' = strBase' + StrEnd(k - 1)' /\ k' <= Len(strList') + 1
        /\ pc' \in AtEnd \ {"strings"} => pos' = strBase' + strLen' + finalPadding'
    BY <1>1, <1>2, <1>3, <1>4, <2>1 DEF TextInv
  <2> QED BY <2>1, <2>3, <2>5, <2>6 DEF TextInv
<1> QED BY <1>5, <1>7, <1>8, <1>9, <1>10, <1>11 DEF ImageInv, ThereInv

LEMMA AllStep == AllInv /\ [Next]_vars => AllInv'
<1> SUFFICES ASSUME AllInv, [Next]_vars PROVE AllInv'
  OBVIOUS
<1>1. SpaceInv' /\ LayoutInv' /\ SlotInv'
  BY SpaceStep, LayoutInvStep, SlotStep DEF AllInv
<1>2. IInv'
  BY <1>1 DEF SpaceInv
<1>3. ImageInv'
  BY <1>2, ImageLayout, ImageInfos, ImageNames, ImageNodes, ImageHash, ImageLink, ImageValue,
     ImageRows, ImageStrings, ImagePatch, ImageStill, Zenon
  DEF Next, WriteStep, Returned
<1> QED BY <1>1, <1>3 DEF AllInv

LEMMA AllHolds == Spec => []AllInv
BY AllInit, AllStep, PTL DEF Spec

-----------------------------------------------------------------------------
(* What the invariant says of the image.                                   *)
LEMMA ImagePointers ==
  ASSUME AllInv
  PROVE  PointersLand
<1>1. /\ IInv /\ TextInv /\ InfosThere /\ NamesThere /\ NodesThere
  BY DEF AllInv, SpaceInv, ImageInv, ThereInv
<1>2. N \in Nat /\ opt.wii \in BOOLEAN
  BY <1>1, Basics
<1>3. ASSUME pc \in {"rows", "strings", "header", "scramble", "done"}, NEW j \in 1..N
      PROVE  /\ Holds(infoPtr[j], Cell("info", j, InfoVal(j)))
             /\ Holds(NodePtr(j), Cell("nodeInfo", j, infoPtr[j]))
             /\ Holds(NamePtr(j), Cell("name", j, 0))
             /\ ~opt.wii => Holds(NodePtr(j) + 4, Cell("nodeName", j, NamePtr(j)))
  <2>1. InfosWritten = N /\ NamesWritten = N /\ NodesWritten = N
    BY <1>2, <1>3 DEF InfosWritten, NamesWritten, NodesWritten, WritePhases
  <2>2. j \in 0..N
    BY <1>2
  <2> QED BY <1>1, <2>1, <2>2 DEF InfosThere, NamesThere, NodesThere
<1>4. ASSUME pc \in {"header", "scramble", "done"}
      PROVE  /\ \A t \in DOMAIN strOff :
                  \E j \in 1..Len(strList) :
                    strList[j] = t /\ Holds(strBase + strOff[t], Cell("string", j, 0))
             /\ \A i, j \in 1..Len(strList) : strList[i] = strList[j] => i = j
  <2>1. StringsWritten = Len(strList)
    BY <1>4 DEF StringsWritten, AtEnd
  <2> QED BY <1>1, <2>1 DEF TextInv
<1> QED BY <1>3, <1>4 DEF PointersLand

(* For every table and every options, whatever the order of the sections   *)
(* and the patches after them: each column info, name and node of the      *)
(* image is where the layout pass said, and each text where the row values *)
(* that use it point to.                                                   *)
THEOREM PointersCorrect == Spec => []PointersLand
<1>1. AllInv => PointersLand
  BY ImagePointers
<1> QED BY <1>1, AllHolds, PTL

(* No two items of an image share a byte, whatever the table: nothing that *)
(* write puts down is overwritten by a later section.                      *)
THEOREM DisjointCorrect == Spec => []ItemsDisjoint
<1>1. AllInv => ItemsDisjoint
  BY DEF AllInv, ImageInv, FrontInv
<1> QED BY <1>1, AllHolds, PTL

LEMMA HeaderNames ==
  ASSUME AllInv, Success
  PROVE  /\ HeaderFits /\ header = HeaderValue /\ header.names = nameBase
         /\ opt.wii \in BOOLEAN /\ N \in Nat
<1>1. IInv /\ SpaceInv /\ LayoutInv /\ TextInv /\ HeaderInv
  BY DEF AllInv, SpaceInv, ImageInv
<1>2. HeaderFits /\ header = HeaderValue
  BY <1>1 DEF Success, HeaderInv
<1>3. nameBase \in Nat /\ nameBase = HeaderSize(opt.wii) + infoLen
  BY <1>1, Places DEF Success, WritePhases
<1>4. nameBase <= hashOffset /\ hashOffset \in Nat /\ hashOffset <= U16Max
  BY <1>1, <1>2 DEF TextInv, Success, AtEnd, IInv, TypeOK, MarksOK, HeaderFits, FitsU16
<1>5. U16Max \in Nat /\ nameBase <= U16Max
  BY <1>3, <1>4, FormatAssumption
<1>6. \A m, x \in Nat : x <= m => x % (m + 1) = x
  OBVIOUS
<1>7. AsU16(nameBase) = nameBase
  BY <1>3, <1>5, <1>6 DEF AsU16
<1> QED BY <1>1, <1>2, <1>3, <1>7, Basics DEF HeaderValue

(* write_header stores the offset of the names with a wrapping cast, and   *)
(* still no u16 of an image is truncated, whatever the table: the names    *)
(* stand before the hash table, whose offset was checked.                  *)
THEOREM TruncationCorrect == Spec => []NoSilentTruncation
<1>1. AllInv => NoSilentTruncation
  <2> SUFFICES ASSUME AllInv, Success
               PROVE  /\ header.names = nameBase
                      /\ \A f \in {"names", "rowLen", "hashes", "rows", "rowCount", "nodes", "nodeCount"} :
                           header[f] <= U16Max
                      /\ \A a \in DOMAIN buf : buf[a].kind # "value" => buf[a].val <= U16Max
    BY DEF NoSilentTruncation
  <2>1. /\ HeaderFits /\ header = HeaderValue /\ header.names = nameBase
        /\ opt.wii \in BOOLEAN /\ N \in Nat
    BY HeaderNames
  <2>2. /\ header.rowLen = rowLen /\ header.hashes = hashOffset /\ header.rows = rowOffset
        /\ header.rowCount = Len(tab.rows)
        /\ header.nodes = IF opt.wii THEN 0 ELSE nameBase + nameLen
        /\ header.nodeCount = IF opt.wii THEN 0 ELSE N
    BY <2>1 DEF HeaderValue
  <2>3. /\ rowLen <= U16Max /\ hashOffset <= U16Max /\ rowOffset <= U16Max /\ Len(tab.rows) <= U16Max
        /\ ~opt.wii => nameBase + nameLen <= U16Max /\ N <= U16Max
        /\ 0 <= U16Max
    BY <2>1, FormatAssumption DEF HeaderFits, FitsU16
  <2>4. nameBase <= U16Max
    <3>1. nameBase <= hashOffset /\ nameBase \in Nat /\ hashOffset \in Nat
      BY DEF AllInv, ImageInv, TextInv, Success, AtEnd, SpaceInv, IInv, TypeOK, MarksOK, NamesOK
    <3> QED BY <2>3, <3>1, FormatAssumption
  <2>5. \A a \in DOMAIN buf : buf[a].kind # "value" => buf[a].val <= U16Max
    BY DEF AllInv, ImageInv, FitInv
  <2>6. header.nodes <= U16Max /\ header.nodeCount <= U16Max
    BY <2>1, <2>2, <2>3
  <2> QED BY <2>1, <2>2, <2>3, <2>4, <2>5, <2>6
<1> QED BY <1>1, AllHolds, PTL

(* The texts stand one behind the other: none ends behind the last.        *)
LEMMA TextsEnd ==
  ASSUME IInv, TextInv, NEW i \in 1..Len(strList)
  PROVE  StrEnd(i) <= strLen
<1>1. strList \in Seq(Text) /\ NatFun(strOff) /\ strLen \in Nat
  BY DEF IInv, TypeOK, StringsOK
<1>2. Len(strList) \in Nat /\ strLen = StrEnd(Len(strList))
  BY <1>1 DEF TextInv
<1>3. \A j \in 1..Len(strList) : /\ strOff[strList[j]] \in Nat /\ strOff[strList[j]] = StrEnd(j - 1)
                                 /\ NameSize(strList[j]) \in Nat
                                 /\ StrEnd(j) = strOff[strList[j]] + NameSize(strList[j])
  <2> SUFFICES ASSUME NEW j \in 1..Len(strList)
               PROVE  /\ strOff[strList[j]] \in Nat /\ strOff[strList[j]] = StrEnd(j - 1)
                      /\ NameSize(strList[j]) \in Nat
                      /\ StrEnd(j) = strOff[strList[j]] + NameSize(strList[j])
    OBVIOUS
  <2>1. strList[j] \in DOMAIN strOff /\ strOff[strList[j]] = StrEnd(j - 1)
    BY DEF TextInv
  <2>2. strOff[strList[j]] \in Nat
    BY <1>1, <2>1 DEF NatFun
  <2>3. NameSize(strList[j]) \in Nat
    BY <1>1, NameSizes
  <2>4. StrEnd(j) = strOff[strList[j]] + NameSize(strList[j])
    BY <1>2 DEF StrEnd
  <2> QED BY <2>1, <2>2, <2>3, <2>4
<1> DEFINE T == {j \in 1..Len(strList) : ~(StrEnd(j) <= strLen)}
<1> SUFFICES ASSUME T # {} PROVE FALSE
  OBVIOUS
<1>4. PICK j \in T : \A h \in T : h <= j
  <2>1. T \subseteq Nat /\ \A h \in T : h <= Len(strList)
    BY <1>2
  <2> HIDE DEF T
  <2> QED BY <1>2, <2>1, NatMax
<1>5. j \in 1..Len(strList) /\ ~(StrEnd(j) <= strLen)
  OBVIOUS
<1>6. j # Len(strList)
  BY <1>1, <1>2, <1>5
<1>7. j + 1 \in 1..Len(strList) /\ j + 1 \notin T
  BY <1>2, <1>4, <1>5, <1>6
<1>8. StrEnd(j + 1) <= strLen
  BY <1>7
<1>9. StrEnd(j + 1) = StrEnd(j) + NameSize(strList[j + 1]) /\ StrEnd(j) \in Nat /\ NameSize(strList[j + 1]) \in Nat
  <2>1. PICK q \in 1..Len(strList) : q = j + 1 /\ q - 1 = j
    BY <1>5, <1>7
  <2>2. /\ strOff[strList[q]] = StrEnd(j) /\ strOff[strList[q]] \in Nat
        /\ StrEnd(q) = strOff[strList[q]] + NameSize(strList[q])
        /\ NameSize(strList[q]) \in Nat
    <3>1. /\ strOff[strList[q]] = StrEnd(q - 1) /\ strOff[strList[q]] \in Nat
          /\ StrEnd(q) = strOff[strList[q]] + NameSize(strList[q])
          /\ NameSize(strList[q]) \in Nat
      BY <1>3
    <3> QED BY <2>1, <3>1
  <2> QED BY <2>1, <2>2
<1> QED BY <1>1, <1>5, <1>8, <1>9

(* What rescramble scrambles is what a reader will unscramble, for every   *)
(* table: both ranges start where the header says, and behind the second   *)
(* there is only padding.                                                  *)
THEOREM ScrambleCorrect == Spec => []ScrambleRangesAgree
<1>1. AllInv => ScrambleRangesAgree
  <2> SUFFICES ASSUME AllInv, Success, opt.scramble
               PROVE  /\ <<header.names, header.hashes>> \in scrambled
                      /\ <<header.strings, strBase + strLen>> \in scrambled
                      /\ header.strings + header.stringsLen = pos
                      /\ \A a \in DOMAIN buf : buf[a].kind = "string" => a + CellSize(buf[a]) <= strBase + strLen
    BY DEF ScrambleRangesAgree
  <2>1. IInv /\ TextInv /\ HeaderInv /\ FrontInv
    BY DEF AllInv, SpaceInv, ImageInv
  <2>2. scrambled = ScrambledRanges
    BY <2>1 DEF HeaderInv, Success
  <2>3. /\ header.names = nameBase /\ header.hashes = hashOffset /\ header.strings = strBase
        /\ header.stringsLen = strLen + finalPadding
    BY HeaderNames DEF HeaderValue
  <2>4. header.strings + header.stringsLen = pos
    <3>1. strBase \in Nat /\ strLen \in Nat /\ finalPadding \in Nat
      BY <2>1 DEF IInv, TypeOK, MarksOK, StringsOK
    <3>2. pos = strBase + strLen + finalPadding
      BY <2>1 DEF TextInv, Success, AtEnd
    <3> QED BY <2>3, <3>1, <3>2
  <2>5. ASSUME NEW a \in DOMAIN buf, buf[a].kind = "string"
        PROVE  a + CellSize(buf[a]) <= strBase + strLen
    <3>1. buf[a].item \in 1..Len(strList) /\ a \in Nat /\ CellSize(buf[a]) \in Nat
      BY <2>1, <2>5, InBuf DEF KnownCell
    <3>2. a + CellSize(buf[a]) <= strBase + StrEnd(buf[a].item)
      BY <2>1, <2>5 DEF TextInv
    <3>3. StrEnd(buf[a].item) <= strLen
      BY <2>1, <3>1, TextsEnd
    <3>4. StrEnd(buf[a].item) \in Nat /\ strBase \in Nat /\ strLen \in Nat
      <4>1. strList \in Seq(Text) /\ NatFun(strOff) /\ strBase \in Nat /\ strLen \in Nat
        BY <2>1 DEF IInv, TypeOK, StringsOK
      <4>2. strList[buf[a].item] \in DOMAIN strOff /\ strList[buf[a].item] \in Text
        BY <2>1, <3>1, <4>1, SMTT(30) DEF TextInv
      <4> QED BY <3>1, <4>1, <4>2, NameSizes DEF StrEnd, NatFun
    <3> QED BY <3>1, <3>2, <3>3, <3>4
  <2> QED BY <2>2, <2>3, <2>4, <2>5 DEF ScrambledRanges
<1> QED BY <1>1, AllHolds, PTL

-----------------------------------------------------------------------------
(* A cell is written once.                                                 *)
Patched == \A a \in DOMAIN buf :
             /\ a \in DOMAIN buf'
             /\ buf'[a] = buf[a] \/ (buf[a].kind = "nodeLink" /\ buf'[a].kind = "nodeLink")

LEMMA Behind ==
  ASSUME AllInv, NEW w, buf' = StoreAll(buf, w), \A a \in DOMAIN w : pos <= a /\ a \in Nat
  PROVE  Patched
<1>1. IInv /\ FrontInv
  BY DEF AllInv, SpaceInv, ImageInv
<1>2. pos \in Nat
  BY <1>1 DEF IInv, TypeOK, ImageOK
<1>3. \A a \in DOMAIN buf : a \in Nat /\ a < pos
  BY <1>1, InBuf
<1> QED BY <1>2, <1>3 DEF Patched, StoreAll

LEMMA StepPatches ==
  ASSUME AllInv, [Next]_vars
  PROVE  Patched
<1>1. /\ IInv /\ SpaceInv /\ LayoutInv /\ SlotInv /\ NodesThere
  BY DEF AllInv, SpaceInv, ImageInv, ThereInv
<1>2. PICK p, c : p = pos /\ c = k
  OBVIOUS
<1>3. p \in Nat /\ IInv'
  BY <1>1, <1>2, StepOK DEF IInv, TypeOK, ImageOK
<1>4. CASE UNCHANGED buf
  BY <1>4 DEF Patched
<1>5. ASSUME NEW cell, buf' = Store(buf, pos, cell)
      PROVE  Patched
  <2>1. PICK w : w = [a \in {p} |-> cell]
    OBVIOUS
  <2>2. buf' = StoreAll(buf, w)
    BY <1>2, <1>5, <2>1 DEF Store, StoreAll
  <2> QED BY <1>2, <1>3, <2>1, <2>2, Behind
<1>6. CASE WriteInfo \/ WriteName \/ WriteValue \/ WriteString
  BY <1>4, <1>5, <1>6 DEF WriteInfo, WriteName, WriteValue, WriteString
<1>7. CASE WriteWiiNode \/ WriteNode
  <2>1. PICK w : buf' = StoreAll(buf, w) /\ DOMAIN w = {pos, pos + 2, pos + 4}
    <3>1. CASE WriteWiiNode
      BY <3>1 DEF WriteWiiNode
    <3>2. CASE WriteNode
      BY <3>2 DEF WriteNode
    <3> QED BY <1>7, <3>1, <3>2
  <2> QED BY <1>2, <1>3, <2>1, Behind
<1>8. CASE WriteFirstLevel
  <2>3. PICK w : w = [a \in {pos + 2 * s : s \in DOMAIN chain} |->
                        LET s == (a - pos) \div 2
                        IN  Cell("slot", s, IF chain[s] = <<>> THEN 0 ELSE chain[s][1])]
    OBVIOUS
  <2>1. buf' = StoreAll(buf, w) /\ DOMAIN w = {pos + 2 * s : s \in DOMAIN chain}
    BY <1>8, <2>3 DEF WriteFirstLevel
  <2>2. DOMAIN chain \subseteq Nat
    BY <1>1, Basics DEF IInv, TypeOK, ChainOK
  <2> QED BY <1>2, <1>3, <2>1, <2>2, Behind
<1>9. CASE LinkNodes
  <2>1. pc = "link" /\ pc \in WritePhases /\ buf' = StoreAll(buf, Links) /\ NodesWritten = N
    BY <1>1, <1>9, Basics DEF LinkNodes, WritePhases, NodesWritten, NamesWritten
  <2>2. \A a \in DOMAIN Links : a \in DOMAIN buf /\ buf[a].kind = "nodeLink" /\ Links[a].kind = "nodeLink"
    BY <1>1, <2>1, LinksAre DEF NodesThere, IsLink
  <2> HIDE DEF Links
  <2> QED BY <2>1, <2>2 DEF Patched, StoreAll
<1>10. CASE LayoutStep \/ PatchStep \/ WriteInfosDone \/ WriteNamesDone \/ WriteNodesDone
            \/ RowDone \/ RowsDone \/ StringsDone \/ Returned \/ UNCHANGED vars
  <2>1. UNCHANGED buf
    BY <1>10, ZenonT(60)
    DEF LayoutStep, ReserveTableName, ReserveName, ReserveDone, AddInfo, InfosDone, AddNode, NodesDone,
        PatchStep, WriteHeader, Rescramble, WriteInfosDone, WriteNamesDone, WriteNodesDone,
        RowDone, RowsDone, StringsDone, Returned, vars
  <2> QED BY <1>4, <2>1
<1> QED BY <1>6, <1>7, <1>8, <1>9, <1>10, Zenon DEF Next, WriteStep

(* Whatever the table, the cursor never goes back over what was written:   *)
(* a cell of the image changes only when its node is linked to the next.   *)
THEOREM PatchesCorrect == Spec => OnlyLinksArePatched
<1>1. AllInv /\ [Next]_vars => [Patched]_vars
  BY StepPatches
<1> QED BY <1>1, AllHolds, PTL DEF Spec, OnlyLinksArePatched, Patched

-----------------------------------------------------------------------------
(* Lookups.  Following the links of a slot gives its nodes, one after the  *)
(* other, and then 0.                                                      *)
AtNext(s, at, i) ==
  IF i = 1 THEN ValAt(hashOffset + 2 * s)
  ELSE IF at[i - 1] = 0 THEN 0 ELSE ValAt(at[i - 1] + 2)
NodeAt(s, i) == IF i <= Len(chain[s]) THEN chain[s][i] ELSE 0

LEMMA Visits ==
  ASSUME AllInv, Success, NEW s \in DOMAIN chain
  PROVE  /\ chain[s] \in Seq(Nat) /\ Len(chain[s]) <= N /\ N \in Nat
         /\ \A i \in 1..(N + 1) : Visit(s)[i] = NodeAt(s, i)
<1>1. /\ IInv /\ LayoutInv /\ SlotInv /\ LinksThere /\ N \in Nat
      /\ pc \in WritePhases /\ pc \in Linked /\ pc \in Located
  BY Basics DEF AllInv, SpaceInv, ImageInv, ThereInv, Success, WritePhases, Linked, AtEnd, Located
<1>2. chain[s] \in Seq(Nat) /\ \A i \in 1..Len(chain[s]) : chain[s][i] \in Nat \ {0}
  <2>1. \A i \in 1..Len(chain[s]) : \E j \in 1..N : chain[s][i] = NodePtr(j)
    BY <1>1, NodesFit
  <2>2. \A j \in 1..N : NodePtr(j) \in Nat \ {0}
    BY <1>1, NodePtrs DEF Threaded, Success
  <2> QED BY <1>1, <2>1, <2>2, NodesFit
<1>3. Len(chain[s]) <= N
  BY <1>1 DEF SlotInv, Threaded, Success, WritePhases
<1>4. PICK n \in Nat : n = Len(chain[s])
  BY <1>2
<1>5. ValAt(hashOffset + 2 * s) = NodeAt(s, 1)
  <2>1. Holds(hashOffset + 2 * s, Cell("slot", s, IF chain[s] = <<>> THEN 0 ELSE chain[s][1]))
    BY <1>1 DEF LinksThere
  <2>2. ValAt(hashOffset + 2 * s) = IF chain[s] = <<>> THEN 0 ELSE chain[s][1]
    BY <2>1, CellFields DEF Holds, ValAt
  <2> QED BY <1>2, <2>2 DEF NodeAt
<1>6. ASSUME NEW i \in 1..n
      PROVE  ValAt(chain[s][i] + 2) = NodeAt(s, i + 1)
  <2>1. Holds(LinkAt(chain[s][i]), Cell("nodeLink", 0, NextOf(s, i)))
    BY <1>1, <1>4, <1>6 DEF LinksThere
  <2>2. ValAt(chain[s][i] + 2) = NextOf(s, i)
    BY <2>1, CellFields DEF Holds, ValAt, LinkAt
  <2> QED BY <1>4, <2>2 DEF NextOf, NodeAt
<1>7. PICK g : g = [i \in 1..(N + 1) |-> NodeAt(s, i)]
  OBVIOUS
<1>8. ASSUME NEW i \in 1..(N + 1)
      PROVE  NodeAt(s, i) = AtNext(s, g, i)
  <2>1. CASE i = 1
    BY <1>5, <2>1 DEF AtNext
  <2>2. CASE i # 1
    <3>1. i - 1 \in 1..(N + 1) /\ g[i - 1] = NodeAt(s, i - 1) /\ i - 1 + 1 = i
      BY <1>1, <1>7, <2>2
    <3>2. CASE i - 1 <= n
      <4>1. i - 1 \in 1..n /\ NodeAt(s, i - 1) = chain[s][i - 1] /\ chain[s][i - 1] # 0
        BY <1>2, <1>4, <3>1, <3>2 DEF NodeAt
      <4> QED BY <1>6, <2>2, <3>1, <4>1 DEF AtNext
    <3>3. CASE ~(i - 1 <= n)
      <4>1. NodeAt(s, i - 1) = 0 /\ NodeAt(s, i) = 0
        BY <1>4, <3>1, <3>3 DEF NodeAt
      <4> QED BY <2>2, <3>1, <4>1 DEF AtNext
    <3> QED BY <3>2, <3>3
  <2> QED BY <2>1, <2>2
<1>9. g = [i \in 1..(N + 1) |-> AtNext(s, g, i)]
  BY <1>7, <1>8
<1>10. Visit(s) = CHOOSE at : at = [i \in 1..(N + 1) |->
                    IF i = 1 THEN ValAt(hashOffset + 2 * s)
                    ELSE IF at[i - 1] = 0 THEN 0 ELSE ValAt(at[i - 1] + 2)]
  BY DEF Visit
<1>11. Visit(s) = [i \in 1..(N + 1) |-> AtNext(s, Visit(s), i)]
  BY <1>9, <1>10, ZenonT(30) DEF AtNext
<1> DEFINE T == {i \in 1..(N + 1) : Visit(s)[i] # NodeAt(s, i)}
<1>12. T = {}
  <2> SUFFICES ASSUME T # {} PROVE FALSE
    OBVIOUS
  <2>1. PICK i \in T : \A j \in T : i <= j
    <3>1. T \subseteq Nat
      BY <1>1
    <3> HIDE DEF T
    <3> QED BY <3>1, NatMin
  <2>2. i \in 1..(N + 1) /\ Visit(s)[i] = AtNext(s, Visit(s), i)
    BY <1>11
  <2>3. i = 1 \/ (i - 1 \in 1..(N + 1) /\ i - 1 \notin T)
    BY <1>1, <2>1, <2>2
  <2>4. i = 1 \/ Visit(s)[i - 1] = g[i - 1]
    BY <1>7, <2>3
  <2>5. AtNext(s, Visit(s), i) = AtNext(s, g, i)
    BY <2>4 DEF AtNext
  <2> QED BY <1>8, <2>1, <2>2, <2>5
<1> QED BY <1>1, <1>2, <1>3, <1>12

(* A lookup by name in an image finds every column and flag, whatever the  *)
(* table and the number of slots: the links of slot s lead through exactly *)
(* the nodes whose names hash to s, and end.                               *)
LEMMA ChainsAreComplete == AllInv => ChainsComplete
<1> SUFFICES ASSUME AllInv, Success, NEW s \in 0..(opt.hashSlots - 1)
             PROVE  LET at == Visit(s)
                        nodes == {at[i] : i \in 1..(N + 1)} \ {0}
                    IN  /\ at[N + 1] = 0
                        /\ nodes = {NodePtr(j) : j \in {i \in 1..N : Slot(Label(i), opt.hashSlots) = s}}
  BY DEF ChainsComplete
<1>1. IInv /\ LayoutInv /\ SlotInv /\ pc \in Located /\ Threaded = N /\ pc \notin {"error", "panicNode"}
  BY DEF AllInv, SpaceInv, Success, Located, WritePhases, Threaded
<1>2. s \in DOMAIN chain
  BY <1>1 DEF IInv, TypeOK, ChainOK
<1>3. /\ chain[s] \in Seq(Nat) /\ Len(chain[s]) <= N /\ N \in Nat
      /\ \A i \in 1..(N + 1) : Visit(s)[i] = NodeAt(s, i)
  BY <1>2, Visits
<1>4. Visit(s)[N + 1] = 0
  BY <1>3 DEF NodeAt
<1>5. \A j \in 1..N : NodePtr(j) \in Nat \ {0}
  BY <1>1, NodePtrs
<1>6. ASSUME NEW i \in 1..(N + 1), Visit(s)[i] # 0
      PROVE  \E j \in 1..N : SlotOf(j) = s /\ Visit(s)[i] = NodePtr(j)
  <2>1. i \in 1..Len(chain[s]) /\ Visit(s)[i] = chain[s][i]
    BY <1>3, <1>6 DEF NodeAt
  <2> QED BY <1>1, <1>2, <2>1 DEF SlotInv
<1>7. ASSUME NEW j \in 1..N, SlotOf(j) = s
      PROVE  NodePtr(j) # 0 /\ \E i \in 1..(N + 1) : Visit(s)[i] = NodePtr(j)
  <2>1. PICK i \in 1..Len(chain[s]) : chain[s][i] = NodePtr(j)
    BY <1>1, <1>7 DEF SlotInv
  <2>2. i \in 1..(N + 1) /\ Visit(s)[i] = chain[s][i]
    BY <1>3, <2>1 DEF NodeAt
  <2> QED BY <1>5, <2>1, <2>2
<1>8. {Visit(s)[i] : i \in 1..(N + 1)} \ {0} = {NodePtr(j) : j \in {i \in 1..N : SlotOf(i) = s}}
  BY <1>6, <1>7
<1> QED BY <1>4, <1>8 DEF SlotOf

-----------------------------------------------------------------------------
(* The writer's invariant holds until the image is damaged. *)
WrittenInv == ~damaged => AllInv

LEMMA WrittenStep == WrittenInv /\ [RTNext]_allVars => WrittenInv'
<1> SUFFICES ASSUME WrittenInv, [RTNext]_allVars, ~damaged' PROVE AllInv'
  BY DEF WrittenInv
<1>1. CASE Write
  BY <1>1, AllStep, Zenon DEF Write, Next, WrittenInv
<1>2. CASE DamageLink
  BY <1>2 DEF DamageLink
<1>3. CASE Read
  <2>1. Reader!RNext => UNCHANGED <<tab, opt, buf, header, strList>>
    BY DEF Reader!RNext, Reader!Open, Reader!NextOfArray, Reader!NextOfHash, Reader!HashDone,
           Reader!Columns, Reader!NextRow, Reader!RowsRead, Reader!image
  <2>2. UNCHANGED vars /\ damaged' = damaged
    BY <1>3, <2>1 DEF Read, vars, input, strings, result
  <2> QED BY <2>2, AllStep DEF WrittenInv
<1>4. CASE Ended \/ UNCHANGED allVars
  <2>1. UNCHANGED vars /\ damaged' = damaged
    BY <1>4 DEF Ended, allVars
  <2> QED BY <2>1, AllStep DEF WrittenInv
<1> QED BY <1>1, <1>2, <1>3, <1>4 DEF RTNext

(* Whatever the table, the options and the interleaving of the two calls,  *)
(* a lookup by name finds every column and flag of an undamaged image.     *)
THEOREM LookupsCorrect == RTSpec => []LookupsComplete
<1>1. RTInit => WrittenInv
  BY AllInit DEF RTInit, WrittenInv
<1>2. WrittenInv => LookupsComplete
  BY ChainsAreComplete DEF WrittenInv, LookupsComplete
<1> QED BY <1>1, <1>2, WrittenStep, PTL DEF RTSpec

-----------------------------------------------------------------------------
(* Rows.  The layout pass adds up the columns to the length of a row, the  *)
(* write pass adds up values; both come to the same where rows fit.        *)
Columns == Len(tab.columns)
CellStart ==
  LET at[c \in 0..Columns] ==
        IF c = 0 THEN 0 ELSE at[c - 1] + tab.columns[c].count * tab.columns[c].width
  IN  at
RowBegin(r) == rowOffset + rowLen * (r - 1)

(* The cursor stands before value i of column c + 1, or behind the last    *)
(* column.                                                                 *)
AtValue(c, i) ==
  /\ IF c = Columns THEN i = 0 ELSE i < tab.columns[c + 1].count
  /\ col = ValueEnd[c] + i + 1
  /\ pos = RowBegin(row) + CellStart[c]
             + (IF c = Columns THEN 0 ELSE i * tab.columns[c + 1].width)

Upto(j) == IF j <= Columns THEN j ELSE Columns
RowsBehind(r) == \A i \in 1..r : i \in DOMAIN rowStart /\ rowStart[i] = RowBegin(i)

RowsLater == Phases \ {"rows", "panicRows", "strings", "header", "scramble", "done", "error"}
LengthInv ==
  /\ pc \in RowsLater => row = 1 /\ col = 1
  /\ pc \in {"start", "reserve"} => rowLen = 0
  /\ pc = "infos" => rowLen = CellStart[Upto(k - 1)]
  /\ pc \in WritePhases \cup {"nodes"} => rowLen = CellStart[Columns]
CursorInv ==
  /\ pc = "rows" =>
       /\ row \in 1..(Len(tab.rows) + 1) /\ RowsBehind(row)
       /\ IF row > Len(tab.rows) THEN pos = RowBegin(row)
          ELSE \E c \in 0..Columns, i \in Nat : AtValue(c, i)
  /\ pc \in {"strings", "header", "scramble", "done"} => RowsBehind(Len(tab.rows))
  /\ pc # "panicRows"
RowInv == LengthInv /\ (WellFormed => CursorInv)

LEMMA Sums ==
  ASSUME CallOK
  PROVE  /\ Columns \in Nat /\ Columns <= N /\ Len(tab.rows) \in Nat
         /\ ValueEnd \in [0..Columns -> Nat] /\ CellStart \in [0..Columns -> Nat]
         /\ ValueEnd[0] = 0 /\ CellStart[0] = 0
         /\ \A c \in 1..Columns :
              /\ tab.columns[c].count \in Nat \ {0} /\ tab.columns[c].width \in {1, 2, 4}
              /\ ValueEnd[c] = ValueEnd[c - 1] + tab.columns[c].count
              /\ CellStart[c] = CellStart[c - 1] + tab.columns[c].count * tab.columns[c].width
         /\ \A c \in 0..Columns : ValueEnd[c] <= ValueEnd[Columns]
<1>1. tab \in Table
  BY WriterAssumption DEF CallOK
<1>2. /\ Columns \in Nat /\ Columns <= N /\ Len(tab.rows) \in Nat
      /\ \A c \in 1..Columns : tab.columns[c] \in Column
  BY <1>1 DEF Table, Columns, N, ItemCount
<1>3. \A c \in 1..Columns : tab.columns[c].count \in Nat \ {0} /\ tab.columns[c].width \in {1, 2, 4}
  BY <1>2 DEF Column
<1> DEFINE d == [c \in 1..Columns |-> tab.columns[c].count]
           e == [c \in 1..Columns |-> tab.columns[c].count * tab.columns[c].width]
<1>4. \A c \in 1..Columns : d[c] \in Nat /\ d[c] = tab.columns[c].count
  BY <1>3
<1>5. \A c \in 1..Columns : e[c] \in Nat /\ e[c] = tab.columns[c].count * tab.columns[c].width
  <2> SUFFICES ASSUME NEW c \in 1..Columns
               PROVE  tab.columns[c].count * tab.columns[c].width \in Nat
    OBVIOUS
  <2>1. PICK n \in Nat : n = tab.columns[c].count
    BY <1>3
  <2>2. PICK w \in Nat : w = tab.columns[c].width
    BY <1>3
  <2> QED BY <2>1, <2>2
<1> HIDE DEF d, e
<1>6. ASSUME NEW f
      PROVE  IsRunningSum(f, d, Columns) <=>
               f = [c \in 0..Columns |-> IF c = 0 THEN 0 ELSE f[c - 1] + tab.columns[c].count]
  <2>1. \A c \in 0..Columns : c # 0 => c \in 1..Columns
    BY <1>2
  <2>2. \A c \in 0..Columns : (IF c = 0 THEN 0 ELSE f[c - 1] + d[c])
                              = IF c = 0 THEN 0 ELSE f[c - 1] + tab.columns[c].count
    BY <1>4, <2>1
  <2> QED BY <2>2 DEF IsRunningSum
<1>7. ASSUME NEW f
      PROVE  IsRunningSum(f, e, Columns) <=>
               f = [c \in 0..Columns |-> IF c = 0 THEN 0
                      ELSE f[c - 1] + tab.columns[c].count * tab.columns[c].width]
  <2>1. \A c \in 0..Columns : c # 0 => c \in 1..Columns
    BY <1>2
  <2>2. \A c \in 0..Columns : (IF c = 0 THEN 0 ELSE f[c - 1] + e[c])
                              = IF c = 0 THEN 0
                                ELSE f[c - 1] + tab.columns[c].count * tab.columns[c].width
    BY <1>5, <2>1
  <2> QED BY <2>2 DEF IsRunningSum
<1>8. IsRunningSum(ValueEnd, d, Columns)
  <2>1. PICK f : IsRunningSum(f, d, Columns)
    BY <1>2, <1>4, RunningSums
  <2> QED BY <2>1, <1>6, Zenon DEF ValueEnd, Columns
<1>9. IsRunningSum(CellStart, e, Columns)
  <2>1. PICK f : IsRunningSum(f, e, Columns)
    BY <1>2, <1>5, RunningSums
  <2> QED BY <2>1, <1>7, Zenon DEF CellStart
<1>10. /\ ValueEnd \in [0..Columns -> Nat] /\ ValueEnd[0] = 0
       /\ \A c \in 1..Columns : ValueEnd[c] = ValueEnd[c - 1] + d[c]
       /\ \A c \in 0..Columns : ValueEnd[c] <= ValueEnd[Columns]
  BY <1>2, <1>4, <1>8, RunningSums
<1>11. /\ CellStart \in [0..Columns -> Nat] /\ CellStart[0] = 0
       /\ \A c \in 1..Columns : CellStart[c] = CellStart[c - 1] + e[c]
  BY <1>2, <1>5, <1>9, RunningSums, ZenonT(30)
<1> QED BY <1>2, <1>3, <1>4, <1>5, <1>10, <1>11

LEMMA RowSame ==
  ASSUME UNCHANGED input
  PROVE  /\ tab' = tab /\ Columns' = Columns /\ ValueEnd' = ValueEnd /\ CellStart' = CellStart
         /\ WellFormed' = WellFormed
         /\ \A j : Upto(j)' = Upto(j)
<1>1. tab' = tab
  BY DEF input
<1> QED BY <1>1 DEF Columns, ValueEnd, CellStart, WellFormed, FitsColumns, Upto

LEMMA RowInit == Init => RowInv
<1> SUFFICES ASSUME Init PROVE RowInv
  OBVIOUS
<1> QED BY DEF Init, RowInv, LengthInv, CursorInv, RowsLater, WritePhases

LEMMA LengthSame ==
  ASSUME LengthInv, UNCHANGED <<input, rowLen>>,
         pc \in WritePhases, pc' \in WritePhases \cup {"error"},
         pc \notin RowsLater => pc' \notin RowsLater,
         pc' \in RowsLater => UNCHANGED rowAt
  PROVE  LengthInv'
BY RowSame DEF LengthInv, rowAt, WritePhases, RowsLater, Phases

(* A step keeps the length of a row what the columns before it take.       *)
LEMMA LengthKept ==
  ASSUME IInv, LengthInv, UNCHANGED <<input, rowAt, rowLen>>,
         \/ pc' = pc /\ (pc = "infos" => k' = k)
         \/ pc \in {"start", "reserve"} /\ pc' = "reserve"
         \/ pc \in WritePhases \cup {"nodes"} /\ pc' \in WritePhases \cup {"error", "panicNode"}
            /\ (pc \notin RowsLater => pc' \notin RowsLater)
         \/ pc = "nodes" /\ pc' = "nodes"
  PROVE  LengthInv'
BY RowSame DEF LengthInv, rowAt, WritePhases, RowsLater, Phases

LEMMA LengthStep == IInv /\ LengthInv /\ [Next]_vars => LengthInv'
<1> SUFFICES ASSUME IInv, LengthInv, [Next]_vars PROVE LengthInv'
  OBVIOUS
<1>1. CallOK /\ N \in Nat /\ ControlOK /\ Progress /\ rowLen \in Nat
  BY Items DEF IInv, TypeOK, CallOK, InfosOK
<1>0. Columns \in Nat /\ Columns <= N /\ k \in Nat
  BY <1>1, Sums DEF ControlOK
<1>2. CASE ReserveTableName \/ ReserveName
  BY <1>2, LengthKept DEF ReserveTableName, ReserveName, Goto, Stay, infos
<1>3. CASE ReserveDone
  <2>1. tab' = tab /\ Upto(0) = 0 /\ CellStart[0] = 0
    BY <1>1, <1>3, Sums, RowSame DEF ReserveDone, Upto
  <2>2. rowLen' = 0 /\ pc' = "infos" /\ k' = 1 /\ row' = 1 /\ col' = 1
    BY <1>3 DEF ReserveDone, Goto, LengthInv, infos, rowAt, RowsLater, Phases
  <2>3. CellStart' = CellStart /\ Upto(0)' = Upto(0)
    BY <1>1, <1>3, RowSame DEF ReserveDone
  <2>4. rowLen' = CellStart'[Upto(k - 1)']
    BY <2>1, <2>2, <2>3 DEF Upto
  <2> QED BY <2>2, <2>4 DEF LengthInv, WritePhases
<1>4. CASE AddInfo
  <2>1. /\ k \in 1..N /\ pc = "infos" /\ pc' = "infos" /\ k' = k + 1
        /\ rowLen' = CellStart[Upto(k - 1)] + DataSize(tab, k)
        /\ row' = 1 /\ col' = 1
    BY <1>1, <1>4 DEF AddInfo, Stay, LengthInv, rowAt, Progress, RowsLater, Phases
  <2>2. CellStart' = CellStart /\ \A j : Upto(j)' = Upto(j)
    BY <1>1, <1>4, RowSame DEF AddInfo
  <2>3. CellStart[Upto(k - 1)] + DataSize(tab, k) = CellStart[Upto(k)]
    <3>1. CASE k <= Columns
      <4>1. Upto(k - 1) = k - 1 /\ Upto(k) = k /\ k \in 1..Columns
        BY <1>0, <1>1, <2>1, <3>1 DEF Upto
      <4>2. PICK n \in Nat \ {0} : n = tab.columns[k].count
        BY <1>1, <4>1, Sums
      <4>3. PICK w \in {1, 2, 4} : w = tab.columns[k].width
        BY <1>1, <4>1, Sums
      <4>4. CellStart[k] = CellStart[k - 1] + n * w
        BY <1>1, <4>1, <4>2, <4>3, Sums
      <4>5. DataSize(tab, k) = w * (IF n > 1 THEN n ELSE 1)
        BY <1>1, <2>1, <3>1, <4>2, <4>3, Sums DEF DataSize, IsFlag, Columns
      <4>6. w * (IF n > 1 THEN n ELSE 1) = n * w
        <5>1. (IF n > 1 THEN n ELSE 1) = n
          BY <4>2
        <5> QED BY <4>2, <4>3, <5>1
      <4> QED BY <4>1, <4>4, <4>5, <4>6
    <3>2. CASE ~(k <= Columns)
      <4>1. Upto(k - 1) = Columns /\ Upto(k) = Columns /\ Columns \in 0..Columns
        BY <1>0, <1>1, <2>1, <3>2 DEF Upto
      <4>2. CellStart[Columns] \in Nat
        BY <1>1, <4>1, Sums
      <4>3. DataSize(tab, k) = 0
        BY <1>1, <2>1, <3>2, Sums DEF DataSize, IsFlag, Columns
      <4> QED BY <4>1, <4>2, <4>3
    <3> QED BY <3>1, <3>2
  <2>4. rowLen' = CellStart'[Upto(k - 1)']
    <3>1. k' - 1 = k
      BY <2>1
    <3> QED BY <2>1, <2>2, <2>3, <3>1 DEF Upto
  <2> QED BY <2>1, <2>4 DEF LengthInv, WritePhases
<1>5. CASE InfosDone
  <2>1. /\ k = N + 1 /\ pc = "infos" /\ pc' = "nodes"
        /\ rowLen' = CellStart[Upto(k - 1)] /\ row' = 1 /\ col' = 1
    BY <1>1, <1>5 DEF InfosDone, Goto, LengthInv, rowAt, Progress, RowsLater, Phases
  <2>2. Upto(k - 1) = Columns
    BY <1>0, <1>1, <2>1 DEF Upto
  <2>3. CellStart' = CellStart /\ Columns' = Columns
    BY <1>1, <1>5, RowSame DEF InfosDone
  <2> QED BY <2>1, <2>2, <2>3 DEF LengthInv
<1>6. CASE AddNode
  <2>1. pc = "nodes" /\ pc' \in {"nodes", "error", "panicNode"}
    BY <1>6 DEF AddNode, Goto, Stay
  <2> QED BY <1>6, <2>1, LengthKept DEF AddNode, infos, WritePhases, RowsLater, Phases
<1>7. CASE NodesDone
  BY <1>7, LengthKept DEF NodesDone, Goto, infos, WritePhases, RowsLater, Phases
<1>8. CASE WriteStep \/ PatchStep
  <2>1. UNCHANGED <<input, rowLen>>
    BY <1>8, InfosFixed DEF infos
  <2>2. /\ pc \in WritePhases /\ pc' \in WritePhases \cup {"error"}
        /\ pc \notin RowsLater => pc' \notin RowsLater
        /\ pc' \in RowsLater => UNCHANGED rowAt
    <3>1. CASE WriteInfo \/ WriteInfosDone \/ WriteName \/ WriteWiiNode \/ WriteNamesDone
      BY <3>1 DEF WriteInfo, WriteInfosDone, WriteName, WriteWiiNode, WriteNamesDone,
                  Goto, Stay, WritePhases, RowsLater, Phases
    <3>2. CASE WriteNode \/ WriteNodesDone \/ WriteFirstLevel \/ LinkNodes
      BY <3>2 DEF WriteNode, WriteNodesDone, WriteFirstLevel, LinkNodes,
                  Goto, Stay, WritePhases, RowsLater, Phases
    <3>3. CASE WriteValue \/ RowDone \/ RowsDone
      BY <3>3 DEF WriteValue, RowDone, RowsDone, Goto, WritePhases, RowsLater, Phases
    <3>4. CASE WriteString \/ StringsDone \/ PatchStep
      BY <3>4 DEF WriteString, StringsDone, PatchStep, WriteHeader, Rescramble,
                  Goto, Stay, WritePhases, RowsLater, Phases
    <3> QED BY <1>8, <3>1, <3>2, <3>3, <3>4 DEF WriteStep
  <2> QED BY <2>1, <2>2, LengthSame
<1>9. CASE UNCHANGED vars
  BY <1>9, LengthKept DEF vars, infos
<1> QED BY <1>2, <1>3, <1>4, <1>5, <1>6, <1>7, <1>8, <1>9, Zenon DEF Next, LayoutStep, Returned

(* From one value of a row to the next, or to the next column. *)
LEMMA NextValue ==
  ASSUME CallOK, rowLen \in Nat, rowOffset \in Nat, row \in Nat \ {0},
         NEW c \in 0..Columns, NEW i \in Nat, AtValue(c, i),
         NEW cells, FitsColumns(cells), NEW n, n = Len(cells), n \in Nat, col <= n
  PROVE  /\ c < Columns /\ cells[col].width = tab.columns[c + 1].width
         /\ col \in Nat /\ pos \in Nat
         /\ (col' = col + 1 /\ pos' = pos + cells[col].width
               /\ UNCHANGED <<input, row, rowLen, rowOffset>>)
            => \E d \in 0..Columns, j \in Nat : AtValue(d, j)'
<1> DEFINE count == tab.columns[c + 1].count
           width == tab.columns[c + 1].width
           end == ValueEnd[c]
           start == CellStart[c]
<1>1. Columns \in Nat /\ end \in Nat /\ start \in Nat /\ n = ValueEnd[Columns]
  BY Sums DEF FitsColumns, Columns
<1>2. c < Columns
  BY <1>1 DEF AtValue
<1>3. c + 1 \in 1..Columns /\ c + 1 - 1 = c /\ c + 1 \in 0..Columns
  BY <1>1, <1>2
<1>4. /\ count \in Nat \ {0} /\ width \in {1, 2, 4}
      /\ ValueEnd[c + 1] = end + count /\ CellStart[c + 1] = start + count * width
      /\ ValueEnd[c + 1] <= n
  <2>1. PICK q \in 1..Columns : q = c + 1
    BY <1>3
  <2>2. /\ tab.columns[q].count \in Nat \ {0} /\ tab.columns[q].width \in {1, 2, 4}
        /\ ValueEnd[q] = ValueEnd[q - 1] + tab.columns[q].count
        /\ CellStart[q] = CellStart[q - 1] + tab.columns[q].count * tab.columns[q].width
    BY Sums
  <2>3. ValueEnd[c + 1] <= ValueEnd[Columns]
    BY <1>3, Sums
  <2> QED BY <1>1, <1>3, <2>1, <2>2, <2>3
<1>5. i < count /\ col = end + i + 1 /\ pos = RowBegin(row) + start + i * width
  BY <1>2 DEF AtValue
<1> HIDE DEF count, width, end, start
<1>6. cells[col].width = width
  <2>1. col \in (ValueEnd[c + 1 - 1] + 1)..ValueEnd[c + 1]
    BY <1>1, <1>3, <1>4, <1>5 DEF end
  <2> QED BY <1>3, <2>1 DEF FitsColumns, Columns, width
<1>7. PICK b \in Nat : b = RowBegin(row)
  BY DEF RowBegin
<1>8. pos \in Nat /\ col \in Nat
  BY <1>1, <1>4, <1>5, <1>7
<1>9. ASSUME col' = col + 1, pos' = pos + cells[col].width,
             UNCHANGED <<input, row, rowLen, rowOffset>>
      PROVE  \E d \in 0..Columns, j \in Nat : AtValue(d, j)'
  <2>1. tab' = tab /\ Columns' = Columns /\ ValueEnd' = ValueEnd /\ CellStart' = CellStart
    BY <1>9, RowSame
  <2>2. RowBegin(row)' = b
    BY <1>7, <1>9 DEF RowBegin
  <2>3. pos' = b + start + (i + 1) * width /\ col' = end + (i + 1) + 1
    BY <1>1, <1>4, <1>5, <1>6, <1>7, <1>9
  <2>4. CASE i + 1 < count
    <3>1. AtValue(c, i + 1)'
      BY <1>2, <2>1, <2>2, <2>3, <2>4 DEF AtValue, width, count, end, start
    <3> QED BY <3>1
  <2>5. CASE ~(i + 1 < count)
    <3>1. i + 1 = count
      BY <1>4, <1>5, <2>5
    <3>2. pos' = b + CellStart[c + 1] /\ col' = ValueEnd[c + 1] + 1
      BY <1>1, <1>4, <2>3, <3>1
    <3>3. PICK q \in 0..Columns : q = c + 1
      BY <1>3
    <3>4. q # Columns => 0 < tab.columns[q + 1].count /\ 0 * tab.columns[q + 1].width = 0
      <4> SUFFICES ASSUME q # Columns
                   PROVE  0 < tab.columns[q + 1].count /\ 0 * tab.columns[q + 1].width = 0
        OBVIOUS
      <4>1. PICK r \in 1..Columns : r = q + 1
        BY <1>1, <3>3
      <4>2. tab.columns[r].count \in Nat \ {0} /\ tab.columns[r].width \in {1, 2, 4}
        BY Sums
      <4> QED BY <4>1, <4>2
    <3>5. CellStart[q] \in Nat /\ ValueEnd[q] \in Nat
      BY Sums
    <3>6. AtValue(q, 0)'
      BY <2>1, <2>2, <3>2, <3>3, <3>4, <3>5 DEF AtValue
    <3> QED BY <3>6
  <2> QED BY <2>4, <2>5
<1> QED BY <1>2, <1>6, <1>8, <1>9 DEF width

LEMMA InputFixed == [Next]_vars => UNCHANGED input
<1>1. LayoutStep => UNCHANGED input
  BY ZenonT(60) DEF LayoutStep, ReserveTableName, ReserveName, ReserveDone, AddInfo, InfosDone,
     AddNode, NodesDone
<1>2. WriteStep \/ PatchStep => UNCHANGED input
  BY InfosFixed
<1>3. UNCHANGED vars => UNCHANGED input
  BY DEF vars
<1> QED BY <1>1, <1>2, <1>3, Zenon DEF Next, Returned

LEMMA RowsBehindKept ==
  ASSUME UNCHANGED <<input, marks, rowLen>>, NEW n, RowsBehind(n)
  PROVE  RowsBehind(n)'
BY DEF RowsBehind, RowBegin, marks

LEMMA CursorStep == IInv /\ LengthInv /\ WellFormed /\ CursorInv /\ [Next]_vars => CursorInv'
<1> SUFFICES ASSUME IInv, LengthInv, WellFormed, CursorInv, [Next]_vars PROVE CursorInv'
  OBVIOUS
<1>1. /\ CallOK /\ ControlOK /\ rowLen \in Nat /\ rowOffset \in Nat /\ pos \in Nat /\ NatFun(rowStart)
      /\ Len(tab.rows) \in Nat
  BY Sums DEF IInv, TypeOK, InfosOK, MarksOK, ImageOK
<1>2. CASE \/ LayoutStep \/ WriteInfo \/ WriteInfosDone \/ WriteName \/ WriteWiiNode
           \/ WriteNamesDone \/ WriteNode \/ WriteNodesDone \/ WriteFirstLevel
  <2>1. CASE LayoutStep
    BY <2>1 DEF LayoutStep, ReserveTableName, ReserveName, ReserveDone, AddInfo, InfosDone,
       AddNode, NodesDone, Goto, Stay, CursorInv
  <2>2. CASE WriteInfo \/ WriteInfosDone \/ WriteName \/ WriteWiiNode
    BY <2>2 DEF WriteInfo, WriteInfosDone, WriteName, WriteWiiNode, Goto, Stay, CursorInv
  <2>3. CASE WriteNamesDone \/ WriteNode \/ WriteNodesDone \/ WriteFirstLevel
    BY <2>3 DEF WriteNamesDone, WriteNode, WriteNodesDone, WriteFirstLevel, Goto, Stay, CursorInv
  <2> QED BY <1>2, <2>1, <2>2, <2>3
<1>3. CASE LinkNodes
  <2>1. /\ pc = "link" /\ pc' = "rows" /\ rowOffset' = pos /\ pos' = pos
        /\ rowStart' = Extend(rowStart, 1, pos)
        /\ row = 1 /\ col = 1 /\ row' = 1 /\ col' = 1
        /\ UNCHANGED <<input, rowLen>>
    BY <1>3 DEF LinkNodes, Goto, infos, rowAt, LengthInv, RowsLater, Phases
  <2>2. tab' = tab /\ Columns' = Columns /\ ValueEnd' = ValueEnd /\ CellStart' = CellStart
    BY <2>1, RowSame
  <2>3. RowBegin(1)' = pos
    BY <1>1, <2>1 DEF RowBegin
  <2>4. RowsBehind(1)'
    <3>1. 1 \in DOMAIN rowStart' /\ rowStart'[1] = pos
      BY <2>1 DEF Extend
    <3> QED BY <2>3, <3>1 DEF RowsBehind
  <2>5. AtValue(0, 0)'
    <3>1. /\ ValueEnd[0] = 0 /\ CellStart[0] = 0 /\ Columns \in Nat
          /\ Columns # 0 => 1 \in 1..Columns /\ tab.columns[1].count \in Nat \ {0}
                            /\ tab.columns[1].width \in {1, 2, 4}
      BY <1>1, Sums
    <3>2. Columns # 0 => 0 < tab.columns[0 + 1].count /\ 0 * tab.columns[0 + 1].width = 0
      BY <3>1
    <3>3. RowBegin(row)' = pos
      BY <2>1, <2>3
    <3> QED BY <1>1, <2>1, <2>2, <3>1, <3>2, <3>3 DEF AtValue
  <2>6. IF 1 > Len(tab.rows) THEN pos' = RowBegin(1)'
        ELSE \E c \in 0..Columns, i \in Nat : AtValue(c, i)'
    <3>1. 0 \in 0..Columns /\ 0 \in Nat
      BY <1>1, Sums
    <3> QED BY <2>1, <2>3, <2>5, <3>1
  <2> QED BY <1>1, <2>1, <2>2, <2>3, <2>4, <2>6 DEF CursorInv
<1>4. CASE WriteValue
  <2>1. /\ pc = "rows" /\ pc' = "rows" /\ row <= Len(tab.rows) /\ row' = row
        /\ col <= Len(tab.rows[row]) /\ col' = col + 1
        /\ pos' = pos + tab.rows[row][col].width
        /\ UNCHANGED <<input, rowLen, rowOffset, marks>>
    BY <1>4 DEF WriteValue, infos, marks
  <2>2. row \in 1..Len(tab.rows) /\ RowsBehind(row) /\ row \in Nat \ {0}
    BY <1>1, <2>1 DEF CursorInv
  <2>3. PICK c \in 0..Columns, i \in Nat : AtValue(c, i)
    BY <1>1, <2>1, <2>2 DEF CursorInv
  <2>4. FitsColumns(tab.rows[row])
    BY <2>2 DEF WellFormed
  <2>5. PICK n : n = Len(tab.rows[row])
    OBVIOUS
  <2>6. n \in Nat
    BY <1>1, <2>4, <2>5, Sums DEF FitsColumns, Columns
  <2>7. \E d \in 0..Columns, j \in Nat : AtValue(d, j)'
    BY <1>1, <2>1, <2>2, <2>3, <2>4, <2>5, <2>6, NextValue
  <2>8. tab' = tab /\ Columns' = Columns /\ RowsBehind(row)'
    BY <2>1, <2>2, RowSame, RowsBehindKept DEF RowsBehind, RowBegin, marks
  <2> QED BY <1>1, <2>1, <2>2, <2>7, <2>8 DEF CursorInv
<1>5. CASE RowDone
  <2>1. /\ pc = "rows" /\ pc' = "rows" /\ row <= Len(tab.rows) /\ row' = row + 1
        /\ col > Len(tab.rows[row]) /\ col' = 1 /\ pos' = pos
        /\ rowStart' = Extend(rowStart, row + 1, pos)
        /\ UNCHANGED <<input, rowLen, rowOffset>>
    BY <1>5 DEF RowDone, infos
  <2>2. row \in 1..Len(tab.rows) /\ RowsBehind(row) /\ row \in Nat \ {0} /\ col \in Nat
    BY <1>1, <2>1 DEF CursorInv, ControlOK
  <2>3. PICK c \in 0..Columns, i \in Nat : AtValue(c, i)
    BY <1>1, <2>1, <2>2 DEF CursorInv
  <2>4. FitsColumns(tab.rows[row])
    BY <2>2 DEF WellFormed
  <2>5. col > ValueEnd[Columns]
    BY <2>1, <2>4 DEF FitsColumns, Columns
  <2>6. c = Columns
    <3> SUFFICES ASSUME c # Columns PROVE FALSE
      OBVIOUS
    <3>1. PICK q \in 1..Columns : q = c + 1 /\ q - 1 = c
      BY <1>1, Sums
    <3>2. ValueEnd[q] = ValueEnd[q - 1] + tab.columns[q].count
          /\ ValueEnd[q] \in Nat /\ ValueEnd[c] \in Nat /\ tab.columns[q].count \in Nat
          /\ ValueEnd[q] <= ValueEnd[Columns] /\ ValueEnd[Columns] \in Nat
      <4>1. /\ ValueEnd[q] = ValueEnd[q - 1] + tab.columns[q].count
            /\ tab.columns[q].count \in Nat
        BY <1>1, Sums
      <4>2. /\ ValueEnd[Columns] \in Nat /\ ValueEnd[c] \in Nat
            /\ \A x \in 0..Columns : ValueEnd[x] \in Nat /\ ValueEnd[x] <= ValueEnd[Columns]
        <5>1. /\ Columns \in Nat /\ ValueEnd \in [0..Columns -> Nat]
              /\ \A x \in 0..Columns : ValueEnd[x] <= ValueEnd[Columns]
          BY <1>1, Sums
        <5> QED BY <5>1
      <4>3. q \in 0..Columns
        BY <3>1
      <4> QED BY <4>1, <4>2, <4>3
    <3>3. col = ValueEnd[c] + i + 1 /\ i < tab.columns[q].count
      BY <2>3, <3>1 DEF AtValue
    <3> QED BY <2>5, <3>1, <3>2, <3>3
  <2>7. pos = RowBegin(row) + rowLen
    <3>1. pos = RowBegin(row) + CellStart[Columns] + 0
      BY <2>3, <2>6 DEF AtValue
    <3>2. CellStart[Columns] = rowLen
      BY <2>1 DEF LengthInv, WritePhases
    <3> QED BY <1>1, <2>2, <3>1, <3>2 DEF RowBegin
  <2>8. PICK r \in Nat : r = row
    BY <2>2
  <2>9. RowBegin(r + 1) = pos
    <3>1. rowLen * (r + 1 - 1) = rowLen * (r - 1) + rowLen
      BY <1>1, <2>8
    <3> QED BY <1>1, <2>7, <2>8, <3>1 DEF RowBegin
  <2>10. \A j : RowBegin(j)' = RowBegin(j)
    BY <2>1 DEF RowBegin
  <2>11. RowsBehind(r + 1)'
    <3>1. \A j \in 1..r : j \in DOMAIN rowStart /\ rowStart[j] = RowBegin(j)
      BY <2>2, <2>8 DEF RowsBehind
    <3>2. /\ r + 1 \in DOMAIN rowStart' /\ rowStart'[r + 1] = pos
          /\ \A j \in 1..r : j \in DOMAIN rowStart' /\ rowStart'[j] = rowStart[j]
      BY <2>1, <2>8, <3>1 DEF Extend
    <3>3. \A j \in 1..(r + 1) : j \in 1..r \/ j = r + 1
      OBVIOUS
    <3> QED BY <2>8, <2>9, <2>10, <3>1, <3>2, <3>3 DEF RowsBehind
  <2>12. r + 1 <= Len(tab.rows) => \E d \in 0..Columns, j \in Nat : AtValue(d, j)'
    <3>1. AtValue(0, 0)'
      <4>1. /\ ValueEnd[0] = 0 /\ CellStart[0] = 0 /\ Columns \in Nat
            /\ Columns # 0 => 1 \in 1..Columns /\ tab.columns[1].count \in Nat \ {0}
                              /\ tab.columns[1].width \in {1, 2, 4}
        BY <1>1, Sums
      <4>2. Columns # 0 => 0 < tab.columns[0 + 1].count /\ 0 * tab.columns[0 + 1].width = 0
        BY <4>1
      <4>3. RowBegin(row)' = pos
        BY <2>1, <2>8, <2>9, <2>10
      <4>4. tab' = tab /\ Columns' = Columns /\ ValueEnd' = ValueEnd /\ CellStart' = CellStart
        BY <2>1, RowSame
      <4> QED BY <1>1, <2>1, <4>1, <4>2, <4>3, <4>4 DEF AtValue
    <3>2. 0 \in 0..Columns /\ 0 \in Nat
      BY <1>1, Sums
    <3> QED BY <3>1, <3>2
  <2>13. tab' = tab /\ Columns' = Columns
    BY <2>1, RowSame
  <2>14. row' = r + 1 /\ r + 1 \in 1..(Len(tab.rows) + 1) /\ RowBegin(row)' = pos
    BY <1>1, <2>1, <2>2, <2>8, <2>9, <2>10
  <2> QED BY <1>1, <2>1, <2>11, <2>12, <2>13, <2>14 DEF CursorInv
<1>6. CASE RowsDone
  <2>1. /\ pc = "rows" /\ row > Len(tab.rows)
        /\ UNCHANGED <<input, marks, rowLen>>
        /\ \/ TotalRowSize = PadTo(32, pos - rowOffset) /\ pc' = "strings"
           \/ TotalRowSize # PadTo(32, pos - rowOffset)
    BY <1>6 DEF RowsDone, Goto, infos
  <2>2. row = Len(tab.rows) + 1 /\ RowsBehind(row) /\ pos = RowBegin(row)
    BY <1>1, <2>1 DEF CursorInv
  <2>3. pos - rowOffset = rowLen * Len(tab.rows)
    <3>1. PICK n \in Nat : n = Len(tab.rows)
      BY <1>1
    <3>2. pos = rowOffset + rowLen * (n + 1 - 1) /\ n + 1 - 1 = n
      BY <2>2, <3>1 DEF RowBegin
    <3>3. rowLen * n \in Nat
      BY <1>1, <3>1
    <3> QED BY <1>1, <3>1, <3>2, <3>3
  <2>4. pc' = "strings"
    BY <2>1, <2>3 DEF TotalRowSize
  <2>5. RowsBehind(Len(tab.rows))'
    <3>1. \A i \in 1..Len(tab.rows) : i \in 1..row
      BY <1>1, <2>2
    <3>2. RowsBehind(Len(tab.rows))
      BY <2>2, <3>1 DEF RowsBehind
    <3>3. tab' = tab
      BY <2>1, RowSame
    <3> QED BY <2>1, <3>2, <3>3, RowsBehindKept DEF RowsBehind, RowBegin, marks
  <2> QED BY <2>4, <2>5 DEF CursorInv
<1>7. CASE WriteString \/ StringsDone \/ PatchStep
  <2>1. /\ pc \in {"strings", "header", "scramble"}
        /\ pc' \in {"strings", "header", "scramble", "done", "error"}
        /\ UNCHANGED <<input, rowOffset, rowStart, rowLen>>
    BY <1>7 DEF WriteString, StringsDone, PatchStep, WriteHeader, Rescramble, Goto, Stay, marks, infos
  <2>2. RowsBehind(Len(tab.rows))'
    <3>1. tab' = tab
      BY <2>1, RowSame
    <3> QED BY <2>1, <3>1 DEF CursorInv, RowsBehind, RowBegin
  <2> QED BY <2>1, <2>2 DEF CursorInv
<1>8. CASE UNCHANGED vars
  <2>1. UNCHANGED <<input, pc, row, col, pos, rowOffset, rowStart, rowLen>>
    BY <1>8 DEF vars, rowAt, infos, marks
  <2>2. tab' = tab /\ Columns' = Columns /\ ValueEnd' = ValueEnd /\ CellStart' = CellStart
    BY <2>1, RowSame
  <2>3. (\A c, i : AtValue(c, i)' = AtValue(c, i)) /\ \A n : RowBegin(n)' = RowBegin(n)
    BY <2>1, <2>2 DEF AtValue, RowBegin
  <2>4. \A n : RowsBehind(n)' = RowsBehind(n)
    BY <2>1, <2>3 DEF RowsBehind
  <2>5. (RowBegin(row))' = RowBegin(row) /\ (RowsBehind(row))' = RowsBehind(row)
        /\ (RowsBehind(Len(tab.rows)))' = RowsBehind(Len(tab.rows))
    BY <2>1, <2>2 DEF RowsBehind, RowBegin
  <2> QED BY <2>1, <2>2, <2>3, <2>5 DEF CursorInv
<1> QED BY <1>2, <1>3, <1>4, <1>5, <1>6, <1>7, <1>8, Zenon DEF Next, WriteStep, Returned

(* Whatever the table: if its rows fit its columns, the assertion on their *)
(* size holds, and a reader that multiplies the length of a row finds      *)
(* each of them.                                                           *)
THEOREM AlignmentCorrect == Spec => []RowsAligned
<1>1. Init => IInv /\ RowInv
  BY InitOK, RowInit
<1>2. IInv /\ RowInv /\ [Next]_vars => (IInv /\ RowInv)'
  <2> SUFFICES ASSUME IInv, RowInv, [Next]_vars PROVE IInv' /\ RowInv'
    OBVIOUS
  <2>1. WellFormed' = WellFormed
    BY RowSame, InputFixed
  <2> QED BY <2>1, StepOK, LengthStep, CursorStep DEF RowInv
<1>3. IInv /\ RowInv => RowsAligned
  <2> SUFFICES ASSUME IInv, RowInv, WellFormed
               PROVE  /\ pc # "panicRows"
                      /\ Written => \A i \in 1..Len(tab.rows) :
                                      rowStart[i] = rowOffset + (i - 1) * rowLen
    BY DEF RowsAligned
  <2>1. CursorInv /\ rowLen \in Nat
    BY DEF RowInv, IInv, TypeOK, InfosOK
  <2>2. ASSUME Written, NEW i \in 1..Len(tab.rows)
        PROVE  rowStart[i] = rowOffset + (i - 1) * rowLen
    <3>1. rowStart[i] = rowOffset + rowLen * (i - 1)
      BY <2>1, <2>2 DEF CursorInv, RowsBehind, RowBegin, Written
    <3> QED BY <2>1, <3>1
  <2> QED BY <2>1, <2>2 DEF CursorInv
<1> QED BY <1>1, <1>2, <1>3, PTL DEF Spec
-----------------------------------------------------------------------------
(* The flags of one column are next to each other.                         *)
FlagBlock(t, c, l, r) ==
  /\ l \in 0..Len(t.flags) /\ r \in l..Len(t.flags)
  /\ \A i \in 1..Len(t.flags) : t.flags[i].parent = c <=> l < i /\ i <= r

LEMMA OwnFlagsAre ==
  ASSUME NEW t, NEW c, t.flags \in Seq(Flag), NEW l, NEW r, FlagBlock(t, c, l, r)
  PROVE  OwnFlags(t, c) = [q \in 1..(r - l) |-> t.flags[l + q]]
<1> DEFINE e == t.flags
           n == Len(e)
           P == {i \in 1..n : e[i].parent = c}
           s == [i \in 1..n |-> IF i \in P THEN <<e[i]>> ELSE <<>>]
<1>1. n \in Nat
  OBVIOUS
<1>2. OwnFlags(t, c) = FlattenSeq(s)
  <2>1. s = [i \in 1..n |-> IF e[i].parent = c THEN <<e[i]>> ELSE <<>>]
    OBVIOUS
  <2> HIDE DEF s
  <2> QED BY <2>1 DEF OwnFlags
<1>3. /\ \E V : FlattenSeq(s) \in Seq(V)
      /\ \E picks : Selects(picks, FlattenSeq(s), P, e, n)
  <2> HIDE DEF P, e, n
  <2> QED BY <1>1, FlattenSome
<1>4. PICK V : FlattenSeq(s) \in Seq(V)
  BY <1>3
<1>5. PICK where : Selects(where, FlattenSeq(s), P, e, n)
  BY <1>3
<1>6. \A i \in 1..n : i \in P <=> l < i /\ i <= r
  BY DEF FlagBlock
<1> HIDE DEF s, P
<1>7. PICK u \in Seq(V) : u = FlattenSeq(s)
  BY <1>4
<1>8. Len(u) = r - l /\ \A q \in 1..Len(u) : u[q] = e[l + q]
  <2>1. l \in 0..n /\ r \in l..n
    BY DEF FlagBlock
  <2>2. Selects(where, u, P, e, n)
    BY <1>5, <1>7
  <2>3. u \in Seq(V)
    BY <1>7
  <2> HIDE DEF e, n
  <2>4. Len(u) = r - l
    BY ONLY <1>1, <1>6, <2>1, <2>2, <2>3, SelectsBlock, ZenonT(30)
  <2>5. \A q \in 1..Len(u) : u[q] = e[l + q]
    BY ONLY <1>1, <1>6, <2>1, <2>2, <2>3, SelectsBlock, ZenonT(30)
  <2> QED BY <2>4, <2>5
<1>9. u = [q \in 1..Len(u) |-> u[q]]
  BY <1>7
<1> QED BY <1>2, <1>7, <1>8, <1>9

(* The heads of the slots that are not empty.                              *)
LEMMA HeadsAre ==
  ASSUME NEW n \in Nat, NEW e \in [1..n -> Nat], NEW h,
         \A i \in 1..n : h[i] = IF e[i] = 0 THEN <<>> ELSE <<e[i]>>,
         h = [i \in 1..n |-> h[i]]
  PROVE  FlattenSeq(h) \in Seq(Nat) /\ ToSet(FlattenSeq(h)) = {e[i] : i \in 1..n} \ {0}
<1> DEFINE P == {i \in 1..n : e[i] # 0}
           t == FlattenSeq(h)
<1>1. h = [i \in 1..n |-> IF i \in P THEN <<e[i]>> ELSE <<>>]
  OBVIOUS
<1>2. (\E V : t \in Seq(V)) /\ \E picks : Selects(picks, t, P, e, n)
  <2> HIDE DEF P
  <2> QED BY <1>1, FlattenSome
<1>3. PICK V : t \in Seq(V)
  BY <1>2
<1>4. PICK where : Selects(where, t, P, e, n)
  BY <1>2
<1> HIDE DEF t
<1>5. ASSUME NEW q \in 1..Len(t) PROVE t[q] = e[where[q]] /\ where[q] \in P
  BY <1>4 DEF Selects
<1>6. t \in Seq(Nat)
  <2>1. \A q \in 1..Len(t) : t[q] \in Nat
    BY <1>5
  <2>2. Len(t) \in Nat /\ t = [q \in 1..Len(t) |-> t[q]]
    BY <1>3
  <2>3. t \in [1..Len(t) -> Nat]
    BY <2>1, <2>2
  <2> QED BY <2>2, <2>3
<1>7. ToSet(t) = {t[q] : q \in 1..Len(t)}
  <2>1. DOMAIN t = 1..Len(t)
    BY <1>6
  <2> QED BY <2>1 DEF ToSet
<1>8. ASSUME NEW x \in ToSet(t) PROVE x \in {e[i] : i \in 1..n} \ {0}
  <2>1. PICK q \in 1..Len(t) : x = t[q]
    BY <1>7
  <2> QED BY <1>5, <2>1
<1>9. ASSUME NEW x \in {e[i] : i \in 1..n} \ {0} PROVE x \in ToSet(t)
  <2>1. PICK i \in 1..n : x = e[i] /\ i \in P
    OBVIOUS
  <2>2. PICK q \in 1..Len(t) : where[q] = i
    BY <1>4, <2>1 DEF Selects
  <2> QED BY <1>5, <1>7, <2>1, <2>2
<1>10. t \in Seq(Nat) /\ ToSet(t) = {e[i] : i \in 1..n} \ {0}
  BY <1>6, <1>8, <1>9
<1> QED BY <1>10 DEF t

(* A sequence that is in order already is not changed by the sort.         *)
LEMMA SortOfSorted ==
  ASSUME NEW V, NEW seq \in Seq(V), \A i \in 1..Len(seq) : seq[i].parentInfo \in Nat,
         \A i, j \in 1..Len(seq) : i < j => seq[i].parentInfo <= seq[j].parentInfo
  PROVE  Reader!SortFlags(seq) = seq
<1> DEFINE n == Len(seq)
<1>1. n \in Nat /\ seq = [p \in 1..n |-> seq[p]]
  OBVIOUS
<1>2. \A i, j \in 1..n : Reader!InFront(seq, i, j) <=> i < j
  BY DEF Reader!InFront
<1>3. ASSUME NEW j \in 1..n
      PROVE  Cardinality({i \in 1..n : Reader!InFront(seq, i, j)}) = j - 1
  <2>1. {i \in 1..n : Reader!InFront(seq, i, j)} = 1..(j - 1)
    BY <1>1, <1>2
  <2>2. Cardinality(1..(j - 1)) = j - 1
    <3>1. j - 1 \in Nat
      OBVIOUS
    <3> QED BY <3>1, FS_Interval
  <2> QED BY <2>1, <2>2
<1>4. ASSUME NEW p \in 1..n
      PROVE  (CHOOSE j \in 1..n : Cardinality({i \in 1..n : Reader!InFront(seq, i, j)}) = p - 1) = p
  <2>1. \A j \in 1..n : Cardinality({i \in 1..n : Reader!InFront(seq, i, j)}) = p - 1 <=> j = p
    BY <1>1, <1>3
  <2> QED BY <2>1
<1>5. Reader!SortFlags(seq) =
        [p \in 1..n |-> seq[CHOOSE j \in 1..n :
           Cardinality({i \in 1..n : Reader!InFront(seq, i, j)}) = p - 1]]
  BY DEF Reader!SortFlags, Reader!Cardinality, Cardinality
<1>6. Reader!SortFlags(seq) = [p \in 1..n |-> seq[p]]
  BY <1>4, <1>5, Zenon
<1> QED BY <1>1, <1>6

(* The binary search.  f is its function of the size that is left and of   *)
(* the place to start from.                                                *)
Half(size) == size \div 2
Probe(f, pred, size, base) ==
  IF size <= 1 THEN base
  ELSE f[size - Half(size)][IF pred[base + Half(size) + 1] THEN base + Half(size) ELSE base]
IsProbe(f, pred, n, m) ==
  f = [size \in 0..m |-> [base \in 0..(n - size) |-> Probe(f, pred, size, base)]]

LEMMA Halves ==
  ASSUME NEW size \in Nat, size > 1
  PROVE  /\ Half(size) \in 1..(size - 1) /\ size - Half(size) \in 1..(size - 1)
         /\ size - Half(size) \in {Half(size), Half(size) + 1}
BY DEF Half

LEMMA ProbeSteps ==
  ASSUME NEW f, NEW pred, NEW n, NEW m, IsProbe(f, pred, n, m),
         NEW size \in 0..m, NEW base \in 0..(n - size)
  PROVE  f[size][base] = Probe(f, pred, size, base)
<1> DEFINE At(z) == [b \in 0..(n - z) |-> Probe(f, pred, z, b)]
<1>1. f = [z \in 0..m |-> At(z)]
  BY DEF IsProbe
<1>2. f[size] = At(size)
  <2> HIDE DEF At
  <2> QED BY <1>1
<1> QED BY <1>2

LEMMA ProbeExists ==
  ASSUME NEW n \in Nat, NEW pred, NEW m \in Nat, m <= n
  PROVE  \E f : IsProbe(f, pred, n, m)
<1> DEFINE T == {x \in 0..n : ~ \E f : IsProbe(f, pred, n, x)}
<1> SUFFICES ASSUME T # {} PROVE FALSE
  OBVIOUS
<1>1. PICK x \in T : \A i \in T : x <= i
  <2>1. T \subseteq Nat
    OBVIOUS
  <2> HIDE DEF T
  <2> QED BY <2>1, NatMin
<1>2. \E g : \A size \in 0..x : \A base \in 0..(n - size) : size # x =>
               g[size][base] = Probe(g, pred, size, base)
  <2>1. CASE x = 0
    <3>1. \A size \in 0..x : size = x
      BY <2>1
    <3> QED BY <3>1
  <2>2. CASE x # 0
    <3>1. x - 1 \in 0..n /\ x - 1 \notin T
      BY <1>1, <2>2
    <3>2. PICK g : IsProbe(g, pred, n, x - 1)
      BY <3>1
    <3>3. \A size \in 0..x : size # x => size \in 0..(x - 1)
      BY <1>1
    <3>4. \A size \in 0..(x - 1) : \A base \in 0..(n - size) : g[size][base] = Probe(g, pred, size, base)
      BY <3>2, ProbeSteps
    <3> QED BY <3>3, <3>4
  <2> QED BY <2>1, <2>2
<1>3. PICK g : \A size \in 0..x : \A base \in 0..(n - size) : size # x =>
                 g[size][base] = Probe(g, pred, size, base)
  BY <1>2
<1> DEFINE f == [size \in 0..x |-> [base \in 0..(n - size) |->
                   IF size = x THEN Probe(g, pred, size, base) ELSE g[size][base]]]
<1>4. ASSUME NEW size \in 0..x, NEW base \in 0..(n - size)
      PROVE  f[size][base] = Probe(f, pred, size, base)
  <2>1. f[size][base] = Probe(g, pred, size, base)
    BY <1>3
  <2>2. CASE size <= 1
    BY <2>1, <2>2 DEF Probe
  <2>3. CASE ~(size <= 1)
    <3> DEFINE half == Half(size)
               b == IF pred[base + half + 1] THEN base + half ELSE base
    <3>1. half \in 1..(size - 1) /\ size - half \in 1..(size - 1) /\ size \in Nat
      BY <2>3, Halves
    <3> HIDE DEF half
    <3>2. size - half \in 0..x /\ size - half # x /\ b \in 0..(n - (size - half))
      BY <1>1, <3>1
    <3>3. f[size - half][b] = g[size - half][b]
      <4> HIDE DEF b
      <4> QED BY <3>2
    <3> HIDE DEF f
    <3> QED BY <2>1, <2>3, <3>3 DEF Probe, half
  <2> QED BY <2>2, <2>3
<1>5. f = [size \in 0..x |-> [base \in 0..(n - size) |-> f[size][base]]]
  OBVIOUS
<1>6. IsProbe(f, pred, n, x)
  <2> HIDE DEF f
  <2>1. [size \in 0..x |-> [base \in 0..(n - size) |-> f[size][base]]]
         = [size \in 0..x |-> [base \in 0..(n - size) |-> Probe(f, pred, size, base)]]
    BY <1>4
  <2> QED BY <1>5, <2>1 DEF IsProbe
<1> QED BY <1>1, <1>6

LEMMA ProbeEnds ==
  ASSUME NEW n \in Nat, NEW pred \in [1..n -> BOOLEAN], NEW f, IsProbe(f, pred, n, n), n # 0
  PROVE  LET q == f[n][0]
         IN  /\ q \in 0..(n - 1)
             /\ q = 0 \/ pred[q + 1]
             /\ q + 1 = n \/ ~pred[q + 2] \/ ~pred[q + 1]
<1> DEFINE Lower(b) == b = 0 \/ pred[b + 1]
           Upper(e) == e = n \/ ~pred[e + 1] \/ ~pred[e]
           Good(size, base) ==
             size >= 1 /\ Lower(base) /\ Upper(base + size) =>
               /\ f[size][base] \in 0..(n - 1)
               /\ Lower(f[size][base]) /\ Upper(f[size][base] + 1)
           T == {size \in 0..n : \E base \in 0..(n - size) : ~Good(size, base)}
<1>1. \A size \in 0..n : \A base \in 0..(n - size) : f[size][base] = Probe(f, pred, size, base)
  BY ProbeSteps
<1>2. T = {}
  <2> SUFFICES ASSUME T # {} PROVE FALSE
    OBVIOUS
  <2>1. PICK size \in T : \A i \in T : size <= i
    <3>1. T \subseteq Nat
      OBVIOUS
    <3> HIDE DEF T
    <3> QED BY <3>1, NatMin
  <2>2. PICK base \in 0..(n - size) : ~Good(size, base)
    BY <2>1
  <2>3. size \in 0..n /\ size >= 1 /\ Lower(base) /\ Upper(base + size)
    BY <2>1, <2>2
  <2>4. CASE size = 1
    <3>1. f[size][base] = base
      BY <1>1, <2>2, <2>3, <2>4 DEF Probe
    <3>2. base \in 0..(n - 1)
      BY <2>2, <2>4
    <3> QED BY <2>2, <2>3, <2>4, <3>1, <3>2
  <2>5. CASE size # 1
    <3> DEFINE half == Half(size)
               mid == base + half
               b == IF pred[mid + 1] THEN mid ELSE base
    <3>1. /\ half \in 1..(size - 1) /\ size - half \in 1..(size - 1)
          /\ size - half \in {half, half + 1}
      <4>1. size \in Nat /\ size > 1
        BY <2>3, <2>5
      <4> QED BY <4>1, Halves
    <3>2. f[size][base] = f[size - half][b]
      <4>1. f[size][base] = Probe(f, pred, size, base)
        BY <1>1, <2>2, <2>3
      <4>2. ~(size <= 1)
        BY <2>3, <2>5
      <4> QED BY <4>1, <4>2 DEF Probe
    <3> HIDE DEF half
    <3>3. /\ mid \in 1..(n - 1) /\ mid + 1 \in 1..n /\ base \in Nat
          /\ b \in 0..(n - (size - half)) /\ size - half \in 0..n /\ size - half >= 1
      <4>1. base \in Nat /\ base + size <= n /\ size \in Nat /\ half \in Nat
        BY <2>2, <2>3, <3>1
      <4>5. half >= 1 /\ half <= size - 1 /\ n \in Nat
        BY <3>1, <4>1
      <4>2. mid \in 1..(n - 1) /\ mid + 1 \in 1..n
        BY ONLY <4>1, <4>5
      <4>3. size - half \in 0..n /\ size - half >= 1
        BY <3>1, <4>1
      <4>4. mid \in 0..(n - (size - half)) /\ base \in 0..(n - (size - half))
        BY <3>1, <4>1
      <4> QED BY <4>1, <4>2, <4>3, <4>4
    <3>4. Lower(b) /\ Upper(b + (size - half))
      <4>1. CASE pred[mid + 1]
        <5>1. b = mid /\ b + (size - half) = base + size
          BY <2>3, <3>1, <3>3, <4>1
        <5> QED BY <2>3, <4>1, <5>1
      <4>2. CASE ~pred[mid + 1]
        <5>1. b = base
          BY <4>2
        <5>2. CASE size - half = half
          <6>1. b + (size - half) = mid
            BY <5>1, <5>2
          <6> QED BY <2>3, <4>2, <5>1, <6>1
        <5>3. CASE size - half = half + 1
          <6>1. b + (size - half) = mid + 1
            <7>1. half \in Nat /\ base \in Nat
              BY <3>1, <3>3
            <7>2. \A x, y \in Nat : x + (y + 1) = x + y + 1
              OBVIOUS
            <7>3. b + (size - half) = base + (half + 1)
              BY ONLY <5>1, <5>3
            <7> QED BY <7>1, <7>2, <7>3
          <6> QED BY <2>3, <4>2, <5>1, <6>1
        <5> QED BY <3>1, <5>2, <5>3
      <4> QED BY <4>1, <4>2
    <3>5. size - half \notin T
      <4>1. size - half < size
        BY <2>3, <3>1
      <4> HIDE DEF T
      <4> QED BY <2>1, <2>3, <3>1, <4>1
    <3> HIDE DEF b
    <3>6. Good(size - half, b)
      BY <3>3, <3>5
    <3> QED BY <2>2, <3>2, <3>3, <3>4, <3>6
  <2> QED BY <2>4, <2>5
<1>3. n \in 0..n /\ 0 \in 0..(n - n) /\ 0 + n = n
  OBVIOUS
<1>4. Good(n, 0)
  BY <1>2, <1>3
<1>5. Lower(0) /\ Upper(0 + n) /\ n >= 1
  BY <1>3
<1>6. /\ f[n][0] \in 0..(n - 1)
      /\ Lower(f[n][0]) /\ Upper(f[n][0] + 1)
  BY <1>4, <1>5
<1>7. f[n][0] + 1 + 1 = f[n][0] + 2
  BY <1>6
<1> QED BY <1>6, <1>7

(* What partition_point finds is a place where the predicate changes, even *)
(* if it changes more than once.                                           *)
LEMMA PartitionPoints ==
  ASSUME NEW n \in Nat, NEW pred \in [1..n -> BOOLEAN], NEW r, r = Reader!PartitionPoint(pred)
  PROVE  /\ r \in 0..n
         /\ r # 0 => pred[r]
         /\ r # n => ~pred[r + 1]
<1>1. Len(pred) = n /\ (pred = <<>> <=> n = 0)
  OBVIOUS
<1>2. CASE n = 0
  BY <1>1, <1>2 DEF Reader!PartitionPoint
<1>3. CASE n # 0
  <2> DEFINE g == CHOOSE f : IsProbe(f, pred, Len(pred), Len(pred))
             q == g[Len(pred)][0]
  <2>1. IsProbe(g, pred, n, n) /\ q = g[n][0]
    <3>1. \E f : IsProbe(f, pred, Len(pred), Len(pred))
      BY <1>1, ProbeExists
    <3>2. IsProbe(g, pred, Len(pred), Len(pred))
      BY <3>1
    <3> HIDE DEF g
    <3> QED BY <1>1, <3>2
  <2>2. r = IF pred[q + 1] THEN q + 1 ELSE q
    BY <1>1, <1>3, Zenon DEF Reader!PartitionPoint, IsProbe, Probe, Half
  <2> HIDE DEF g
  <2>3. q \in 0..(n - 1) /\ (q = 0 \/ pred[q + 1]) /\ (q + 1 = n \/ ~pred[q + 2] \/ ~pred[q + 1])
    BY <1>3, <2>1, ProbeEnds
  <2> HIDE DEF q
  <2>4. CASE pred[q + 1]
    <3>1. r = q + 1 /\ r + 1 = q + 2
      BY <2>2, <2>3, <2>4
    <3> QED BY <1>3, <2>3, <2>4, <3>1
  <2>5. CASE ~pred[q + 1]
    BY <1>3, <2>2, <2>3, <2>5
  <2> QED BY <2>4, <2>5
<1> QED BY <1>2, <1>3

(* What get_from_parent answers with: nothing, or the whole block of the   *)
(* flags of a column.                                                      *)
IsBlock(seq, info, l, r) ==
  /\ l \in 0..Len(seq) /\ r \in l..Len(seq)
  /\ \A i \in 1..Len(seq) : seq[i].parentInfo = info <=> l < i /\ i <= r

LEMMA FromParentIs ==
  ASSUME NEW V, NEW seq \in Seq(V), \A i \in 1..Len(seq) : seq[i].parentInfo \in Nat,
         \A i, j \in 1..Len(seq) : i < j => seq[i].parentInfo <= seq[j].parentInfo,
         NEW info \in Nat
  PROVE  \/ Len(Reader!FromParent(seq, info)) = 0
         \/ \E l, r : /\ IsBlock(seq, info, l, r)
                      /\ Reader!FromParent(seq, info) = [q \in 1..(r - l) |-> seq[l + q]]
<1> DEFINE n == Len(seq)
           own == [i \in 1..n |-> seq[i].parentInfo = info]
           r == Reader!PartitionPoint(own)
           other == [i \in 1..r |-> seq[i].parentInfo # info]
           l == Reader!PartitionPoint(other)
<1>1. n \in Nat /\ own \in [1..n -> BOOLEAN]
  OBVIOUS
<1>2. r \in 0..n /\ (r # 0 => own[r]) /\ (r # n => ~own[r + 1])
  <2> HIDE DEF own, n
  <2> QED BY <1>1, PartitionPoints
<1>3. Reader!FromParent(seq, info) = SubSeq(seq, l + 1, r)
  BY DEF Reader!FromParent
<1> HIDE DEF r
<1>4. r \in Nat /\ other \in [1..r -> BOOLEAN]
  BY <1>1, <1>2
<1>5. l \in 0..r /\ (l # 0 => other[l]) /\ (l # r => ~other[l + 1])
  <2> HIDE DEF other
  <2> QED BY <1>4, PartitionPoints
<1> HIDE DEF l
<1>9. \A i \in 1..n : own[i] <=> seq[i].parentInfo = info
  OBVIOUS
<1>10. \A i \in 1..r : other[i] <=> seq[i].parentInfo # info
  OBVIOUS
<1> HIDE DEF own, other
<1>6. SubSeq(seq, l + 1, r) = [q \in 1..(r - l) |-> seq[l + q]]
  <2>1. SubSeq(seq, l + 1, r) = [q \in 1..(1 + r - (l + 1)) |-> seq[q + (l + 1) - 1]]
    <3>1. l + 1 \in Int /\ r \in Int
      BY <1>4, <1>5
    <3> QED BY <3>1
  <2>2. 1 + r - (l + 1) = r - l /\ \A q \in 1..(r - l) : q + (l + 1) - 1 = l + q
    BY <1>4, <1>5
  <2> QED BY <2>1, <2>2
<1>7. CASE r = 0
  <2>1. l = 0 /\ r - l = 0
    <3>1. l \in 0..r /\ r \in Nat
      BY <1>4, <1>5
    <3>2. ASSUME NEW x \in Nat, NEW y \in 0..x, x = 0 PROVE y = 0 /\ x - y = 0
      <4>1. y = 0
        BY ONLY y \in 0..x, x = 0
      <4> QED BY ONLY <3>2, <4>1
    <3> QED BY <1>7, <3>1, <3>2, Zenon
  <2>2. Reader!FromParent(seq, info) = [q \in 1..0 |-> seq[l + q]]
    BY <1>3, <1>6, <2>1
  <2>3. Len(Reader!FromParent(seq, info)) = 0
    BY <2>2
  <2> QED BY <2>3
<1>8. CASE r # 0
  <2>1. r \in 1..n /\ seq[r].parentInfo = info
    <3>1. r \in 1..n
      BY <1>1, <1>2, <1>8
    <3> QED BY <1>2, <1>8, <1>9, <3>1
  <2>2. r # n => r + 1 \in 1..n /\ seq[r + 1].parentInfo # info
    <3>1. r # n => r + 1 \in 1..n
      BY <1>1, <1>2
    <3> QED BY <1>2, <1>9, <3>1
  <2>3. l # r /\ l + 1 \in 1..r
    <3>1. l = r => other[r]
      BY <1>5, <1>8
    <3>2. ~other[r]
      <4>1. r \in 1..r
        BY <1>4, <1>8
      <4> QED BY <1>10, <2>1, <4>1
    <3> QED BY <1>4, <1>5, <3>1, <3>2
  <2>4. seq[l + 1].parentInfo = info
    <3>1. ~other[l + 1]
      BY <1>5, <2>3
    <3> QED BY <1>10, <2>3, <3>1
  <2>5. l # 0 => l \in 1..r /\ seq[l].parentInfo # info
    <3>1. l # 0 => l \in 1..r /\ other[l]
      BY <1>4, <1>5
    <3> QED BY <1>10, <3>1
  <2>6. ASSUME NEW i \in 1..n, l < i, i <= r PROVE seq[i].parentInfo = info
    <3>1. l + 1 \in 1..n /\ l + 1 <= i
      BY <1>4, <1>5, <2>1, <2>3, <2>6
    <3>2. seq[l + 1].parentInfo <= seq[i].parentInfo
      BY <2>4, <3>1
    <3>3. seq[i].parentInfo <= seq[r].parentInfo
      BY <2>1, <2>6
    <3> QED BY <2>1, <2>4, <3>2, <3>3
  <2>7. ASSUME NEW i \in 1..n, i <= l PROVE seq[i].parentInfo # info
    <3>1. l # 0 /\ l \in 1..n
      BY <1>4, <1>5, <2>1, <2>7
    <3>2. seq[l].parentInfo < info
      <4>1. seq[l].parentInfo # info /\ seq[l].parentInfo \in Nat
        BY <2>5, <3>1
      <4>2. seq[l].parentInfo <= seq[l + 1].parentInfo
        <5>1. l + 1 \in 1..n /\ l < l + 1
          BY <2>1, <2>3, <3>1
        <5> QED BY <3>1, <5>1
      <4> QED BY <2>4, <4>1, <4>2
    <3>3. seq[i].parentInfo <= seq[l].parentInfo
      BY <2>7, <3>1
    <3> QED BY <3>1, <3>2, <3>3
  <2>8. ASSUME NEW i \in 1..n, r < i PROVE seq[i].parentInfo # info
    <3>1. r # n /\ r + 1 \in 1..n /\ r + 1 <= i
      BY <1>1, <2>1, <2>8
    <3>2. info < seq[r + 1].parentInfo
      <4>1. seq[r + 1].parentInfo # info /\ seq[r + 1].parentInfo \in Nat
        BY <2>2, <3>1
      <4>2. seq[r].parentInfo <= seq[r + 1].parentInfo
        BY <2>1, <3>1
      <4> QED BY <2>1, <4>1, <4>2
    <3>3. seq[r + 1].parentInfo <= seq[i].parentInfo
      BY <3>1
    <3> QED BY <3>1, <3>2, <3>3
  <2>9. \A i \in 1..n : seq[i].parentInfo = info <=> l < i /\ i <= r
    <3>1. \A i \in 1..n : (l < i /\ i <= r) \/ i <= l \/ r < i
      BY <1>4, <1>5
    <3>2. \A i \in 1..n : ~(l < i /\ i <= l) /\ ~(i <= r /\ r < i)
      BY <1>4, <1>5
    <3> QED BY <2>6, <2>7, <2>8, <3>1, <3>2
  <2>10. IsBlock(seq, info, l, r)
    <3>1. l \in 0..n /\ r \in l..n
      BY <1>1, <1>4, <1>5, <2>1
    <3> QED BY <2>9, <3>1 DEF IsBlock
  <2> QED BY <1>3, <1>6, <2>10
<1> QED BY <1>7, <1>8

LEMMA Counted ==
  ASSUME NEW m \in Nat, NEW e, \A i, j \in 1..m : i < j => e[i] # e[j]
  PROVE  \A x \in 0..m : Cardinality({e[i] : i \in 1..x}) = x
<1> SUFFICES ASSUME NEW x \in 0..m
             PROVE  Cardinality({e[i] : i \in 1..x}) = x
  OBVIOUS
<1> DEFINE S == {e[i] : i \in 1..x}
           f == [i \in 1..x |-> e[i]]
<1>1. \A i, j \in 1..x : i # j => e[i] # e[j]
  <2> SUFFICES ASSUME NEW i \in 1..x, NEW j \in 1..x, i # j PROVE e[i] # e[j]
    OBVIOUS
  <2>1. i \in 1..m /\ j \in 1..m /\ (i < j \/ j < i)
    OBVIOUS
  <2> QED BY <2>1
<1>2. f \in Bijection(1..x, S)
  <2>1. f \in [1..x -> S] /\ \A s \in S : \E i \in 1..x : f[i] = s
    OBVIOUS
  <2>2. \A i, j \in 1..x : f[i] = f[j] => i = j
    BY <1>1
  <2>3. DOMAIN f = 1..x
    OBVIOUS
  <2> HIDE DEF f, S
  <2> QED BY <2>1, <2>2, <2>3 DEF Bijection, Injection, Surjection, IsInjective
<1>3. x \in Nat /\ IsFiniteSet(1..x) /\ Cardinality(1..x) = x
  BY FS_Interval
<1> HIDE DEF f, S
<1>4. Cardinality(S) = Cardinality(1..x)
  BY <1>2, <1>3, FS_Bijection DEF ExistsBijection
<1> QED BY <1>3, <1>4 DEF S

(* Sorting undoes any order.                                               *)
LEMMA SortedItems ==
  ASSUME NEW m \in Nat, NEW e, NEW key, \A i \in 1..m : e[i][key] \in Nat,
         \A i, j \in 1..m : i < j => e[i][key] < e[j][key]
  PROVE  Reader!SortedBy({e[i] : i \in 1..m}, key) = [i \in 1..m |-> e[i]]
<1> DEFINE S == {e[i] : i \in 1..m}
           Below(c) == {d \in S : d[key] < c[key]}
<1>1. \A i, j \in 1..m : i < j => e[i] # e[j]
  <2> SUFFICES ASSUME NEW i \in 1..m, NEW j \in 1..m, i < j, e[i] = e[j] PROVE FALSE
    OBVIOUS
  <2>1. e[i][key] < e[j][key] /\ e[i][key] \in Nat
    OBVIOUS
  <2> QED BY <2>1
<1>6. \A x \in 0..m : Cardinality({e[i] : i \in 1..x}) = x
  BY <1>1, Counted
<1>2. Cardinality(S) = m
  <2>1. m \in 0..m
    OBVIOUS
  <2> QED BY <1>6, <2>1
<1>3. ASSUME NEW j \in 1..m PROVE Cardinality(Below(e[j])) = j - 1
  <2>1. \A i \in 1..m : e[i][key] < e[j][key] <=> i < j
    <3> SUFFICES ASSUME NEW i \in 1..m PROVE e[i][key] < e[j][key] <=> i < j
      OBVIOUS
    <3>1. e[i][key] \in Nat /\ e[j][key] \in Nat /\ (i < j \/ i = j \/ j < i)
      OBVIOUS
    <3>2. (i < j => e[i][key] < e[j][key]) /\ (j < i => e[j][key] < e[i][key])
      OBVIOUS
    <3> QED BY <3>1, <3>2
  <2>2. Below(e[j]) = {e[i] : i \in 1..(j - 1)}
    <3>1. ASSUME NEW d \in Below(e[j]) PROVE d \in {e[i] : i \in 1..(j - 1)}
      <4>1. PICK i \in 1..m : d = e[i] /\ d[key] < e[j][key]
        OBVIOUS
      <4>2. i \in 1..(j - 1)
        BY <2>1, <4>1
      <4> QED BY <4>1, <4>2
    <3>2. ASSUME NEW i \in 1..(j - 1) PROVE e[i] \in Below(e[j])
      <4>1. i \in 1..m /\ i < j
        OBVIOUS
      <4> QED BY <2>1, <4>1
    <3> QED BY <3>1, <3>2
  <2>3. j - 1 \in 0..m
    OBVIOUS
  <2>4. Cardinality({e[i] : i \in 1..(j - 1)}) = j - 1
    BY <1>6, <2>3
  <2> HIDE DEF Below
  <2> QED BY <2>2, <2>4
<1>4. ASSUME NEW i \in 1..m
      PROVE  (CHOOSE c \in S : Cardinality(Below(c)) = i - 1) = e[i]
  <2>1. ASSUME NEW c \in S, Cardinality(Below(c)) = i - 1 PROVE c = e[i]
    <3>1. PICK j \in 1..m : c = e[j]
      OBVIOUS
    <3>2. Cardinality(Below(c)) = j - 1
      BY <1>3, <3>1
    <3>3. i = j
      BY <2>1, <3>2
    <3> QED BY <3>1, <3>3
  <2>2. e[i] \in S /\ Cardinality(Below(e[i])) = i - 1
    BY <1>3
  <2> HIDE DEF S, Below
  <2> QED BY <2>1, <2>2
<1>5. Reader!SortedBy(S, key) = [i \in 1..Cardinality(S) |->
                                   CHOOSE c \in S : Cardinality(Below(c)) = i - 1]
  BY DEF Reader!SortedBy, Reader!Cardinality, Cardinality
<1> HIDE DEF S, Below
<1> QED BY <1>2, <1>4, <1>5 DEF S

-----------------------------------------------------------------------------
(* What a reader makes of item j: a column, or a flag.                     *)
Item(j) ==
  [label |-> Label(j), info |-> infoPtr[j], item |-> j, isFlag |-> IsFlag(tab, j),
   offset |-> IF IsFlag(tab, j) THEN 0 ELSE dataOff[j],
   parentInfo |-> IF IsFlag(tab, j) THEN infoPtr[FlagOf(tab, j).parent] ELSE 0]

LEMMA SameHelpers ==
  /\ \A t, j : Reader!IsFlag(t, j) = IsFlag(t, j)
  /\ \A t, j : Reader!ItemLabel(t, j) = ItemLabel(t, j)
  /\ Reader!NodeSize(FALSE) = 6
  /\ \A s : Reader!ToSet(s) = ToSet(s)
  /\ \A s : Reader!FlattenSeq(s) = FlattenSeq(s)
  /\ \A S : Reader!Cardinality(S) = Cardinality(S)
<1>1. \A t, j : Reader!IsFlag(t, j) = IsFlag(t, j)
  BY DEF Reader!IsFlag, IsFlag
<1>2. \A t, j : Reader!ItemLabel(t, j) = ItemLabel(t, j)
  BY DEF Reader!ItemLabel, ItemLabel, Reader!IsFlag, IsFlag, Reader!FlagOf, FlagOf
<1>3. Reader!NodeSize(FALSE) = 6
  BY DEF Reader!NodeSize
<1>4. \A s : Reader!ToSet(s) = ToSet(s)
  BY DEF Reader!ToSet, ToSet
<1>5. \A s : Reader!FlattenSeq(s) = FlattenSeq(s)
  BY DEF Reader!FlattenSeq, FlattenSeq
<1>6. \A S : Reader!Cardinality(S) = Cardinality(S)
  BY DEF Reader!Cardinality, Cardinality
<1> QED BY <1>1, <1>2, <1>3, <1>4, <1>5, <1>6

LEMMA ItemCells ==
  ASSUME AllInv, Success, NEW j \in 1..N
  PROVE  /\ Holds(infoPtr[j], Cell("info", j, InfoVal(j)))
         /\ Holds(NodePtr(j), Cell("nodeInfo", j, infoPtr[j]))
         /\ Holds(NamePtr(j), Cell("name", j, 0))
         /\ ~opt.wii => Holds(NodePtr(j) + 4, Cell("nodeName", j, NamePtr(j)))
BY ImagePointers DEF PointersLand, Success

(* Behind the node of an item the reader finds the item.                   *)
LEMMA ReadsItem ==
  ASSUME AllInv, Success, NEW j \in 1..N
  PROVE  Reader!ReadNode(NodePtr(j)) = Item(j)
<1>1. /\ infoPtr[j] \in DOMAIN buf /\ buf[infoPtr[j]] = Cell("info", j, InfoVal(j))
      /\ NodePtr(j) \in DOMAIN buf /\ buf[NodePtr(j)] = Cell("nodeInfo", j, infoPtr[j])
      /\ NamePtr(j) \in DOMAIN buf /\ buf[NamePtr(j)] = Cell("name", j, 0)
      /\ ~opt.wii => buf[NodePtr(j) + 4] = Cell("nodeName", j, NamePtr(j))
  BY ItemCells DEF Holds
<1>2. j # 0 /\ j > 0
  OBVIOUS
<1>3. Reader!NameAt(NodePtr(j)) = NamePtr(j)
  <2>1. CASE opt.wii
    <3>1. NodePtr(j) = nameBase + nameOff[j] /\ NamePtr(j) = nameBase + nameOff[j] + 4
      BY <1>2, <2>1 DEF NodePtr, NamePtr
    <3> QED BY <2>1, <3>1 DEF Reader!NameAt
  <2>2. CASE ~opt.wii
    BY <1>1, <2>2, CellFields DEF Reader!NameAt
  <2> QED BY <2>1, <2>2
<1>4. Reader!Name(buf[NamePtr(j)].item) = Label(j)
  BY <1>1, <1>2, CellFields, SameHelpers DEF Reader!Name, Label
<1>5. buf[NodePtr(j)].val = infoPtr[j] /\ buf[infoPtr[j]].item = j /\ buf[infoPtr[j]].val = InfoVal(j)
  BY <1>1, CellFields
<1>6. Reader!ReadNode(NodePtr(j)) = Reader!ColumnData(infoPtr[j], Label(j))
  BY <1>3, <1>4, <1>5 DEF Reader!ReadNode
<1>7. Reader!ColumnData(infoPtr[j], Label(j)) =
        [label |-> Label(j), info |-> infoPtr[j], item |-> j, isFlag |-> IsFlag(tab, j),
         offset |-> IF IsFlag(tab, j) THEN 0 ELSE InfoVal(j),
         parentInfo |-> IF IsFlag(tab, j) THEN buf[InfoVal(j)].val ELSE 0]
  BY <1>5, SameHelpers DEF Reader!ColumnData
<1>8. CASE IsFlag(tab, j)
  <2>1. FlagOf(tab, j).parent \in 1..N
    BY <1>8, Items DEF AllInv, SpaceInv, IInv, TypeOK, CallOK
  <2>2. InfoVal(j) = NodePtr(FlagOf(tab, j).parent)
    BY <1>8 DEF InfoVal
  <2>3. buf[NodePtr(FlagOf(tab, j).parent)] = Cell("nodeInfo", FlagOf(tab, j).parent, infoPtr[FlagOf(tab, j).parent])
    BY <2>1, ItemCells DEF Holds
  <2>4. buf[InfoVal(j)].val = infoPtr[FlagOf(tab, j).parent]
    BY <2>2, <2>3, CellFields
  <2> QED BY <1>6, <1>7, <1>8, <2>4 DEF Item
<1>9. CASE ~IsFlag(tab, j)
  <2>1. InfoVal(j) = dataOff[j]
    BY <1>9 DEF InfoVal
  <2> QED BY <1>6, <1>7, <1>9, <2>1 DEF Item
<1> QED BY <1>8, <1>9

(* The links and heads are those of the slots.                             *)
LEMMA ReadsLinks ==
  ASSUME AllInv, Success, NEW s \in DOMAIN chain, NEW i \in 1..Len(chain[s])
  PROVE  Reader!NextNode(chain[s][i]) = NextOf(s, i)
<1>1. Holds(LinkAt(chain[s][i]), Cell("nodeLink", 0, NextOf(s, i)))
  BY DEF AllInv, ImageInv, ThereInv, LinksThere, Success, Linked, AtEnd
<1> QED BY <1>1, CellFields DEF Holds, LinkAt, Reader!NextNode

LEMMA ReadsHeads ==
  ASSUME AllInv, Success
  PROVE  /\ Reader!SlotHeads \in [1..header.hashSlots -> Nat]
         /\ header.hashSlots \in Nat /\ DOMAIN chain = 0..(header.hashSlots - 1)
         /\ \A s \in 1..header.hashSlots :
              Reader!SlotHeads[s] = IF chain[s - 1] = <<>> THEN 0 ELSE chain[s - 1][1]
<1>1. header = HeaderValue /\ IInv /\ SlotInv /\ pc \in WritePhases
  BY HeaderNames DEF AllInv, SpaceInv, Success, WritePhases
<1>2. header.hashes = hashOffset /\ header.hashSlots = opt.hashSlots
  BY <1>1 DEF HeaderValue
<1>3. opt.hashSlots \in Nat \ {0} /\ DOMAIN chain = 0..(opt.hashSlots - 1)
  BY <1>1, Basics DEF IInv, TypeOK, ChainOK
<1>4. Reader!SlotHeads = [s \in 1..header.hashSlots |-> buf[header.hashes + 2 * (s - 1)].val]
  BY DEF Reader!SlotHeads
<1>5. ASSUME NEW s \in 1..header.hashSlots
      PROVE  /\ Reader!SlotHeads[s] = IF chain[s - 1] = <<>> THEN 0 ELSE chain[s - 1][1]
             /\ Reader!SlotHeads[s] \in Nat
  <2>1. s - 1 \in DOMAIN chain
    BY <1>2, <1>3
  <2>2. Holds(hashOffset + 2 * (s - 1), Cell("slot", s - 1, IF chain[s - 1] = <<>> THEN 0 ELSE chain[s - 1][1]))
    BY <2>1 DEF AllInv, ImageInv, ThereInv, LinksThere, Success, Linked, AtEnd
  <2>3. Reader!SlotHeads[s] = IF chain[s - 1] = <<>> THEN 0 ELSE chain[s - 1][1]
    BY <1>2, <1>4, <2>2, CellFields DEF Holds
  <2>4. chain[s - 1] \in Seq(Nat)
    BY <1>1, <2>1, NodesFit
  <2>5. chain[s - 1] # <<>> => chain[s - 1][1] \in Nat
    BY <2>4
  <2> QED BY <2>3, <2>5
<1> QED BY <1>2, <1>3, <1>4, <1>5

(* The columns' cells are where the cells of the columns before them end.  *)
CellsPlaced == \A j \in DOMAIN dataOff : j <= Columns => dataOff[j] = CellStart[j - 1]

LEMMA CellsInit == Init => CellsPlaced
BY DEF Init, CellsPlaced, Empty

LEMMA CellsStep == IInv /\ LengthInv /\ CellsPlaced /\ [Next]_vars => CellsPlaced'
<1> SUFFICES ASSUME IInv, LengthInv, CellsPlaced, [Next]_vars PROVE CellsPlaced'
  OBVIOUS
<1>1. tab' = tab /\ Columns' = Columns /\ CellStart' = CellStart
  BY InputFixed, RowSame
<1>2. CASE dataOff' = dataOff
  BY <1>1, <1>2 DEF CellsPlaced
<1>3. CASE AddInfo
  <2>1. pc = "infos" /\ k \in Nat /\ dataOff' = Extend(dataOff, k, rowLen)
    BY <1>3 DEF AddInfo, IInv, TypeOK, ControlOK
  <2>2. rowLen = CellStart[Upto(k - 1)]
    BY <2>1 DEF LengthInv
  <2>3. Columns \in Nat
    BY Sums DEF IInv, TypeOK
  <2>4. k <= Columns => Upto(k - 1) = k - 1
    BY <2>1, <2>3 DEF Upto
  <2>5. ASSUME NEW j \in DOMAIN dataOff', j <= Columns
        PROVE  dataOff'[j] = CellStart[j - 1]
    <3>1. CASE j = k
      BY <2>1, <2>2, <2>4, <2>5, <3>1 DEF Extend
    <3>2. CASE j # k
      <4>1. j \in DOMAIN dataOff /\ dataOff'[j] = dataOff[j]
        BY <2>1, <2>5, <3>2 DEF Extend
      <4> QED BY <2>5, <4>1 DEF CellsPlaced
    <3> QED BY <3>1, <3>2
  <2> QED BY <1>1, <2>5 DEF CellsPlaced
<1>4. AddInfo \/ dataOff' = dataOff
  <2>1. LayoutStep => AddInfo \/ dataOff' = dataOff
    BY DEF LayoutStep, ReserveTableName, ReserveName, ReserveDone, InfosDone, AddNode, NodesDone, infos
  <2>2. WriteStep \/ PatchStep => dataOff' = dataOff
    BY InfosFixed DEF infos
  <2>3. UNCHANGED vars => dataOff' = dataOff
    BY DEF vars, infos
  <2> QED BY <2>1, <2>2, <2>3 DEF Next, Returned
<1> QED BY <1>2, <1>3, <1>4

(* Infos and cells rise with the items they belong to.                     *)
LEMMA InfosRise ==
  ASSUME SpaceInv, LayoutInv, pc \in WritePhases
  PROVE  /\ \A j \in 1..N : infoPtr[j] \in Nat
         /\ \A i, j \in 1..N : i < j => infoPtr[i] < infoPtr[j]
<1>1. N \in Nat /\ \A j \in 1..N : InfoSize(tab, j) \in {4, 6, 8}
  BY Basics DEF SpaceInv
<1>2. \A j \in 1..N : infoPtr[j] = InfoEnd(j - 1) /\ infoPtr[j] \in Nat
  BY Places
<1>3. \A j \in 2..N : infoPtr[j - 1] < infoPtr[j]
  <2> SUFFICES ASSUME NEW j \in 2..N PROVE infoPtr[j - 1] < infoPtr[j]
    OBVIOUS
  <2>1. j \in 1..N /\ j - 1 \in 1..N /\ j - 1 # 0
    BY <1>1
  <2>2. infoPtr[j] = infoPtr[j - 1] + InfoSize(tab, j - 1)
    BY <1>2, <2>1 DEF InfoEnd
  <2> QED BY <1>1, <1>2, <2>1, <2>2
<1> DEFINE T(i) == {j \in 1..N : i < j /\ ~(infoPtr[i] < infoPtr[j])}
<1>4. ASSUME NEW i \in 1..N PROVE T(i) = {}
  <2> SUFFICES ASSUME T(i) # {} PROVE FALSE
    OBVIOUS
  <2>1. PICK j \in T(i) : \A h \in T(i) : j <= h
    <3>1. T(i) \subseteq Nat
      BY <1>1
    <3> HIDE DEF T
    <3> QED BY <3>1, NatMin
  <2>2. j \in 2..N /\ i < j /\ j - 1 \in 1..N /\ j \in 1..N /\ ~(infoPtr[i] < infoPtr[j])
    BY <1>1, <2>1
  <2>3. infoPtr[j - 1] < infoPtr[j]
    BY <1>3, <2>2
  <2>4. infoPtr[i] \in Nat /\ infoPtr[j] \in Nat /\ infoPtr[j - 1] \in Nat
    BY <1>2, <2>2
  <2>5. CASE j - 1 = i
    BY <2>2, <2>3, <2>5
  <2>6. CASE j - 1 # i
    <3>1. i < j - 1 /\ j - 1 \notin T(i)
      BY <1>1, <2>1, <2>2, <2>6
    <3>2. infoPtr[i] < infoPtr[j - 1]
      BY <2>2, <3>1
    <3> QED BY <2>2, <2>3, <2>4, <3>2
  <2> QED BY <2>5, <2>6
<1>5. \A i, j \in 1..N : i < j => infoPtr[i] < infoPtr[j]
  BY <1>4
<1> QED BY <1>2, <1>5

LEMMA CellsRise ==
  ASSUME CallOK
  PROVE  \A i, j \in 0..Columns : i < j => CellStart[i] < CellStart[j]
<1>1. /\ Columns \in Nat /\ CellStart \in [0..Columns -> Nat]
      /\ \A c \in 1..Columns : CellStart[c - 1] < CellStart[c]
  <2>1. Columns \in Nat /\ CellStart \in [0..Columns -> Nat]
    BY Sums
  <2>2. ASSUME NEW c \in 1..Columns PROVE CellStart[c - 1] < CellStart[c]
    <3>1. PICK n \in Nat \ {0} : n = tab.columns[c].count
      BY Sums
    <3>2. PICK w \in {1, 2, 4} : w = tab.columns[c].width
      BY Sums
    <3>3. CellStart[c] = CellStart[c - 1] + n * w
      BY <3>1, <3>2, Sums
    <3>4. n * w > 0 /\ n * w \in Nat
      BY <3>1, <3>2
    <3>5. c - 1 \in 0..Columns /\ c \in 0..Columns
      BY <2>1
    <3>6. CellStart[c - 1] \in Nat
      BY <2>1, <3>5
    <3>7. \A x, y \in Nat : y > 0 => x < x + y
      OBVIOUS
    <3> QED BY <3>3, <3>4, <3>6, <3>7
  <2> QED BY <2>1, <2>2
<1> DEFINE T(i) == {j \in 0..Columns : i < j /\ ~(CellStart[i] < CellStart[j])}
<1>4. ASSUME NEW i \in 0..Columns PROVE T(i) = {}
  <2> SUFFICES ASSUME T(i) # {} PROVE FALSE
    OBVIOUS
  <2>1. PICK j \in T(i) : \A h \in T(i) : j <= h
    <3>1. T(i) \subseteq Nat
      BY <1>1
    <3> HIDE DEF T
    <3> QED BY <3>1, NatMin
  <2>2. j \in 1..Columns /\ i < j /\ j - 1 \in 0..Columns /\ j \in 0..Columns /\ ~(CellStart[i] < CellStart[j])
    BY <1>1, <2>1
  <2>3. CellStart[j - 1] < CellStart[j]
    BY <1>1, <2>2
  <2>4. CellStart[i] \in Nat /\ CellStart[j] \in Nat /\ CellStart[j - 1] \in Nat
    BY <1>1, <2>2
  <2>5. CASE j - 1 = i
    BY <2>2, <2>3, <2>5
  <2>6. CASE j - 1 # i
    <3>1. i < j - 1 /\ j - 1 \notin T(i)
      BY <1>1, <2>1, <2>2, <2>6
    <3>2. CellStart[i] < CellStart[j - 1]
      BY <2>2, <3>1
    <3> QED BY <2>2, <2>3, <2>4, <3>2
  <2> QED BY <2>5, <2>6
<1> QED BY <1>4

-----------------------------------------------------------------------------
(* The reading call: which columns and flags it has found.                 *)
ColumnsTo(n) == [i \in 1..Upto(n) |-> Item(i)]
FlagsTo(n) == [i \in 1..(n - Upto(n)) |-> Item(Columns + i)]
Nodes == {NodePtr(j) : j \in 1..N}

(* The walk through the hash table: a node that was visited and is on the  *)
(* work list no more has been read, and the one behind it was visited.     *)
HashInv ==
  /\ opt.wii
  /\ toVisit \in Seq(Nat) /\ ToSet(toVisit) \subseteq visited /\ visited \subseteq Nodes
  /\ \A s \in DOMAIN chain : chain[s] # <<>> => chain[s][1] \in visited
  /\ found \subseteq {Item(j) : j \in 1..N}
  /\ \A q \in visited \ ToSet(toVisit) :
       /\ Reader!ReadNode(q) \in found
       /\ Reader!NextNode(q) = 0 \/ Reader!NextNode(q) \in visited
NodesInv ==
  \E n \in 0..N :
    /\ n = IF opt.wii THEN N ELSE node
    /\ cols = ColumnsTo(n) /\ flags = FlagsTo(n)
ColumnsInv ==
  /\ Len(outCols) = Len(tab.columns)
  /\ \A c \in 1..Len(outCols) :
       outCols[c].flags \in {<<>>, Expected(tab, TRUE).columns[c].flags}
ReadInv ==
  /\ node \in Nat /\ (rpc # "idle" => pc = "done")
  /\ rpc = "idle" => node = 0 /\ found = {} /\ cols = <<>> /\ flags = <<>>
  /\ rpc = "hash" => HashInv
  /\ rpc = "nodes" => NodesInv
  /\ rpc \in {"rows", "done"} => ColumnsInv

LEMMA ImageSame ==
  ASSUME UNCHANGED vars
  PROVE  /\ N' = N /\ opt' = opt /\ tab' = tab /\ chain' = chain /\ pc' = pc /\ Nodes' = Nodes
         /\ \A j : Item(j)' = Item(j)
         /\ \A n : ColumnsTo(n)' = ColumnsTo(n) /\ FlagsTo(n)' = FlagsTo(n)
         /\ \A q : /\ Reader!ReadNode(q)' = Reader!ReadNode(q)
                   /\ Reader!NextNode(q)' = Reader!NextNode(q)
<1>1. /\ tab' = tab /\ opt' = opt /\ chain' = chain /\ infoPtr' = infoPtr /\ dataOff' = dataOff
      /\ nameBase' = nameBase /\ nameOff' = nameOff /\ nameMax' = nameMax /\ infoLen' = infoLen
      /\ buf' = buf /\ pc' = pc
  BY DEF vars, input, names, infos
<1>2. N' = N /\ Columns' = Columns
  BY <1>1 DEF N, Columns
<1>3. \A j : NodePtr(j)' = NodePtr(j) /\ Label(j)' = Label(j)
  BY <1>1 DEF NodePtr, NodesOffset, Label
<1>4. Nodes' = Nodes
  BY <1>2, <1>3 DEF Nodes
<1>5. \A j : Item(j)' = Item(j)
  BY <1>1, <1>3 DEF Item
<1>6. \A n : Upto(n)' = Upto(n)
  BY <1>2 DEF Upto
<1>7. \A n : ColumnsTo(n)' = ColumnsTo(n) /\ FlagsTo(n)' = FlagsTo(n)
  BY <1>2, <1>5, <1>6 DEF ColumnsTo, FlagsTo
<1>8. \A q : /\ Reader!ReadNode(q)' = Reader!ReadNode(q)
             /\ Reader!NextNode(q)' = Reader!NextNode(q)
  BY <1>1 DEF Reader!ReadNode, Reader!NextNode, Reader!ColumnData, Reader!Name, Reader!NameAt
<1> QED BY <1>1, <1>2, <1>4, <1>5, <1>7, <1>8

LEMMA HashSame ==
  ASSUME UNCHANGED vars, UNCHANGED <<toVisit, visited, found>>, HashInv
  PROVE  HashInv'
BY ImageSame DEF HashInv

LEMMA NodesSame ==
  ASSUME UNCHANGED vars, UNCHANGED <<node, cols, flags>>, NodesInv
  PROVE  NodesInv'
BY ImageSame DEF NodesInv

LEMMA ColumnsSame ==
  ASSUME UNCHANGED vars, UNCHANGED outCols, ColumnsInv
  PROVE  ColumnsInv'
<1>1. tab' = tab
  BY ImageSame
<1>2. Expected(tab, TRUE)' = Expected(tab, TRUE)
  BY <1>1
<1> QED BY <1>1, <1>2 DEF ColumnsInv

LEMMA ReadStill ==
  ASSUME ReadInv, UNCHANGED vars, UNCHANGED rvars
  PROVE  ReadInv'
<1>1. pc' = pc
  BY ImageSame
<1> QED BY <1>1, HashSame, NodesSame, ColumnsSame DEF ReadInv, rvars

LEMMA SetOfTail ==
  ASSUME NEW s \in Seq(Nat), s # <<>>, NEW x
  PROVE  /\ Head(s) \in Nat /\ Head(s) \in ToSet(s) /\ Tail(s) \in Seq(Nat)
         /\ ToSet(Tail(s)) \subseteq ToSet(s) /\ ToSet(s) \subseteq ToSet(Tail(s)) \cup {Head(s)}
         /\ x \in Nat => Append(Tail(s), x) \in Seq(Nat)
         /\ ToSet(Append(Tail(s), x)) = ToSet(Tail(s)) \cup {x}
<1>1. Tail(s) \in Seq(Nat) /\ Len(s) \in Nat \ {0} /\ Len(Tail(s)) = Len(s) - 1
  OBVIOUS
<1>2. \A i \in 1..Len(Tail(s)) : Tail(s)[i] = s[i + 1]
  OBVIOUS
<1>3. ToSet(s) = {s[i] : i \in 1..Len(s)} /\ ToSet(Tail(s)) = {Tail(s)[i] : i \in 1..Len(Tail(s))}
  <2>1. ToSet(s) = {s[i] : i \in 1..Len(s)}
    BY DEF ToSet
  <2>2. PICK t : t = Tail(s)
    OBVIOUS
  <2>3. t \in Seq(Nat)
    BY <1>1, <2>2
  <2>4. ToSet(t) = {t[i] : i \in 1..Len(t)}
    BY <2>3 DEF ToSet
  <2> QED BY <2>1, <2>2, <2>4
<1>4. Head(s) = s[1] /\ s[1] \in Nat
  BY <1>1
<1>5. Head(s) \in ToSet(s)
  BY <1>1, <1>3, <1>4
<1>6. ToSet(Tail(s)) \subseteq ToSet(s)
  BY <1>1, <1>2, <1>3
<1>7. ASSUME NEW i \in 1..Len(s) PROVE s[i] \in ToSet(Tail(s)) \cup {Head(s)}
  <2>1. CASE i = 1
    BY <1>4, <2>1
  <2>2. CASE i # 1
    <3>1. i - 1 \in 1..Len(Tail(s)) /\ Tail(s)[i - 1] = s[i]
      BY <1>1, <1>2, <2>2
    <3> QED BY <1>3, <3>1
  <2> QED BY <2>1, <2>2
<1>8. PICK t : t = Tail(s)
  OBVIOUS
<1>9. t \in Seq(Nat)
  BY <1>1, <1>8
<1>10. ToSet(Append(t, x)) = ToSet(t) \cup {x}
  <2>1. t \in Seq(Nat \cup {x})
    BY <1>9
  <2>2. /\ Append(t, x) \in Seq(Nat \cup {x}) /\ Len(Append(t, x)) = Len(t) + 1 /\ Len(t) \in Nat
        /\ \A i \in 1..Len(t) : Append(t, x)[i] = t[i]
        /\ Append(t, x)[Len(t) + 1] = x
    BY <2>1
  <2>3. ToSet(t) = {t[i] : i \in 1..Len(t)}
    BY <2>1 DEF ToSet
  <2>4. ToSet(Append(t, x)) = {Append(t, x)[i] : i \in 1..(Len(t) + 1)}
    BY <2>2 DEF ToSet
  <2>5. \A i \in 1..(Len(t) + 1) : i \in 1..Len(t) \/ i = Len(t) + 1
    BY <2>2
  <2>6. \A i \in 1..Len(t) : i \in 1..(Len(t) + 1)
    BY <2>2
  <2>7. Len(t) + 1 \in 1..(Len(t) + 1)
    BY <2>2
  <2> QED BY <2>2, <2>3, <2>4, <2>5, <2>6, <2>7
<1>11. x \in Nat => Append(t, x) \in Seq(Nat)
  BY <1>9
<1> QED BY <1>1, <1>3, <1>4, <1>5, <1>6, <1>7, <1>8, <1>10, <1>11

(* The reader opens an image.                                              *)
LEMMA ReadOpens ==
  ASSUME AllInv, Success, ReadInv, Reader!Open, UNCHANGED vars
  PROVE  ReadInv'
<1>1. /\ rpc = "idle" /\ UNCHANGED <<node, found, cols, flags, outCols>> /\ pc' = "done"
      /\ node = 0 /\ found = {} /\ cols = <<>> /\ flags = <<>>
  BY ImageSame DEF Reader!Open, ReadInv, Success
<1>2. /\ IInv /\ SpaceInv /\ LayoutInv /\ SlotInv /\ pc \in WritePhases /\ pc \in Located /\ Threaded = N
      /\ N \in Nat /\ opt.wii \in BOOLEAN
  BY HeaderNames DEF AllInv, SpaceInv, Success, WritePhases, Located, Threaded
<1>3. CASE opt.wii
  <2>1. /\ rpc' = "hash"
        /\ toVisit' = FlattenSeq([s \in 1..header.hashSlots |-> Reader!HeadOf(s)])
        /\ visited' = ToSet(toVisit')
    BY <1>3, SameHelpers DEF Reader!Open
  <2> DEFINE n == header.hashSlots
             e == Reader!SlotHeads
             h == [s \in 1..n |-> Reader!HeadOf(s)]
  <2>2. /\ n \in Nat /\ e \in [1..n -> Nat] /\ DOMAIN chain = 0..(n - 1)
        /\ \A s \in 1..n : e[s] = IF chain[s - 1] = <<>> THEN 0 ELSE chain[s - 1][1]
    BY ReadsHeads
  <2>3. \A i \in 1..n : h[i] = IF e[i] = 0 THEN <<>> ELSE <<e[i]>>
    BY DEF Reader!HeadOf
  <2>4. h = [i \in 1..n |-> h[i]]
    OBVIOUS
  <2>5. FlattenSeq(h) \in Seq(Nat) /\ ToSet(FlattenSeq(h)) = {e[i] : i \in 1..n} \ {0}
    <3> HIDE DEF h, n, e
    <3> QED BY <2>2, <2>3, <2>4, HeadsAre, ZenonT(30)
  <2>6. toVisit' \in Seq(Nat) /\ visited' = {e[i] : i \in 1..n} \ {0} /\ ToSet(toVisit)' = visited'
    BY <2>1, <2>5
  <2>7. ASSUME NEW s \in DOMAIN chain, chain[s] # <<>>
        PROVE  /\ chain[s][1] \in visited'
               /\ chain[s][1] \in Nodes
    <3>1. chain[s] \in Seq(Nat) /\ 1 \in 1..Len(chain[s])
      BY <1>2, <2>7, NodesFit
    <3>2. PICK j \in 1..N : chain[s][1] = NodePtr(j)
      BY <1>2, <3>1, NodesFit
    <3>3. chain[s][1] # 0
      BY <1>2, <3>2, NodePtrs
    <3>4. s + 1 \in 1..n /\ s + 1 - 1 = s
      BY <2>2
    <3>5. e[s + 1] = chain[s][1]
      BY <2>2, <2>7, <3>4
    <3> QED BY <2>6, <3>2, <3>3, <3>4, <3>5 DEF Nodes
  <2>8. visited' \subseteq Nodes
    <3> SUFFICES ASSUME NEW i \in 1..n, e[i] # 0 PROVE e[i] \in Nodes
      BY <2>6
    <3>1. i - 1 \in DOMAIN chain /\ chain[i - 1] # <<>> /\ e[i] = chain[i - 1][1]
      BY <2>2
    <3> QED BY <2>7, <3>1
  <2>9. visited' \ ToSet(toVisit)' = {}
    BY <2>6
  <2>10. HashInv'
    <3>1. opt'.wii /\ toVisit' \in Seq(Nat) /\ ToSet(toVisit)' \subseteq visited' /\ visited' \subseteq Nodes'
      BY <1>3, <2>6, <2>8, ImageSame
    <3>2. \A s \in DOMAIN chain' : chain'[s] # <<>> => chain'[s][1] \in visited'
      BY <2>7, ImageSame
    <3>3. found' = {}
      BY <1>1
    <3> QED BY <2>9, <3>1, <3>2, <3>3 DEF HashInv
  <2> QED BY <1>1, <2>1, <2>10 DEF ReadInv
<1>4. CASE ~opt.wii
  <2>1. rpc' = "nodes"
    BY <1>4 DEF Reader!Open
  <2>2. 0 <= Columns
    <3>1. CallOK
      BY <1>2 DEF IInv, TypeOK
    <3>2. Columns \in Nat
      BY <3>1, Sums
    <3> QED BY <3>2
  <2>3. Upto(0) = 0
    BY <2>2 DEF Upto
  <2>4. ColumnsTo(0) = <<>> /\ FlagsTo(0) = <<>>
    BY <2>3 DEF ColumnsTo, FlagsTo
  <2>5. 0 \in 0..N
    BY <1>2
  <2>6. NodesInv
    BY <1>1, <1>4, <2>4, <2>5 DEF NodesInv
  <2>7. NodesInv'
    BY <1>1, <2>6, NodesSame
  <2> QED BY <1>1, <2>1, <2>7 DEF ReadInv
<1> QED BY <1>2, <1>3, <1>4

(* The next item is a column or a flag.                                    *)
LEMMA OneMore ==
  ASSUME Columns \in Nat, NEW n \in Nat
  PROVE  /\ n + 1 > Columns => /\ ColumnsTo(n + 1) = ColumnsTo(n)
                               /\ FlagsTo(n + 1) = Append(FlagsTo(n), Item(n + 1))
         /\ ~(n + 1 > Columns) => /\ FlagsTo(n + 1) = FlagsTo(n)
                                  /\ ColumnsTo(n + 1) = Append(ColumnsTo(n), Item(n + 1))
<1>1. CASE n + 1 > Columns
  <2>1. Upto(n) = Columns /\ Upto(n + 1) = Columns
    BY <1>1 DEF Upto
  <2>2. PICK m \in Nat : m = n - Columns
    BY <1>1
  <2>3. n + 1 - Columns = m + 1 /\ Columns + (m + 1) = n + 1
    BY <2>2
  <2>4. FlagsTo(n) = [i \in 1..m |-> Item(Columns + i)]
    BY <2>1, <2>2 DEF FlagsTo
  <2>5. FlagsTo(n + 1) = [i \in 1..(m + 1) |-> Item(Columns + i)]
    BY <2>1, <2>3 DEF FlagsTo
  <2>6. Append([i \in 1..m |-> Item(Columns + i)], Item(Columns + (m + 1)))
          = [i \in 1..(m + 1) |-> Item(Columns + i)]
    OBVIOUS
  <2> QED BY <1>1, <2>1, <2>3, <2>4, <2>5, <2>6 DEF ColumnsTo
<1>2. CASE ~(n + 1 > Columns)
  <2>1. Upto(n) = n /\ Upto(n + 1) = n + 1
    BY <1>2 DEF Upto
  <2>2. n - n = 0 /\ n + 1 - (n + 1) = 0
    OBVIOUS
  <2>3. Append([i \in 1..n |-> Item(i)], Item(n + 1)) = [i \in 1..(n + 1) |-> Item(i)]
    OBVIOUS
  <2> QED BY <1>2, <2>1, <2>2, <2>3 DEF ColumnsTo, FlagsTo
<1> QED BY <1>1, <1>2

(* One node of the array.                                                  *)
LEMMA ReadsArray ==
  ASSUME AllInv, Success, ReadInv, Reader!NextOfArray, UNCHANGED vars
  PROVE  ReadInv'
<1>1. /\ rpc = "nodes" /\ rpc' = "nodes" /\ pc' = "done" /\ node < header.nodeCount /\ node' = node + 1
      /\ NodesInv
  BY ImageSame DEF Reader!NextOfArray, ReadInv, Success
<1>2. /\ IInv /\ SpaceInv /\ LayoutInv /\ pc \in WritePhases /\ header = HeaderValue
      /\ N \in Nat /\ opt.wii \in BOOLEAN /\ Columns \in Nat /\ Columns <= N
  BY HeaderNames, Sums DEF AllInv, SpaceInv, IInv, TypeOK, Success, WritePhases
<1>3. header.nodeCount = (IF opt.wii THEN 0 ELSE N) /\ header.nodes = IF opt.wii THEN 0 ELSE nameBase + nameLen
  BY <1>2 DEF HeaderValue
<1>4. PICK n \in 0..N : /\ n = IF opt.wii THEN N ELSE node
                       /\ cols = ColumnsTo(n) /\ flags = FlagsTo(n)
  BY <1>1 DEF NodesInv
<1>5. ~opt.wii \/ header.nodeCount = 0
  BY <1>3
<1>6. n = node /\ n + 1 \in 1..N /\ ~opt.wii
  <2>1. ~opt.wii
    <3> SUFFICES ASSUME opt.wii PROVE FALSE
      OBVIOUS
    <3>1. n = N /\ header.nodeCount = 0
      BY <1>3, <1>4
    <3>2. node \in Nat
      BY DEF ReadInv
    <3> QED BY <1>1, <3>1, <3>2
  <2> QED BY <1>1, <1>2, <1>3, <1>4, <2>1
<1>7. Reader!NodeSeek = NodePtr(n + 1)
  <2>1. header.nodes = NodesOffset
    BY <1>2, <1>3, <1>6, Places
  <2>2. NodePtr(n + 1) = NodesOffset + (n + 1 - 1) * 6
    BY <1>6 DEF NodePtr, NodeSize
  <2>3. n + 1 - 1 = n
    BY <1>6
  <2> QED BY <1>6, <2>1, <2>2, <2>3, SameHelpers DEF Reader!NodeSeek
<1>8. Reader!ReadNode(Reader!NodeSeek) = Item(n + 1)
  BY <1>6, <1>7, ReadsItem
<1>9. /\ Item(n + 1).isFlag => flags' = Append(flags, Item(n + 1)) /\ cols' = cols
      /\ ~Item(n + 1).isFlag => cols' = Append(cols, Item(n + 1)) /\ flags' = flags
  BY <1>8 DEF Reader!NextOfArray
<1>10. Item(n + 1).isFlag = (n + 1 > Columns)
  BY DEF Item, IsFlag, Columns
<1>11. cols' = ColumnsTo(n + 1) /\ flags' = FlagsTo(n + 1)
  <2>1. n \in Nat
    BY <1>2
  <2>2. CASE n + 1 > Columns
    BY <1>2, <1>4, <1>9, <1>10, <2>1, <2>2, OneMore
  <2>3. CASE ~(n + 1 > Columns)
    BY <1>2, <1>4, <1>9, <1>10, <2>1, <2>3, OneMore
  <2> QED BY <2>2, <2>3
<1>12. NodesInv'
  <2>1. n + 1 \in 0..N /\ node' = n + 1
    BY <1>1, <1>6
  <2>2. cols' = ColumnsTo(n + 1)' /\ flags' = FlagsTo(n + 1)'
    BY <1>11, ImageSame
  <2>3. n + 1 \in 0..N' /\ ~opt'.wii
    BY <1>6, <2>1, ImageSame
  <2> QED BY <2>1, <2>2, <2>3 DEF NodesInv
<1>13. node' \in Nat
  BY <1>1 DEF ReadInv
<1> QED BY <1>1, <1>12, <1>13 DEF ReadInv

(* Behind a node there is none, or a node.                                 *)
LEMMA NextAre ==
  ASSUME AllInv, Success
  PROVE  \A q \in Nodes :
           /\ Reader!ReadNode(q) \in {Item(j) : j \in 1..N}
           /\ Reader!NextNode(q) = 0 \/ (Reader!NextNode(q) \in Nodes /\ Reader!NextNode(q) \in Nat)
<1> SUFFICES ASSUME NEW q \in Nodes
             PROVE  /\ Reader!ReadNode(q) \in {Item(j) : j \in 1..N}
                    /\ \/ Reader!NextNode(q) = 0
                       \/ Reader!NextNode(q) \in Nodes /\ Reader!NextNode(q) \in Nat
  OBVIOUS
<1>1. IInv /\ SlotInv /\ pc \in WritePhases /\ pc \notin {"error", "panicNode"} /\ Threaded = N
  BY DEF AllInv, SpaceInv, Success, WritePhases, Threaded
<1>2. PICK j \in 1..N : q = NodePtr(j)
  BY DEF Nodes
<1>3. SlotOf(j) \in DOMAIN chain
  BY <1>1, SlotRange
<1>4. PICK s \in DOMAIN chain : s = SlotOf(j)
  BY <1>3
<1>5. PICK i \in 1..Len(chain[s]) : chain[s][i] = q
  BY <1>1, <1>2, <1>4 DEF SlotInv
<1>6. Reader!NextNode(q) = NextOf(s, i)
  BY <1>5, ReadsLinks
<1>7. CASE i < Len(chain[s])
  <2>1. chain[s] \in Seq(Nat)
    BY <1>1, NodesFit
  <2>2. i + 1 \in 1..Len(chain[s])
    BY <1>7, <2>1
  <2>3. chain[s][i + 1] \in Nat /\ \E h \in 1..N : chain[s][i + 1] = NodePtr(h)
    BY <1>1, <2>2, NodesFit
  <2>4. Reader!NextNode(q) = chain[s][i + 1]
    BY <1>6, <1>7 DEF NextOf
  <2> QED BY <1>2, <2>3, <2>4, ReadsItem DEF Nodes
<1>8. CASE ~(i < Len(chain[s]))
  BY <1>2, <1>6, <1>8, ReadsItem DEF NextOf
<1> QED BY <1>7, <1>8

(* One node of the work list.                                              *)
LEMMA ReadsHash ==
  ASSUME AllInv, Success, ReadInv, Reader!NextOfHash, UNCHANGED vars
  PROVE  ReadInv'
<1>1. /\ rpc = "hash" /\ rpc' = "hash" /\ pc' = "done" /\ HashInv /\ node' = node /\ node \in Nat
      /\ toVisit # <<>>
  BY ImageSame DEF Reader!NextOfHash, ReadInv, Success
<1>2. PICK list \in Seq(Nat) : list = toVisit
  BY <1>1 DEF HashInv
<1>3. PICK p \in Nat : p = Head(toVisit)
  BY <1>1, <1>2, SetOfTail
<1>4. PICK next : next = Reader!NextNode(p)
  OBVIOUS
<1>5. /\ p \in visited /\ p \in Nodes
  BY <1>1, <1>2, <1>3, SetOfTail DEF HashInv
<1>6. /\ Reader!ReadNode(p) \in {Item(j) : j \in 1..N}
      /\ next = 0 \/ (next \in Nodes /\ next \in Nat)
  BY <1>4, <1>5, NextAre
<1>7. /\ found' = found \cup {Reader!ReadNode(p)}
      /\ IF next # 0 /\ next \notin visited
         THEN toVisit' = Append(Tail(list), next) /\ visited' = visited \cup {next}
         ELSE toVisit' = Tail(list) /\ visited' = visited
  BY <1>2, <1>3, <1>4 DEF Reader!NextOfHash, Reader!Follow
<1>8. /\ Tail(list) \in Seq(Nat)
      /\ ToSet(Tail(list)) \subseteq ToSet(list) /\ ToSet(list) \subseteq ToSet(Tail(list)) \cup {p}
      /\ next \in Nat => Append(Tail(list), next) \in Seq(Nat)
      /\ ToSet(Append(Tail(list), next)) = ToSet(Tail(list)) \cup {next}
  BY <1>1, <1>2, <1>3, SetOfTail
<1>9. /\ toVisit' \in Seq(Nat) /\ ToSet(toVisit)' \subseteq visited' /\ visited' \subseteq Nodes
      /\ visited \subseteq visited' /\ (next = 0 \/ next \in visited')
      /\ \A q \in visited' \ ToSet(toVisit)' : q \in visited \ ToSet(toVisit) \/ q = p
  <2>1. ToSet(list) \subseteq visited /\ visited \subseteq Nodes
    BY <1>1, <1>2 DEF HashInv
  <2>2. CASE next # 0 /\ next \notin visited
    <3>1. toVisit' = Append(Tail(list), next) /\ visited' = visited \cup {next}
      BY <1>7, <2>2
    <3>2. ToSet(toVisit)' = ToSet(Tail(list)) \cup {next} /\ toVisit' \in Seq(Nat)
      BY <1>6, <1>8, <2>2, <3>1
    <3> QED BY <1>2, <1>6, <1>8, <2>1, <2>2, <3>1, <3>2
  <2>3. CASE ~(next # 0 /\ next \notin visited)
    <3>1. toVisit' = Tail(list) /\ visited' = visited
      BY <1>7, <2>3
    <3>2. ToSet(toVisit)' = ToSet(Tail(list)) /\ toVisit' \in Seq(Nat)
      BY <1>8, <3>1
    <3> QED BY <1>2, <1>6, <1>8, <2>1, <2>3, <3>1, <3>2
  <2> QED BY <2>2, <2>3
<1>10. ASSUME NEW q \in visited' \ ToSet(toVisit)'
       PROVE  /\ Reader!ReadNode(q) \in found'
              /\ Reader!NextNode(q) = 0 \/ Reader!NextNode(q) \in visited'
  <2>1. CASE q \in visited \ ToSet(toVisit)
    BY <1>1, <1>7, <1>9, <2>1 DEF HashInv
  <2>2. CASE q = p
    BY <1>4, <1>7, <1>9, <2>2
  <2> QED BY <1>9, <2>1, <2>2
<1>11. HashInv'
  <2>1. /\ opt'.wii /\ toVisit' \in Seq(Nat) /\ ToSet(toVisit)' \subseteq visited' /\ visited' \subseteq Nodes'
    BY <1>1, <1>9, ImageSame DEF HashInv
  <2>2. \A s \in DOMAIN chain' : chain'[s] # <<>> => chain'[s][1] \in visited'
    <3>1. \A s \in DOMAIN chain : chain[s] # <<>> => chain[s][1] \in visited'
      <4>1. \A s \in DOMAIN chain : chain[s] # <<>> => chain[s][1] \in visited
        BY <1>1, Zenon DEF HashInv
      <4>2. visited \subseteq visited'
        BY <1>9
      <4> QED BY <4>1, <4>2, Zenon
    <3>2. chain' = chain
      BY ImageSame
    <3> QED BY <3>1, <3>2
  <2>3. found' \subseteq {Item(j)' : j \in 1..N'}
    BY <1>1, <1>6, <1>7, ImageSame DEF HashInv
  <2>4. \A q \in visited' \ ToSet(toVisit)' :
          /\ Reader!ReadNode(q)' \in found'
          /\ Reader!NextNode(q)' = 0 \/ Reader!NextNode(q)' \in visited'
    BY <1>10, ImageSame
  <2> QED BY <2>1, <2>2, <2>3, <2>4 DEF HashInv
<1> QED BY <1>1, <1>11 DEF ReadInv

(* When the work list is empty, every node was visited.                    *)
LEMMA HashComplete ==
  ASSUME AllInv, Success, HashInv, toVisit = <<>>
  PROVE  found = {Item(j) : j \in 1..N}
<1>1. IInv /\ SlotInv /\ pc \in WritePhases /\ pc \notin {"error", "panicNode"} /\ Threaded = N /\ N \in Nat
  BY Basics DEF AllInv, SpaceInv, Success, WritePhases, Threaded
<1>2. ToSet(toVisit) = {}
  BY DEF HashInv, ToSet
<1>3. \A q \in visited : Reader!ReadNode(q) \in found
                         /\ (Reader!NextNode(q) = 0 \/ Reader!NextNode(q) \in visited)
  BY <1>2 DEF HashInv
<1>4. ASSUME NEW s \in DOMAIN chain
      PROVE  \A i \in 1..Len(chain[s]) : chain[s][i] \in visited
  <2> DEFINE T == {i \in 1..Len(chain[s]) : chain[s][i] \notin visited}
  <2> SUFFICES ASSUME T # {} PROVE FALSE
    OBVIOUS
  <2>1. PICK i \in T : \A h \in T : i <= h
    <3>1. T \subseteq Nat
      OBVIOUS
    <3> HIDE DEF T
    <3> QED BY <3>1, NatMin
  <2>2. i \in 1..Len(chain[s]) /\ chain[s][i] \notin visited /\ chain[s] \in Seq(Nat)
    BY <1>1, <2>1, NodesFit
  <2>3. CASE i = 1
    <3>1. chain[s] # <<>>
      BY <2>2
    <3> QED BY <2>2, <2>3, <3>1 DEF HashInv
  <2>4. CASE i # 1
    <3>1. i - 1 \in 1..Len(chain[s]) /\ i - 1 < Len(chain[s]) /\ i - 1 + 1 = i
      BY <2>2, <2>4
    <3>2. chain[s][i - 1] \in visited
      BY <2>1, <3>1
    <3>3. Reader!NextNode(chain[s][i - 1]) = NextOf(s, i - 1)
      BY <3>1, ReadsLinks
    <3>4. NextOf(s, i - 1) = chain[s][i]
      BY <3>1 DEF NextOf
    <3>5. chain[s][i] # 0
      <4>1. PICK h \in 1..N : chain[s][i] = NodePtr(h)
        BY <1>1, <2>2, NodesFit
      <4>2. NodePtr(h) \in Nat \ {0}
        BY <1>1, NodePtrs DEF AllInv, Success, Located, WritePhases
      <4> QED BY <4>1, <4>2
    <3> QED BY <1>3, <2>2, <3>2, <3>3, <3>4, <3>5
  <2> QED BY <2>3, <2>4
<1>5. ASSUME NEW j \in 1..N PROVE Item(j) \in found
  <2>1. PICK s \in DOMAIN chain : s = SlotOf(j)
    BY <1>1, SlotRange
  <2>2. PICK i \in 1..Len(chain[s]) : chain[s][i] = NodePtr(j)
    BY <1>1, <2>1 DEF SlotInv
  <2>3. NodePtr(j) \in visited
    BY <1>4, <2>2
  <2> QED BY <1>3, <2>3, ReadsItem
<1> QED BY <1>5 DEF HashInv

(* The order the sort looks for.                                           *)
LEMMA ItemsRise ==
  ASSUME AllInv, Success, CellsPlaced
  PROVE  /\ \A i \in 1..Columns : Item(i).offset \in Nat /\ Item(i).isFlag = FALSE
         /\ \A i, j \in 1..Columns : i < j => Item(i).offset < Item(j).offset
         /\ \A i \in 1..N : Item(i).info = infoPtr[i]
         /\ \A i \in 1..(N - Columns) : Item(Columns + i).isFlag = TRUE /\ Item(Columns + i).info \in Nat
         /\ \A i, j \in 1..(N - Columns) : i < j => Item(Columns + i).info < Item(Columns + j).info
<1>1. /\ IInv /\ SpaceInv /\ LayoutInv /\ pc \in WritePhases /\ N \in Nat /\ CallOK
      /\ DOMAIN dataOff = 1..N /\ Columns \in Nat /\ Columns <= N
  BY Basics, Sums DEF AllInv, SpaceInv, Success, WritePhases, IInv, TypeOK, Progress
<1>2. \A i \in 1..Columns : Item(i).offset = CellStart[i - 1] /\ Item(i).isFlag = FALSE
  <2> SUFFICES ASSUME NEW i \in 1..Columns
               PROVE  Item(i).offset = CellStart[i - 1] /\ Item(i).isFlag = FALSE
    OBVIOUS
  <2>1. i \in DOMAIN dataOff /\ i <= Columns
    BY <1>1
  <2>2. dataOff[i] = CellStart[i - 1]
    BY <2>1 DEF CellsPlaced
  <2>3. IsFlag(tab, i) = FALSE
    BY <1>1, <2>1 DEF IsFlag, Columns
  <2> QED BY <2>2, <2>3 DEF Item
<1>3. \A i \in 1..Columns : i - 1 \in 0..Columns /\ CellStart[i - 1] \in Nat
  BY <1>1, Sums
<1>4. \A i, j \in 1..Columns : i < j => CellStart[i - 1] < CellStart[j - 1]
  <2> SUFFICES ASSUME NEW i \in 1..Columns, NEW j \in 1..Columns, i < j
               PROVE  CellStart[i - 1] < CellStart[j - 1]
    OBVIOUS
  <2>1. i - 1 \in 0..Columns /\ j - 1 \in 0..Columns /\ i - 1 < j - 1
    BY <1>1
  <2> QED BY <1>1, <2>1, CellsRise
<1>5. \A i \in 1..N : Item(i).info = infoPtr[i]
  BY DEF Item
<1>6. /\ \A j \in 1..N : infoPtr[j] \in Nat
      /\ \A i, j \in 1..N : i < j => infoPtr[i] < infoPtr[j]
  BY <1>1, InfosRise
<1>7. \A i \in 1..(N - Columns) : Columns + i \in 1..N
  BY <1>1
<1>8. \A i \in 1..(N - Columns) : Item(Columns + i).isFlag = TRUE
  <2> SUFFICES ASSUME NEW i \in 1..(N - Columns) PROVE Item(Columns + i).isFlag = TRUE
    OBVIOUS
  <2>1. Columns + i > Columns
    BY <1>1
  <2>2. IsFlag(tab, Columns + i) = TRUE
    BY <2>1 DEF IsFlag, Columns
  <2> QED BY <2>2 DEF Item
<1>9. \A i, j \in 1..(N - Columns) : i < j => Item(Columns + i).info < Item(Columns + j).info
  <2> SUFFICES ASSUME NEW i \in 1..(N - Columns), NEW j \in 1..(N - Columns), i < j
               PROVE  Item(Columns + i).info < Item(Columns + j).info
    OBVIOUS
  <2>1. Columns + i < Columns + j
    BY <1>1
  <2> QED BY <1>5, <1>6, <1>7, <2>1
<1> QED BY <1>2, <1>3, <1>4, <1>5, <1>6, <1>7, <1>8, <1>9

(* The walk through the hash table ends with the columns and flags in the  *)
(* order of the table.                                                     *)
LEMMA ReadsHashDone ==
  ASSUME AllInv, Success, CellsPlaced, ReadInv, Reader!HashDone, UNCHANGED vars
  PROVE  ReadInv'
<1>1. /\ rpc = "hash" /\ rpc' = "nodes" /\ pc' = "done" /\ HashInv /\ node' = node /\ node \in Nat
      /\ toVisit = <<>>
      /\ cols' = Reader!SortedBy({c \in found : ~c.isFlag}, "offset")
      /\ flags' = Reader!SortedBy({c \in found : c.isFlag}, "info")
  BY ImageSame DEF Reader!HashDone, Reader!discovery, ReadInv, Success
<1>2. found = {Item(j) : j \in 1..N}
  BY <1>1, HashComplete
<1>3. N \in Nat /\ Columns \in Nat /\ Columns <= N
  BY Basics, Sums DEF AllInv, SpaceInv, IInv, TypeOK
<1>4. \A j \in 1..N : j \in 1..Columns \/ \E i \in 1..(N - Columns) : j = Columns + i
  <2> SUFFICES ASSUME NEW j \in 1..N, j \notin 1..Columns
               PROVE  \E i \in 1..(N - Columns) : j = Columns + i
    OBVIOUS
  <2>1. j - Columns \in 1..(N - Columns) /\ j = Columns + (j - Columns)
    BY <1>3
  <2> QED BY <2>1
<1>5. \A i \in 1..Columns : i \in 1..N
  BY <1>3
<1>6. \A i \in 1..(N - Columns) : Columns + i \in 1..N
  BY <1>3
<1>7. {c \in found : ~c.isFlag} = {Item(i) : i \in 1..Columns}
  BY <1>2, <1>4, <1>5, ItemsRise
<1>8. {c \in found : c.isFlag} = {Item(Columns + i) : i \in 1..(N - Columns)}
  BY <1>2, <1>4, <1>6, ItemsRise
<1>9. cols' = ColumnsTo(N)
  <2> DEFINE e == [i \in 1..Columns |-> Item(i)]
  <2>1. {Item(i) : i \in 1..Columns} = {e[i] : i \in 1..Columns}
    OBVIOUS
  <2>2. /\ \A i \in 1..Columns : e[i]["offset"] \in Nat
        /\ \A i, j \in 1..Columns : i < j => e[i]["offset"] < e[j]["offset"]
    BY ItemsRise
  <2>3. e = [i \in 1..Columns |-> e[i]]
    OBVIOUS
  <2>4. Upto(N) = Columns
    BY <1>3 DEF Upto
  <2>5. e = ColumnsTo(N)
    BY <2>4 DEF ColumnsTo
  <2> HIDE DEF e
  <2>6. Reader!SortedBy({e[i] : i \in 1..Columns}, "offset") = [i \in 1..Columns |-> e[i]]
    BY <1>3, <2>2, SortedItems
  <2> QED BY <1>1, <1>7, <2>1, <2>3, <2>5, <2>6
<1>10. flags' = FlagsTo(N)
  <2> DEFINE m == N - Columns
             e == [i \in 1..m |-> Item(Columns + i)]
  <2>0. m \in Nat
    BY <1>3
  <2>1. {Item(Columns + i) : i \in 1..m} = {e[i] : i \in 1..m}
    OBVIOUS
  <2>2. /\ \A i \in 1..m : e[i]["info"] \in Nat
        /\ \A i, j \in 1..m : i < j => e[i]["info"] < e[j]["info"]
    BY ItemsRise
  <2>3. e = [i \in 1..m |-> e[i]]
    OBVIOUS
  <2>4. Upto(N) = Columns
    BY <1>3 DEF Upto
  <2>5. e = FlagsTo(N)
    BY <2>4 DEF FlagsTo
  <2>7. flags' = Reader!SortedBy({Item(Columns + i) : i \in 1..m}, "info")
    BY <1>1, <1>8
  <2> HIDE DEF e, m
  <2>6. Reader!SortedBy({e[i] : i \in 1..m}, "info") = [i \in 1..m |-> e[i]]
    BY <2>0, <2>2, SortedItems
  <2> QED BY <2>1, <2>3, <2>5, <2>6, <2>7
<1>11. NodesInv'
  <2>1. N \in 0..N' /\ opt'.wii
    BY <1>1, <1>3, ImageSame DEF HashInv
  <2>2. cols' = ColumnsTo(N)' /\ flags' = FlagsTo(N)'
    <3>1. ColumnsTo(N)' = ColumnsTo(N) /\ FlagsTo(N)' = FlagsTo(N)
      <4>1. N' = N /\ \A n : ColumnsTo(n)' = ColumnsTo(n) /\ FlagsTo(n)' = FlagsTo(n)
        BY ImageSame
      <4> QED BY <4>1
    <3> QED BY <1>9, <1>10, <3>1
  <2> QED BY <2>1, <2>2, ImageSame DEF NodesInv
<1> QED BY <1>1, <1>11 DEF ReadInv

(* The flags of an image, in the order of their parents.                   *)
LEMMA FlagItems ==
  ASSUME AllInv, Success
  PROVE  /\ Columns \in Nat /\ Len(tab.flags) \in Nat /\ N = Columns + Len(tab.flags)
         /\ tab.flags \in Seq(Flag)
         /\ \A i \in 1..Len(tab.flags) :
              /\ Columns + i \in 1..N
              /\ tab.flags[i].parent \in 1..Columns
              /\ Item(Columns + i).label = tab.flags[i].label
              /\ Item(Columns + i).parentInfo = infoPtr[tab.flags[i].parent]
         /\ \A i, j \in 1..Len(tab.flags) : i < j => tab.flags[i].parent <= tab.flags[j].parent
<1>1. tab \in Table /\ ParentsExist(tab)
  BY WriterAssumption DEF AllInv, SpaceInv, IInv, TypeOK, CallOK
<1>2. /\ Columns \in Nat /\ Len(tab.flags) \in Nat /\ N = Columns + Len(tab.flags)
      /\ tab.flags \in Seq(Flag)
  BY <1>1 DEF Table, Columns, N, ItemCount
<1>3. /\ \A i \in 1..Len(tab.flags) : tab.flags[i].parent <= Columns
      /\ \A i, j \in 1..Len(tab.flags) : i < j => tab.flags[i].parent <= tab.flags[j].parent
  BY <1>1 DEF ParentsExist, Columns
<1>4. ASSUME NEW i \in 1..Len(tab.flags)
      PROVE  /\ Columns + i \in 1..N
             /\ tab.flags[i].parent \in 1..Columns
             /\ Item(Columns + i).label = tab.flags[i].label
             /\ Item(Columns + i).parentInfo = infoPtr[tab.flags[i].parent]
  <2>1. tab.flags[i].parent \in Nat \ {0}
    <3>1. PICK f \in Flag : f = tab.flags[i]
      BY <1>2
    <3> QED BY <3>1 DEF Flag
  <2>2. Columns + i > Columns /\ Columns + i - Columns = i /\ Columns + i # 0 /\ Columns + i \in 1..N
    BY <1>2
  <2>3. IsFlag(tab, Columns + i)
    BY <2>2 DEF IsFlag, Columns
  <2>4. FlagOf(tab, Columns + i) = tab.flags[i]
    BY <2>2 DEF FlagOf, Columns
  <2>5. Label(Columns + i) = tab.flags[i].label
    BY <2>2, <2>3, <2>4 DEF Label, ItemLabel
  <2> QED BY <1>2, <1>3, <2>1, <2>2, <2>3, <2>4, <2>5 DEF Item
<1> QED BY <1>2, <1>3, <1>4

LEMMA IsSeq ==
  ASSUME NEW m \in Nat, NEW s, s = [i \in 1..m |-> s[i]]
  PROVE  Len(s) = m /\ \E V : s \in Seq(V)
<1>1. PICK V : V = {s[i] : i \in 1..m}
  OBVIOUS
<1>2. s \in [1..m -> V]
  BY <1>1
<1>3. s \in Seq(V)
  BY <1>2
<1>4. Len(s) = m
  BY <1>2
<1> QED BY <1>3, <1>4

LEMMA OwnLabels ==
  ASSUME AllInv, Success, NEW seq, seq = FlagsTo(N), NEW c \in 1..Columns
  PROVE  LET own == Reader!FromParent(seq, infoPtr[c])
         IN  [i \in 1..Len(own) |-> own[i].label]
               \in {<<>>, [f \in 1..Len(OwnFlags(tab, c)) |-> OwnFlags(tab, c)[f].label]}
<1> DEFINE nF == Len(tab.flags)
<1>1. /\ Columns \in Nat /\ nF \in Nat /\ N = Columns + nF
      /\ tab.flags \in Seq(Flag)
      /\ \A i \in 1..nF :
           /\ Columns + i \in 1..N
           /\ tab.flags[i].parent \in 1..Columns
           /\ Item(Columns + i).label = tab.flags[i].label
           /\ Item(Columns + i).parentInfo = infoPtr[tab.flags[i].parent]
      /\ \A i, j \in 1..nF : i < j => tab.flags[i].parent <= tab.flags[j].parent
  BY FlagItems
<1>2. /\ \A j \in 1..N : infoPtr[j] \in Nat
      /\ \A i, j \in 1..N : i < j => infoPtr[i] < infoPtr[j]
  BY InfosRise DEF AllInv, Success, WritePhases
<1>3. \A j \in 1..Columns : j \in 1..N
  BY <1>1
<1>4. seq = [i \in 1..nF |-> Item(Columns + i)]
  <2>1. Upto(N) = Columns /\ N - Columns = nF
    BY <1>1 DEF Upto
  <2> QED BY <2>1 DEF FlagsTo
<1>5. Len(seq) = nF /\ \E V : seq \in Seq(V)
  <2>1. seq = [i \in 1..nF |-> seq[i]]
    BY <1>4
  <2>2. PICK m \in Nat : m = nF
    BY <1>1
  <2> QED BY <2>1, <2>2, IsSeq
<1>6. Len(seq) = nF /\ \A i \in 1..nF : seq[i] = Item(Columns + i)
  BY <1>4, <1>5
<1> HIDE DEF nF
<1>7. \A i \in 1..nF : /\ seq[i].parentInfo = infoPtr[tab.flags[i].parent]
                       /\ seq[i].parentInfo \in Nat /\ seq[i].label = tab.flags[i].label
  BY <1>1, <1>2, <1>3, <1>6
<1>8. ASSUME NEW i \in 1..nF, NEW j \in 1..nF, i < j
      PROVE  seq[i].parentInfo <= seq[j].parentInfo
  <2>1. PICK a \in 1..Columns : a = tab.flags[i].parent
    BY <1>1
  <2>2. PICK b \in 1..Columns : b = tab.flags[j].parent
    BY <1>1
  <2>3. a <= b /\ a \in 1..N /\ b \in 1..N
    BY <1>1, <1>3, <1>8, <2>1, <2>2
  <2>4. infoPtr[a] <= infoPtr[b]
    BY <1>2, <2>3
  <2> QED BY <1>7, <2>1, <2>2, <2>4
<1>9. PICK info \in Nat : info = infoPtr[c]
  BY <1>2, <1>3
<1>10. PICK own : own = Reader!FromParent(seq, info)
  OBVIOUS
<1>11. \/ Len(own) = 0
       \/ \E l, r : IsBlock(seq, info, l, r) /\ own = [q \in 1..(r - l) |-> seq[l + q]]
  <2>1. PICK V : seq \in Seq(V)
    BY <1>5
  <2>2. \A i \in 1..Len(seq) : seq[i].parentInfo \in Nat
    BY <1>6, <1>7
  <2>3. \A i, j \in 1..Len(seq) : i < j => seq[i].parentInfo <= seq[j].parentInfo
    BY <1>6, <1>8
  <2> QED BY <1>10, <2>1, <2>2, <2>3, FromParentIs
<1>12. CASE Len(own) = 0
  <2>1. [i \in 1..Len(own) |-> own[i].label] = <<>>
    BY <1>12
  <2> QED BY <1>9, <1>10, <2>1
<1>13. CASE \E l, r : IsBlock(seq, info, l, r) /\ own = [q \in 1..(r - l) |-> seq[l + q]]
  <2>1. PICK l, r : IsBlock(seq, info, l, r) /\ own = [q \in 1..(r - l) |-> seq[l + q]]
    BY <1>13
  <2>2. l \in 0..nF /\ r \in l..nF /\ r - l \in Nat
    BY <1>1, <1>6, <2>1 DEF IsBlock
  <2>3. ASSUME NEW i \in 1..nF
        PROVE  tab.flags[i].parent = c <=> l < i /\ i <= r
    <3>1. seq[i].parentInfo = info <=> l < i /\ i <= r
      BY <1>6, <2>1 DEF IsBlock
    <3>2. PICK a \in 1..Columns : a = tab.flags[i].parent
      BY <1>1
    <3>3. infoPtr[a] = infoPtr[c] <=> a = c
      <4>1. a \in 1..N /\ c \in 1..N /\ infoPtr[a] \in Nat /\ infoPtr[c] \in Nat
        BY <1>2, <1>3
      <4>2. a < c => infoPtr[a] < infoPtr[c]
        BY <1>2, <4>1
      <4>3. c < a => infoPtr[c] < infoPtr[a]
        BY <1>2, <4>1
      <4>4. a < c \/ c < a \/ a = c
        BY <1>1, <4>1
      <4> QED BY <4>1, <4>2, <4>3, <4>4
    <3> QED BY <1>7, <1>9, <3>1, <3>2, <3>3
  <2>4. OwnFlags(tab, c) = [q \in 1..(r - l) |-> tab.flags[l + q]]
    <3>1. PICK table : table = tab
      OBVIOUS
    <3>2. table.flags \in Seq(Flag)
      BY <1>1, <3>1
    <3>3. FlagBlock(table, c, l, r)
      BY <2>2, <2>3, <3>1 DEF nF, FlagBlock
    <3>4. OwnFlags(table, c) = [q \in 1..(r - l) |-> table.flags[l + q]]
      BY <3>2, <3>3, OwnFlagsAre
    <3> QED BY <3>1, <3>4
  <2>5. Len(own) = r - l /\ Len(OwnFlags(tab, c)) = r - l
    BY <2>1, <2>2, <2>4
  <2>6. \A q \in 1..(r - l) : own[q].label = OwnFlags(tab, c)[q].label
    <3> SUFFICES ASSUME NEW q \in 1..(r - l) PROVE own[q].label = OwnFlags(tab, c)[q].label
      OBVIOUS
    <3>1. l + q \in 1..nF
      BY <1>1, <2>2
    <3> QED BY <1>7, <2>1, <2>4, <3>1
  <2>7. [i \in 1..Len(own) |-> own[i].label]
          = [f \in 1..Len(OwnFlags(tab, c)) |-> OwnFlags(tab, c)[f].label]
    BY <2>5, <2>6
  <2> QED BY <1>9, <1>10, <2>7
<1> QED BY <1>11, <1>12, <1>13

(* When the columns get their flags, all of both were found.               *)
LEMMA AllFound ==
  ASSUME AllInv, Success, ReadInv, Reader!Columns, UNCHANGED vars
  PROVE  /\ cols = [i \in 1..Columns |-> Item(i)] /\ Len(cols) = Columns /\ flags = FlagsTo(N)
         /\ outCols' = [i \in 1..Len(cols) |-> Reader!LegacyColumn(cols[i], Reader!SortFlags(flags))]
         /\ N \in Nat /\ Columns \in Nat /\ Columns <= N
<1>1. /\ NodesInv /\ node \in Nat
      /\ opt.wii \/ node = header.nodeCount
      /\ outCols' = [i \in 1..Len(cols) |-> Reader!LegacyColumn(cols[i], Reader!SortFlags(flags))]
  BY DEF Reader!Columns, ReadInv
<1>2. N \in Nat /\ header = HeaderValue /\ Columns \in Nat /\ Columns <= N
  BY HeaderNames, Sums DEF AllInv, SpaceInv, IInv, TypeOK
<1>3. cols = ColumnsTo(N) /\ flags = FlagsTo(N)
  <2>1. PICK n \in 0..N : /\ n = IF opt.wii THEN N ELSE node
                          /\ cols = ColumnsTo(n) /\ flags = FlagsTo(n)
    BY <1>1 DEF NodesInv
  <2>2. header.nodeCount = IF opt.wii THEN 0 ELSE N
    BY <1>2 DEF HeaderValue
  <2> QED BY <1>1, <2>1, <2>2
<1>4. cols = [i \in 1..Columns |-> Item(i)]
  <2>1. Upto(N) = Columns
    BY <1>2 DEF Upto
  <2> QED BY <1>3, <2>1 DEF ColumnsTo
<1>5. Len(cols) = Columns
  BY <1>2, <1>4
<1> QED BY <1>1, <1>2, <1>3, <1>4, <1>5

(* The columns get their flags.                                            *)
LEMMA ReadsColumns ==
  ASSUME AllInv, Success, ReadInv, Reader!Columns, UNCHANGED vars
  PROVE  ReadInv'
<1>1. /\ rpc = "nodes" /\ rpc' = "rows" /\ pc' = "done" /\ node' = node /\ node \in Nat
      /\ outCols' = [i \in 1..Len(cols) |-> Reader!LegacyColumn(cols[i], Reader!SortFlags(flags))]
  BY ImageSame DEF Reader!Columns, Reader!discovery, ReadInv, Success
<1>2. N \in Nat /\ Columns \in Nat /\ Columns <= N /\ tab \in Table
  BY AllFound, WriterAssumption DEF AllInv, SpaceInv, IInv, TypeOK, CallOK
<1>3. flags = FlagsTo(N)
  BY AllFound
<1>4. cols = [i \in 1..Columns |-> Item(i)]
  BY AllFound
<1>5. Len(cols) = Columns
  BY AllFound
<1>6. Reader!SortFlags(flags) = flags
  <2>1. /\ Len(tab.flags) \in Nat
        /\ flags = [i \in 1..Len(tab.flags) |-> Item(Columns + i)]
    <3>1. Upto(N) = Columns
      BY <1>2 DEF Upto
    <3>2. N - Columns = Len(tab.flags) /\ Len(tab.flags) \in Nat
      BY FlagItems
    <3> QED BY <1>3, <3>1, <3>2 DEF FlagsTo
  <2> DEFINE nF == Len(tab.flags)
  <2>3. Len(flags) = nF /\ \E V : flags \in Seq(V)
    <3>1. flags = [i \in 1..nF |-> flags[i]]
      BY <2>1
    <3>2. PICK m \in Nat : m = nF
      BY <2>1
    <3> QED BY <3>1, <3>2, IsSeq
  <2>2. Len(flags) = nF /\ \A i \in 1..nF : flags[i] = Item(Columns + i)
    BY <2>1, <2>3
  <2>4. /\ \A j \in 1..N : infoPtr[j] \in Nat
        /\ \A i, j \in 1..N : i < j => infoPtr[i] < infoPtr[j]
    BY InfosRise DEF AllInv, Success, WritePhases
  <2>5. \A j \in 1..Columns : j \in 1..N
    BY <1>2
  <2>6. /\ \A i \in 1..nF : /\ tab.flags[i].parent \in 1..Columns
                            /\ Item(Columns + i).parentInfo = infoPtr[tab.flags[i].parent]
        /\ \A i, j \in 1..nF : i < j => tab.flags[i].parent <= tab.flags[j].parent
    BY FlagItems
  <2> HIDE DEF nF
  <2>7. \A i \in 1..nF : flags[i].parentInfo \in Nat
    BY <2>2, <2>4, <2>5, <2>6
  <2>8. ASSUME NEW i \in 1..nF, NEW j \in 1..nF, i < j
        PROVE  flags[i].parentInfo <= flags[j].parentInfo
    <3>1. PICK a \in 1..Columns : a = tab.flags[i].parent
      BY <2>6
    <3>2. PICK b \in 1..Columns : b = tab.flags[j].parent
      BY <2>6
    <3>3. a <= b /\ a \in 1..N /\ b \in 1..N
      BY <2>5, <2>6, <2>8, <3>1, <3>2
    <3>4. infoPtr[a] <= infoPtr[b]
      BY <1>2, <2>4, <3>3
    <3> QED BY <2>2, <2>6, <3>1, <3>2, <3>4
  <2>9. PICK V : flags \in Seq(V)
    BY <2>3
  <2> QED BY <2>2, <2>7, <2>8, <2>9, SortOfSorted
<1>7. ASSUME NEW c \in 1..Columns
      PROVE  outCols'[c].flags \in {<<>>, Expected(tab, TRUE).columns[c].flags}
  <2>1. cols[c] = Item(c) /\ c \in 1..N
    BY <1>2, <1>4
  <2>2. Item(c).info = infoPtr[c]
    BY DEF Item
  <2>3. PICK own : own = Reader!FromParent(flags, infoPtr[c])
    OBVIOUS
  <2>4. outCols'[c] = Reader!LegacyColumn(Item(c), flags)
    BY <1>1, <1>5, <1>6, <2>1
  <2>5. outCols'[c].flags = [i \in 1..Len(own) |-> own[i].label]
    BY <2>2, <2>3, <2>4 DEF Reader!LegacyColumn
  <2>6. Expected(tab, TRUE).columns[c].flags
          = [f \in 1..Len(OwnFlags(tab, c)) |-> OwnFlags(tab, c)[f].label]
    <3>1. c \in 1..Len(tab.columns)
      BY DEF Columns
    <3> QED BY <3>1 DEF Expected
  <2>7. [i \in 1..Len(own) |-> own[i].label]
          \in {<<>>, [f \in 1..Len(OwnFlags(tab, c)) |-> OwnFlags(tab, c)[f].label]}
    BY <1>3, <2>3, OwnLabels
  <2> QED BY <2>5, <2>6, <2>7
<1>8. Len(outCols') = Len(tab.columns)
  BY <1>1, <1>2, <1>5 DEF Columns
<1>9. ColumnsInv'
  <2>1. tab' = tab
    BY ImageSame
  <2>2. Expected(tab, TRUE)' = Expected(tab, TRUE)
    BY <2>1
  <2>3. \A c \in 1..Len(outCols') : c \in 1..Columns
    BY <1>8 DEF Columns
  <2> QED BY <1>7, <1>8, <2>1, <2>2, <2>3 DEF ColumnsInv
<1> QED BY <1>1, <1>9 DEF ReadInv

LEMMA ReadsRow ==
  ASSUME Success, ReadInv, Reader!NextRow \/ Reader!RowsRead, UNCHANGED vars
  PROVE  ReadInv'
<1>1. /\ rpc = "rows" /\ rpc' \in {"rows", "done", "astray", "panicked"}
      /\ UNCHANGED outCols /\ node' = node
  BY DEF Reader!NextRow, Reader!RowsRead, Reader!discovery
<1>2. pc' = "done" /\ node \in Nat /\ ColumnsInv
  BY <1>1, ImageSame DEF ReadInv, Success
<1>3. ColumnsInv'
  BY <1>1, <1>2, ColumnsSame
<1> QED BY <1>1, <1>2, <1>3 DEF ReadInv

(* Whose turn it is.                                                       *)
LEMMA Turns ==
  ASSUME [RTNext]_allVars
  PROVE  \/ [Next]_vars /\ UNCHANGED rvars /\ damaged' = damaged /\ pc # "done"
         \/ DamageLink
         \/ UNCHANGED vars /\ Reader!RNext /\ damaged' = damaged /\ Success
         \/ UNCHANGED vars /\ UNCHANGED rvars /\ damaged' = damaged
<1>1. CASE Write
  <2>1. UNCHANGED rvars /\ damaged' = damaged
    BY <1>1 DEF Write
  <2>2. [Next]_vars
    BY <1>1, Zenon DEF Write, Next
  <2>3. LayoutStep => pc # "done"
    BY DEF LayoutStep, ReserveTableName, ReserveName, ReserveDone, AddInfo, InfosDone, AddNode,
           NodesDone
  <2>4. WriteStep => pc # "done"
    BY DEF WriteStep, WriteInfo, WriteInfosDone, WriteName, WriteWiiNode, WriteNamesDone,
           WriteNode, WriteNodesDone, WriteFirstLevel, LinkNodes, WriteValue, RowDone, RowsDone,
           WriteString, StringsDone
  <2>5. PatchStep => pc # "done"
    BY DEF PatchStep, WriteHeader, Rescramble
  <2> QED BY <1>1, <2>1, <2>2, <2>3, <2>4, <2>5 DEF Write
<1>2. CASE Read
  <2>1. Reader!RNext => UNCHANGED <<tab, opt, buf, header, strList>>
    BY DEF Reader!RNext, Reader!Open, Reader!NextOfArray, Reader!NextOfHash, Reader!HashDone,
           Reader!Columns, Reader!NextRow, Reader!RowsRead, Reader!image
  <2> QED BY <1>2, <2>1 DEF Read, vars, input, strings, result, Success
<1>3. CASE Ended \/ UNCHANGED allVars
  BY <1>3 DEF Ended, allVars
<1> QED BY <1>1, <1>2, <1>3 DEF RTNext

(* Both calls: until the image is damaged, the reader has of it what the   *)
(* writer put there.                                                       *)
BothInv == ~damaged => AllInv /\ LengthInv /\ CellsPlaced /\ ReadInv

LEMMA BothInit == RTInit => BothInv
<1> SUFFICES ASSUME RTInit PROVE BothInv
  OBVIOUS
<1>1. AllInv /\ LengthInv /\ CellsPlaced
  BY AllInit, RowInit, CellsInit DEF RTInit, RowInv
<1>2. ReadInv
  BY DEF RTInit, Reader!RInit, ReadInv
<1> QED BY <1>1, <1>2 DEF BothInv

LEMMA BothStep == BothInv /\ [RTNext]_allVars => BothInv'
<1> SUFFICES ASSUME BothInv, [RTNext]_allVars, ~damaged'
             PROVE  AllInv' /\ LengthInv' /\ CellsPlaced' /\ ReadInv'
  BY DEF BothInv
<1>1. ASSUME [Next]_vars, damaged' = damaged
      PROVE  /\ AllInv /\ CellsPlaced /\ ReadInv
             /\ AllInv' /\ LengthInv' /\ CellsPlaced'
  <2>1. AllInv /\ LengthInv /\ CellsPlaced /\ ReadInv /\ IInv
    BY <1>1 DEF BothInv, AllInv, SpaceInv
  <2> QED BY <1>1, <2>1, AllStep, LengthStep, CellsStep
<1>2. CASE [Next]_vars /\ UNCHANGED rvars /\ damaged' = damaged /\ pc # "done"
  <2>1. AllInv /\ ReadInv /\ AllInv' /\ LengthInv' /\ CellsPlaced'
    BY <1>1, <1>2
  <2>2. rpc = "idle" /\ rpc' = "idle"
    BY <1>2, <2>1 DEF ReadInv, rvars
  <2>3. ReadInv'
    BY <1>2, <2>1, <2>2 DEF ReadInv, rvars
  <2> QED BY <2>1, <2>3
<1>3. CASE DamageLink
  BY <1>3 DEF DamageLink
<1>4. CASE UNCHANGED vars /\ Reader!RNext /\ damaged' = damaged /\ Success
  <2>1. AllInv /\ CellsPlaced /\ ReadInv /\ AllInv' /\ LengthInv' /\ CellsPlaced'
    BY <1>1, <1>4
  <2>2. ReadInv'
    BY <1>4, <2>1, ReadOpens, ReadsArray, ReadsHash, ReadsHashDone, ReadsColumns, ReadsRow,
       Zenon DEF Reader!RNext
  <2> QED BY <2>1, <2>2
<1>5. CASE UNCHANGED vars /\ UNCHANGED rvars /\ damaged' = damaged
  BY <1>1, <1>5, ReadStill
<1> QED BY <1>2, <1>3, <1>4, <1>5, Turns

(* Whatever the table, the options and the order in which a walk through   *)
(* the hash table meets the nodes: a column comes back with all of its     *)
(* flags, in their order, or with none, although partition_point is asked  *)
(* for places the flags are not partitioned by.                            *)
THEOREM FlagsCorrect == RTSpec => []FlagsAllOrNone
<1>1. BothInv => FlagsAllOrNone
  BY DEF BothInv, ReadInv, ColumnsInv, FlagsAllOrNone
<1> QED BY <1>1, BothInit, BothStep, PTL DEF RTSpec

-----------------------------------------------------------------------------
(* The values of the rows: value i + 1 of column c + 1, its place in the   *)
(* row, and what is there.                                                 *)
ValuePlace(c, i) == CellStart[c] + i * tab.columns[c + 1].width
PtrTo(cell) == IF cell.text = NoText THEN cell.num ELSE strBase + strOff[cell.text]
ValueThere(r, h, at) ==
  LET cell == tab.rows[r][h]
  IN  /\ cell.text # NoText => cell.text \in DOMAIN strOff
      /\ Holds(RowBegin(r) + at, Cell("value", cell.width, PtrTo(cell)))
IsValue(c, i) == c \in 0..(Columns - 1) /\ i \in Nat /\ i < tab.columns[c + 1].count
ValuesThere(r, n) ==
  \A c, i : IsValue(c, i) /\ ValueEnd[c] + i + 1 <= n =>
              ValueThere(r, ValueEnd[c] + i + 1, ValuePlace(c, i))
ValuesWritten(r) ==
  IF pc # "rows" \/ r < row THEN Len(tab.rows[r]) ELSE IF r = row THEN col - 1 ELSE 0
ValuesInv ==
  pc \in {"rows"} \cup AtEnd =>
    \A r \in 1..Len(tab.rows) : ValuesThere(r, ValuesWritten(r))

(* The places of a row, by column: which column a value belongs to.        *)
LEMMA EndsRise ==
  ASSUME CallOK
  PROVE  \A a, b \in 0..Columns : a < b => ValueEnd[a] < ValueEnd[b]
<1>1. /\ Columns \in Nat /\ ValueEnd \in [0..Columns -> Nat]
      /\ \A c \in 1..Columns : ValueEnd[c - 1] < ValueEnd[c]
  <2>1. Columns \in Nat /\ ValueEnd \in [0..Columns -> Nat]
    BY Sums
  <2>2. ASSUME NEW c \in 1..Columns PROVE ValueEnd[c - 1] < ValueEnd[c]
    <3>1. PICK n \in Nat \ {0} : n = tab.columns[c].count
      BY Sums
    <3>2. ValueEnd[c] = ValueEnd[c - 1] + n
      BY <3>1, Sums
    <3>3. c - 1 \in 0..Columns
      BY <2>1
    <3>4. ValueEnd[c - 1] \in Nat
      BY <2>1, <3>3
    <3> QED BY <3>1, <3>2, <3>4
  <2> QED BY <2>1, <2>2
<1> DEFINE T(i) == {j \in 0..Columns : i < j /\ ~(ValueEnd[i] < ValueEnd[j])}
<1>2. ASSUME NEW i \in 0..Columns PROVE T(i) = {}
  <2> SUFFICES ASSUME T(i) # {} PROVE FALSE
    OBVIOUS
  <2>1. PICK j \in T(i) : \A h \in T(i) : j <= h
    <3>1. T(i) \subseteq Nat
      BY <1>1
    <3> HIDE DEF T
    <3> QED BY <3>1, NatMin
  <2>2. j \in 1..Columns /\ i < j /\ j - 1 \in 0..Columns /\ j \in 0..Columns /\ ~(ValueEnd[i] < ValueEnd[j])
    BY <1>1, <2>1
  <2>3. ValueEnd[j - 1] < ValueEnd[j]
    BY <1>1, <2>2
  <2>4. ValueEnd[i] \in Nat /\ ValueEnd[j] \in Nat /\ ValueEnd[j - 1] \in Nat
    BY <1>1, <2>2
  <2>5. CASE j - 1 = i
    BY <2>2, <2>3, <2>5
  <2>6. CASE j - 1 # i
    <3>1. i < j - 1 /\ j - 1 \notin T(i)
      BY <1>1, <2>1, <2>2, <2>6
    <3>2. ValueEnd[i] < ValueEnd[j - 1]
      BY <2>2, <3>1
    <3> QED BY <2>2, <2>3, <2>4, <3>2
  <2> QED BY <2>5, <2>6
<1> QED BY <1>2

LEMMA ValueNumbers ==
  ASSUME CallOK, NEW c, NEW i, IsValue(c, i)
  PROVE  /\ c \in 0..Columns /\ c + 1 \in 1..Columns /\ c + 1 - 1 = c /\ i \in Nat
         /\ ValueEnd[c] \in Nat /\ CellStart[c] \in Nat /\ ValueEnd[c + 1] \in Nat
         /\ tab.columns[c + 1].count \in Nat \ {0} /\ tab.columns[c + 1].width \in {1, 2, 4}
         /\ ValueEnd[c + 1] = ValueEnd[c] + tab.columns[c + 1].count
         /\ CellStart[c + 1] = CellStart[c] + tab.columns[c + 1].count * tab.columns[c + 1].width
         /\ ValueEnd[c] + i + 1 \in (ValueEnd[c] + 1)..ValueEnd[c + 1]
         /\ ValueEnd[c] + i + 1 \in 1..ValueEnd[Columns]
<1>1. Columns \in Nat /\ ValueEnd \in [0..Columns -> Nat] /\ CellStart \in [0..Columns -> Nat]
  BY Sums
<1>2. c \in 0..Columns /\ c + 1 \in 1..Columns /\ c + 1 \in 0..Columns /\ c + 1 - 1 = c /\ i \in Nat
      /\ i < tab.columns[c + 1].count
  BY <1>1 DEF IsValue
<1>3. PICK d \in 1..Columns : d = c + 1
  BY <1>2
<1>4. /\ tab.columns[d].count \in Nat \ {0} /\ tab.columns[d].width \in {1, 2, 4}
      /\ ValueEnd[d] = ValueEnd[d - 1] + tab.columns[d].count
      /\ CellStart[d] = CellStart[d - 1] + tab.columns[d].count * tab.columns[d].width
  BY Sums
<1>5. ValueEnd[c + 1] <= ValueEnd[Columns]
  BY <1>2, Sums
<1>6. ValueEnd[c] \in Nat /\ CellStart[c] \in Nat /\ ValueEnd[c + 1] \in Nat /\ ValueEnd[Columns] \in Nat
  BY <1>1, <1>2
<1>7. tab.columns[c + 1].count \in Nat \ {0} /\ ValueEnd[c + 1] = ValueEnd[c] + tab.columns[c + 1].count
  BY <1>2, <1>3, <1>4
<1>8. ValueEnd[c] + i + 1 \in (ValueEnd[c] + 1)..ValueEnd[c + 1]
  BY <1>2, <1>6, <1>7
<1>9. ValueEnd[c] + i + 1 \in 1..ValueEnd[Columns]
  BY <1>2, <1>5, <1>6, <1>8
<1> QED BY <1>2, <1>3, <1>4, <1>6, <1>8, <1>9

LEMMA OneValue ==
  ASSUME CallOK, NEW c, NEW i, IsValue(c, i), NEW d, NEW j, IsValue(d, j),
         ValueEnd[c] + i + 1 = ValueEnd[d] + j + 1
  PROVE  c = d /\ i = j
<1>1. ASSUME NEW a, NEW x, IsValue(a, x), NEW b, NEW y, IsValue(b, y), a < b
      PROVE  ValueEnd[a] + x + 1 < ValueEnd[b] + y + 1
  <2>1. /\ a + 1 \in 0..Columns /\ b \in 0..Columns /\ x \in Nat /\ y \in Nat
        /\ ValueEnd[a] \in Nat /\ ValueEnd[b] \in Nat /\ ValueEnd[a + 1] \in Nat
        /\ ValueEnd[a] + x + 1 <= ValueEnd[a + 1]
    BY <1>1, ValueNumbers
  <2>2. a + 1 = b \/ a + 1 < b
    BY <1>1, <2>1, ValueNumbers
  <2>3. ValueEnd[a + 1] <= ValueEnd[b]
    BY <2>1, <2>2, EndsRise
  <2> QED BY <2>1, <2>3
<1>2. c \in Nat /\ d \in Nat /\ i \in Nat /\ j \in Nat /\ ValueEnd[c] \in Nat /\ ValueEnd[d] \in Nat
  <2>1. Columns \in Nat
    BY Sums
  <2> QED BY <2>1, ValueNumbers
<1>3. c = d
  BY <1>1, <1>2
<1> QED BY <1>2, <1>3

(* What is written stays.                                                  *)
LEMMA ValueKept ==
  ASSUME Patched, UNCHANGED <<input, rowOffset, rowLen, strBase>>,
         \A t \in DOMAIN strOff : t \in DOMAIN strOff' /\ strOff'[t] = strOff[t],
         NEW r, NEW h, NEW at, ValueThere(r, h, at)
  PROVE  ValueThere(r, h, at)'
<1>1. tab' = tab /\ RowBegin(r)' = RowBegin(r)
  BY DEF input, RowBegin
<1>2. PICK a, cell : a = RowBegin(r) + at /\ cell = tab.rows[r][h]
  OBVIOUS
<1>3. /\ cell.text # NoText => cell.text \in DOMAIN strOff
      /\ a \in DOMAIN buf /\ buf[a] = Cell("value", cell.width, PtrTo(cell))
  BY <1>2 DEF ValueThere, Holds
<1>4. buf[a].kind = "value"
  BY <1>3, CellFields
<1>5. a \in DOMAIN buf' /\ buf'[a] = buf[a]
  BY <1>3, <1>4 DEF Patched
<1>6. PtrTo(cell)' = PtrTo(cell) /\ (cell.text # NoText => cell.text \in DOMAIN strOff')
  BY <1>3 DEF PtrTo
<1> QED BY <1>1, <1>2, <1>3, <1>5, <1>6 DEF ValueThere, Holds

LEMMA ValuesKept ==
  ASSUME Patched, UNCHANGED <<input, rowOffset, rowLen, strBase>>,
         \A t \in DOMAIN strOff : t \in DOMAIN strOff' /\ strOff'[t] = strOff[t],
         NEW r, NEW n, ValuesThere(r, n)
  PROVE  ValuesThere(r, n)'
<1>1. tab' = tab /\ Columns' = Columns /\ ValueEnd' = ValueEnd /\ CellStart' = CellStart
  BY RowSame
<1>2. \A c, i : IsValue(c, i)' = IsValue(c, i) /\ ValuePlace(c, i)' = ValuePlace(c, i)
  BY <1>1 DEF IsValue, ValuePlace
<1>3. \A h, at : ValueThere(r, h, at) => ValueThere(r, h, at)'
  BY ValueKept
<1>4. ASSUME NEW c, NEW i, IsValue(c, i)', ValueEnd'[c] + i + 1 <= n
      PROVE  ValueThere(r, ValueEnd[c] + i + 1, ValuePlace(c, i))'
  <2>1. PICK h, at : h = ValueEnd[c] + i + 1 /\ at = ValuePlace(c, i)
    OBVIOUS
  <2>2. h = ValueEnd'[c] + i + 1 /\ at = ValuePlace(c, i)'
    BY <1>1, <1>2, <2>1
  <2>3. ValueThere(r, h, at)'
    BY <1>1, <1>2, <1>3, <1>4, <2>1 DEF ValuesThere
  <2> QED BY <2>2, <2>3 DEF ValueThere, RowBegin
<1> QED BY <1>4 DEF ValuesThere

(* The value at the cursor is written where the reader of its column looks *)
(* for it, and points to its text.                                         *)
LEMMA ValuesWrite ==
  ASSUME AllInv, WellFormed, CursorInv, ValuesInv, WriteValue
  PROVE  ValuesInv'
<1>1. /\ IInv /\ TextInv /\ FrontInv /\ CallOK /\ ControlOK /\ Patched
      /\ pos \in Nat /\ rowLen \in Nat /\ rowOffset \in Nat /\ Len(tab.rows) \in Nat
  <2>1. [Next]_vars
    BY DEF Next, WriteStep
  <2> QED BY <2>1, StepPatches, Sums DEF AllInv, SpaceInv, ImageInv, IInv, TypeOK, InfosOK, MarksOK, ImageOK
<1>2. PICK cell : cell = tab.rows[row][col]
  OBVIOUS
<1> DEFINE new == IsNew(cell.text)
           ptr == IF cell.text = NoText THEN cell.num
                  ELSE IF new THEN strBase + strLen ELSE strBase + strOff[cell.text]
<1>3. /\ pc = "rows" /\ pc' = "rows" /\ row <= Len(tab.rows) /\ row' = row
      /\ col <= Len(tab.rows[row]) /\ col' = col + 1
      /\ buf' = Store(buf, pos, Cell("value", cell.width, ptr))
      /\ strOff' = IF new THEN Extend(strOff, cell.text, strLen) ELSE strOff
      /\ UNCHANGED <<input, rowLen, rowOffset, strBase>>
  BY <1>2 DEF WriteValue, infos, marks
<1>4. row \in 1..Len(tab.rows) /\ row \in Nat \ {0} /\ col \in Nat \ {0}
  BY <1>1, <1>3 DEF CursorInv, ControlOK
<1>5. \E c, i : IsValue(c, i) /\ col = ValueEnd[c] + i + 1 /\ pos = RowBegin(row) + ValuePlace(c, i)
  <2>1. PICK c \in 0..Columns, i \in Nat : AtValue(c, i)
    BY <1>1, <1>3, <1>4 DEF CursorInv
  <2>2. FitsColumns(tab.rows[row])
    BY <1>4 DEF WellFormed
  <2>3. PICK n : n = Len(tab.rows[row])
    OBVIOUS
  <2>4. n \in Nat
    BY <1>1, <2>2, <2>3, Sums DEF FitsColumns, Columns
  <2>5. c < Columns
    BY <1>1, <1>3, <1>4, <2>1, <2>2, <2>3, <2>4, NextValue
  <2>6. Columns \in Nat
    BY <1>1, Sums
  <2>7. IsValue(c, i)
    BY <2>1, <2>5, <2>6 DEF AtValue, IsValue
  <2>8. pos = RowBegin(row) + CellStart[c] + i * tab.columns[c + 1].width /\ col = ValueEnd[c] + i + 1
    BY <2>1, <2>5, <2>6 DEF AtValue
  <2>9. CellStart[c] \in Nat /\ i * tab.columns[c + 1].width \in Nat
    <3>1. PICK w \in {1, 2, 4} : w = tab.columns[c + 1].width
      BY <1>1, <2>7, ValueNumbers
    <3>2. CellStart[c] \in Nat
      BY <1>1, <2>7, ValueNumbers
    <3> QED BY <3>1, <3>2
  <2>10. RowBegin(row) \in Nat
    <3>1. PICK q \in Nat : q = row - 1
      BY <1>4
    <3>2. rowLen * q \in Nat
      BY <1>1, <3>1
    <3> QED BY <1>1, <3>1, <3>2 DEF RowBegin
  <2>11. pos = RowBegin(row) + ValuePlace(c, i)
    <3>1. \A x, y, z \in Nat : x + y + z = x + (y + z)
      OBVIOUS
    <3> QED BY <2>8, <2>9, <2>10, <3>1 DEF ValuePlace
  <2> QED BY <2>7, <2>8, <2>11
<1>6. PICK c, i : IsValue(c, i) /\ col = ValueEnd[c] + i + 1 /\ pos = RowBegin(row) + ValuePlace(c, i)
  BY <1>5
<1>7. /\ tab' = tab /\ Columns' = Columns /\ ValueEnd' = ValueEnd /\ CellStart' = CellStart
      /\ \A r : RowBegin(r)' = RowBegin(r)
      /\ \A d, j : IsValue(d, j)' = IsValue(d, j) /\ ValuePlace(d, j)' = ValuePlace(d, j)
  <2>1. tab' = tab /\ Columns' = Columns /\ ValueEnd' = ValueEnd /\ CellStart' = CellStart
    BY <1>3, RowSame
  <2> QED BY <1>3, <2>1 DEF RowBegin, IsValue, ValuePlace
<1>8. \A t \in DOMAIN strOff : t \in DOMAIN strOff' /\ strOff'[t] = strOff[t]
  BY <1>3 DEF Extend, IsNew
<1>9. ValueThere(row, ValueEnd[c] + i + 1, ValuePlace(c, i))'
  <2>1. pos \in DOMAIN buf' /\ buf'[pos] = Cell("value", cell.width, ptr)
    BY <1>3 DEF Store
  <2>2. cell.text # NoText => cell.text \in DOMAIN strOff'
    BY <1>3 DEF Extend, IsNew
  <2>3. PtrTo(cell)' = ptr
    <3>1. CASE cell.text = NoText
      BY <3>1 DEF PtrTo
    <3>2. CASE cell.text # NoText /\ new
      <4>1. strOff'[cell.text] = strLen
        BY <1>3, <3>2 DEF Extend
      <4> QED BY <1>3, <3>2, <4>1 DEF PtrTo
    <3>3. CASE cell.text # NoText /\ ~new
      BY <1>3, <3>3 DEF PtrTo
    <3> QED BY <3>1, <3>2, <3>3
  <2>4. PICK r, h, at : r = row /\ h = ValueEnd[c] + i + 1 /\ at = ValuePlace(c, i)
    OBVIOUS
  <2>5. tab'.rows[r][h] = cell /\ RowBegin(r)' + at = pos
    BY <1>2, <1>6, <1>7, <2>4
  <2> HIDE DEF ptr
  <2>6. ValueThere(r, h, at)'
    BY <2>1, <2>2, <2>3, <2>5 DEF ValueThere, Holds
  <2>7. r = row' /\ h = ValueEnd'[c] + i + 1 /\ at = ValuePlace(c, i)'
    BY <1>3, <1>7, <2>4
  <2> QED BY <2>6, <2>7 DEF ValueThere, RowBegin
<1> HIDE DEF new, ptr
<1>10. ASSUME NEW r \in 1..Len(tab.rows)
       PROVE  ValuesThere(r, ValuesWritten(r))'
  <2>1. PICK n : n = ValuesWritten(r)
    OBVIOUS
  <2>2. ValuesThere(r, n)
    BY <1>3, <2>1 DEF ValuesInv
  <2>3. ValuesThere(r, n)'
    BY <1>1, <1>3, <1>8, <2>2, ValuesKept
  <2>4. CASE r # row
    <3>1. ValuesWritten(r)' = n
      BY <1>3, <1>7, <2>1, <2>4 DEF ValuesWritten
    <3> QED BY <2>3, <3>1 DEF ValuesThere
  <2>5. CASE r = row
    <3>1. n = col - 1 /\ ValuesWritten(r)' = col
      BY <1>3, <1>4, <2>1, <2>5 DEF ValuesWritten
    <3>2. ASSUME NEW d, NEW j, IsValue(d, j)', ValueEnd'[d] + j + 1 <= col
          PROVE  ValueThere(r, ValueEnd[d] + j + 1, ValuePlace(d, j))'
      <4>1. IsValue(d, j) /\ ValueEnd[d] + j + 1 <= col /\ ValueEnd[d] + j + 1 \in Nat
        <5>1. IsValue(d, j) /\ ValueEnd[d] + j + 1 <= col
          BY <1>7, <3>2
        <5> QED BY <1>1, <5>1, ValueNumbers
      <4>2. CASE ValueEnd[d] + j + 1 = col
        <5>1. d = c /\ j = i
          BY <1>1, <1>6, <4>1, <4>2, OneValue
        <5>2. row' = r
          BY <1>3, <2>5
        <5> QED BY <1>9, <5>1, <5>2 DEF ValueThere, RowBegin
      <4>3. CASE ValueEnd[d] + j + 1 # col
        <5>1. ValueEnd'[d] + j + 1 <= n
          BY <1>4, <1>7, <3>1, <4>1, <4>3
        <5> QED BY <2>3, <3>2, <5>1 DEF ValuesThere
      <4> QED BY <4>2, <4>3
    <3> QED BY <3>1, <3>2 DEF ValuesThere
  <2> QED BY <2>4, <2>5
<1> QED BY <1>7, <1>10 DEF ValuesInv

LEMMA ValuesStep ==
  ASSUME AllInv, LengthInv, WellFormed, CursorInv, ValuesInv, [Next]_vars
  PROVE  ValuesInv'
<1>1. /\ IInv /\ CallOK /\ ControlOK /\ Patched /\ Len(tab.rows) \in Nat
  BY StepPatches, Sums DEF AllInv, SpaceInv, IInv, TypeOK
<1>2. /\ tab' = tab /\ Columns' = Columns /\ ValueEnd' = ValueEnd /\ Len(tab'.rows) \in Nat
      /\ \A d, j : IsValue(d, j)' = IsValue(d, j)
  <2>1. tab' = tab /\ Columns' = Columns /\ ValueEnd' = ValueEnd
    BY RowSame, InputFixed
  <2> QED BY <1>1, <2>1 DEF IsValue
<1>3. ASSUME NEW d, NEW j, IsValue(d, j)
      PROVE  ValueEnd[d] + j + 1 \in Nat \ {0}
  BY <1>1, <1>3, ValueNumbers
<1>4. CASE pc' \notin {"rows"} \cup AtEnd
  BY <1>4 DEF ValuesInv
<1>5. CASE LinkNodes
  <2>1. row = 1 /\ col = 1 /\ row' = 1 /\ col' = 1 /\ pc' = "rows"
    BY <1>5 DEF LinkNodes, Goto, rowAt, LengthInv, RowsLater, Phases
  <2>2. ASSUME NEW r \in 1..Len(tab.rows)
        PROVE  ValuesThere(r, ValuesWritten(r))'
    <3>1. ValuesWritten(r)' = 0
      BY <1>1, <2>1 DEF ValuesWritten
    <3>2. ASSUME NEW d, NEW j, IsValue(d, j)', ValueEnd'[d] + j + 1 <= 0
          PROVE  FALSE
      BY <1>2, <1>3, <3>2
    <3> QED BY <3>1, <3>2 DEF ValuesThere
  <2> QED BY <1>2, <2>2 DEF ValuesInv
<1>6. CASE WriteValue
  BY <1>6, ValuesWrite
<1>7. ASSUME UNCHANGED <<input, rowOffset, rowLen, strBase, strOff>>, pc \in {"rows"} \cup AtEnd,
             NEW r \in 1..Len(tab.rows), ValuesWritten(r)' = ValuesWritten(r)
      PROVE  ValuesThere(r, ValuesWritten(r))'
  <2>1. PICK n : n = ValuesWritten(r)
    OBVIOUS
  <2>2. ValuesThere(r, n)
    BY <1>7, <2>1 DEF ValuesInv
  <2>3. ValuesThere(r, n)'
    BY <1>1, <1>7, <2>2, ValuesKept
  <2> QED BY <1>7, <2>1, <2>3 DEF ValuesThere
<1>8. CASE RowDone
  <2>1. /\ pc = "rows" /\ pc' = "rows" /\ row <= Len(tab.rows) /\ row' = row + 1
        /\ col > Len(tab.rows[row]) /\ col' = 1
        /\ UNCHANGED <<input, rowLen, rowOffset, strBase, strOff>>
    BY <1>8 DEF RowDone, infos, strings
  <2>2. row \in 1..Len(tab.rows) /\ row \in Nat /\ col \in Nat
    BY <1>1, <2>1 DEF ControlOK
  <2>3. ASSUME NEW r \in 1..Len(tab.rows)
        PROVE  ValuesThere(r, ValuesWritten(r))'
    <3>1. CASE r < row
      <4>1. ValuesWritten(r)' = ValuesWritten(r)
        BY <1>2, <2>1, <2>2, <3>1 DEF ValuesWritten
      <4> QED BY <1>7, <2>1, <4>1
    <3>2. CASE r = row
      <4>1. PICK n : n = ValuesWritten(r)
        OBVIOUS
      <4>2. n = col - 1 /\ ValuesThere(r, n)
        BY <2>1, <2>2, <3>2, <4>1 DEF ValuesInv, ValuesWritten
      <4>3. ValuesThere(r, n)'
        BY <1>1, <2>1, <4>2, ValuesKept
      <4>4. PICK m : m = Len(tab.rows[r])
        OBVIOUS
      <4>5. ValuesWritten(r)' = m /\ m \in Nat /\ m <= n
        <5>1. ValuesWritten(r)' = m
          BY <1>2, <2>1, <2>2, <3>2, <4>4 DEF ValuesWritten
        <5>2. FitsColumns(tab.rows[r])
          BY DEF WellFormed
        <5>3. m \in Nat
          BY <1>1, <4>4, <5>2, Sums DEF FitsColumns, Columns
        <5> QED BY <2>1, <2>2, <3>2, <4>2, <4>4, <5>1, <5>3
      <4>6. ASSUME NEW d, NEW j, IsValue(d, j)', ValueEnd'[d] + j + 1 <= m
            PROVE  ValueThere(r, ValueEnd[d] + j + 1, ValuePlace(d, j))'
        <5>1. ValueEnd'[d] + j + 1 \in Nat
          BY <1>2, <1>3, <4>6
        <5>2. ValueEnd'[d] + j + 1 <= n
          BY <2>2, <4>2, <4>5, <4>6, <5>1
        <5> QED BY <4>3, <4>6, <5>2 DEF ValuesThere
      <4> QED BY <4>5, <4>6 DEF ValuesThere
    <3>3. CASE r > row
      <4>1. ValuesWritten(r)' = 0
        BY <2>1, <2>2, <3>3 DEF ValuesWritten
      <4>2. ASSUME NEW d, NEW j, IsValue(d, j)', ValueEnd'[d] + j + 1 <= 0
            PROVE  FALSE
        BY <1>2, <1>3, <4>2
      <4> QED BY <4>1, <4>2 DEF ValuesThere
    <3> QED BY <2>2, <3>1, <3>2, <3>3
  <2> QED BY <1>2, <2>3 DEF ValuesInv
<1>9. CASE RowsDone \/ WriteString \/ StringsDone \/ PatchStep \/ UNCHANGED vars
  <2>1. /\ pc \in {"rows"} \cup AtEnd \/ pc' \notin {"rows"} \cup AtEnd
        /\ pc = "rows" /\ pc' # "rows" => row > Len(tab.rows)
        /\ pc' = "rows" => pc = "rows"
        /\ UNCHANGED <<input, rowOffset, rowLen, strBase, strOff, row, col>>
    <3>1. CASE RowsDone
      BY <3>1 DEF RowsDone, Goto, AtEnd, infos, marks, strings, rowAt
    <3>2. CASE WriteString \/ StringsDone
      BY <3>2 DEF WriteString, StringsDone, Goto, Stay, AtEnd, infos, marks, strings, rowAt
    <3>3. CASE PatchStep
      BY <3>3 DEF PatchStep, WriteHeader, Rescramble, Goto, AtEnd, infos, marks, strings, rowAt
    <3>4. CASE UNCHANGED vars
      <4>1. pc' = pc /\ UNCHANGED <<input, rowOffset, rowLen, strBase, strOff, row, col>>
        BY <3>4 DEF vars, infos, marks, strings, rowAt
      <4> QED BY <4>1
    <3> QED BY <1>9, <3>1, <3>2, <3>3, <3>4
  <2>2. ASSUME NEW r \in 1..Len(tab.rows), pc' \in {"rows"} \cup AtEnd
        PROVE  ValuesThere(r, ValuesWritten(r))'
    <3>1. row \in Nat
      BY <1>1 DEF ControlOK
    <3>2. ValuesWritten(r)' = ValuesWritten(r)
      BY <1>1, <1>2, <2>1, <2>2, <3>1 DEF ValuesWritten
    <3> QED BY <1>7, <2>1, <2>2, <3>2
  <2> QED BY <1>2, <2>2 DEF ValuesInv
<1>10. CASE \/ LayoutStep \/ WriteInfo \/ WriteInfosDone \/ WriteName \/ WriteWiiNode
            \/ WriteNamesDone \/ WriteNode \/ WriteNodesDone \/ WriteFirstLevel
  <2>1. CASE LayoutStep
    <3>1. pc' \notin {"rows"} \cup AtEnd
      BY <2>1 DEF LayoutStep, ReserveTableName, ReserveName, ReserveDone, AddInfo, InfosDone,
         AddNode, NodesDone, Goto, Stay, AtEnd
    <3> QED BY <1>4, <3>1
  <2>2. CASE WriteInfo \/ WriteInfosDone \/ WriteName \/ WriteWiiNode
    <3>1. pc' \notin {"rows"} \cup AtEnd
      BY <2>2 DEF WriteInfo, WriteInfosDone, WriteName, WriteWiiNode, Goto, Stay, AtEnd
    <3> QED BY <1>4, <3>1
  <2>3. CASE WriteNamesDone \/ WriteNode \/ WriteNodesDone \/ WriteFirstLevel
    <3>1. pc' \notin {"rows"} \cup AtEnd
      BY <2>3 DEF WriteNamesDone, WriteNode, WriteNodesDone, WriteFirstLevel, Goto, Stay, AtEnd
    <3> QED BY <1>4, <3>1
  <2> QED BY <1>10, <2>1, <2>2, <2>3
<1> QED BY <1>5, <1>6, <1>8, <1>9, <1>10, Zenon DEF Next, WriteStep, Returned

-----------------------------------------------------------------------------
(* Reading the rows.  Every place of a row belongs to a column.            *)
LEMMA EveryValue ==
  ASSUME CallOK, NEW h \in 1..ValueEnd[Columns]
  PROVE  \E c, i : IsValue(c, i) /\ h = ValueEnd[c] + i + 1
<1>1. /\ Columns \in Nat /\ ValueEnd \in [0..Columns -> Nat] /\ ValueEnd[0] = 0
      /\ \A c \in 1..Columns : /\ tab.columns[c].count \in Nat \ {0}
                               /\ ValueEnd[c] = ValueEnd[c - 1] + tab.columns[c].count
  BY Sums
<1> DEFINE T == {c \in 0..Columns : ValueEnd[c] < h}
<1>2. PICK c \in T : \A d \in T : d <= c
  <2>1. T \subseteq Nat /\ 0 \in T /\ \A d \in T : d <= Columns
    BY <1>1
  <2> HIDE DEF T
  <2> QED BY <1>1, <2>1, NatMax
<1>3. c \in 0..(Columns - 1) /\ c \in 0..Columns
  <2>1. c \in 0..Columns /\ ValueEnd[c] < h
    BY <1>2
  <2>2. ValueEnd[Columns] \in Nat /\ h <= ValueEnd[Columns]
    BY <1>1
  <2>3. c # Columns
    BY <2>1, <2>2
  <2> QED BY <1>1, <2>1, <2>3
<1>4. PICK d \in 1..Columns : d = c + 1 /\ d - 1 = c /\ d \in 0..Columns
  BY <1>1, <1>3
<1>5. /\ ValueEnd[c] \in Nat /\ ValueEnd[d] \in Nat /\ ValueEnd[c] < h
      /\ tab.columns[d].count \in Nat /\ ValueEnd[d] = ValueEnd[c] + tab.columns[d].count
  BY <1>1, <1>2, <1>3, <1>4
<1>6. ~(ValueEnd[d] < h)
  BY <1>1, <1>2, <1>3, <1>4
<1>7. PICK i \in Nat : i = h - ValueEnd[c] - 1
  BY <1>5
<1>8. i < tab.columns[d].count /\ h = ValueEnd[c] + i + 1
  BY <1>5, <1>6, <1>7
<1>9. IsValue(c, i)
  BY <1>3, <1>4, <1>8 DEF IsValue
<1> QED BY <1>8, <1>9

(* What the reader knows of the columns.                                   *)
ColumnsRead ==
  /\ Len(outCols) = Columns
  /\ \A c \in 1..Columns :
       outCols[c] = [label |-> tab.columns[c].label, width |-> tab.columns[c].width,
                     count |-> tab.columns[c].count, isText |-> tab.columns[c].isText,
                     isFloat |-> tab.columns[c].isFloat, flags |-> outCols[c].flags]

LEMMA ColumnOf ==
  ASSUME CallOK, ColumnsRead
  PROVE  /\ Len(Reader!ValueColumns) = ValueEnd[Columns]
         /\ \A c, i : IsValue(c, i) => Reader!ValueColumns[ValueEnd[c] + i + 1] = outCols[c + 1]
<1>1. /\ Columns \in Nat /\ ValueEnd \in [0..Columns -> Nat] /\ ValueEnd[0] = 0
      /\ \A c \in 1..Columns : /\ tab.columns[c].count \in Nat \ {0}
                               /\ ValueEnd[c] = ValueEnd[c - 1] + tab.columns[c].count
  BY Sums
<1>2. PICK s : s = [c \in 1..Columns |-> [i \in 1..outCols[c].count |-> outCols[c]]]
  OBVIOUS
<1>3. \A c \in 1..Columns : outCols[c].count = tab.columns[c].count
  BY DEF ColumnsRead
<1>4. Reader!ValueColumns = FlattenSeq(s)
  BY <1>2, SameHelpers DEF Reader!ValueColumns, ColumnsRead
<1>5. PICK V : V = {outCols[c] : c \in 1..Columns}
  OBVIOUS
<1>6. ASSUME NEW c \in 1..Columns
      PROVE  /\ s[c] \in Seq(V) /\ Len(s[c]) = tab.columns[c].count
             /\ \A i \in 1..tab.columns[c].count : s[c][i] = outCols[c]
  <2>1. PICK m \in Nat : m = tab.columns[c].count
    BY <1>1
  <2>2. s[c] = [i \in 1..m |-> outCols[c]]
    BY <1>2, <1>3, <2>1
  <2>3. outCols[c] \in V
    BY <1>5
  <2> QED BY <2>1, <2>2, <2>3
<1>7. s = [c \in 1..Columns |-> s[c]]
  BY <1>2
<1>8. /\ Len(FlattenSeq(s)) = ValueEnd[Columns]
      /\ \A c \in 1..Columns : \A q \in 1..Len(s[c]) : FlattenSeq(s)[ValueEnd[c - 1] + q] = s[c][q]
  <2>1. \A c \in 1..Columns : s[c] \in Seq(V)
    BY <1>6
  <2>2. \A c \in 1..Columns : ValueEnd[c] = ValueEnd[c - 1] + Len(s[c])
    BY <1>1, <1>6
  <2>3. Columns \in Nat /\ ValueEnd \in [0..Columns -> Nat] /\ ValueEnd[0] = 0
    BY <1>1
  <2>4. PICK n, end : n = Columns /\ end = ValueEnd
    OBVIOUS
  <2>5. AreBlocks(s, V, n, end)
    BY <1>7, <2>1, <2>2, <2>3, <2>4 DEF AreBlocks
  <2>6. /\ Len(FlattenSeq(s)) = end[n]
        /\ \A c \in 1..n : \A q \in 1..Len(s[c]) : FlattenSeq(s)[end[c - 1] + q] = s[c][q]
    BY <2>5, FlattenBlocks
  <2> QED BY <2>4, <2>6
<1>9. ASSUME NEW c, NEW i, IsValue(c, i)
      PROVE  FlattenSeq(s)[ValueEnd[c] + i + 1] = outCols[c + 1]
  <2>1. PICK d \in 1..Columns : d = c + 1 /\ d - 1 = c
    BY <1>9, ValueNumbers
  <2>2. i \in Nat /\ ValueEnd[c] \in Nat /\ i < tab.columns[d].count /\ tab.columns[d].count \in Nat
    BY <1>1, <1>9, <2>1, ValueNumbers DEF IsValue
  <2>3. PICK q \in 1..tab.columns[d].count : q = i + 1
    BY <2>2
  <2>4. FlattenSeq(s)[ValueEnd[c] + q] = outCols[d]
    <3>1. Len(s[d]) = tab.columns[d].count /\ s[d][q] = outCols[d]
      BY <1>6
    <3>2. FlattenSeq(s)[ValueEnd[d - 1] + q] = s[d][q]
      BY <1>8, <3>1
    <3> QED BY <2>1, <3>1, <3>2
  <2>5. ValueEnd[c] + i + 1 = ValueEnd[c] + q
    BY <2>2, <2>3
  <2> QED BY <2>1, <2>4, <2>5
<1> QED BY <1>4, <1>8, <1>9

(* The reader's cursor in a row, value after value, comes to the same      *)
(* places as the writer's.                                                 *)
IsCursor(at, columns, n, start) ==
  at = [i \in 1..n |-> IF i = 1 THEN start ELSE at[i - 1] + columns[i - 1].width]

LEMMA CursorExists ==
  ASSUME NEW n \in Nat, NEW start \in Nat, NEW columns, \A i \in 1..n : columns[i].width \in Nat
  PROVE  \E at : IsCursor(at, columns, n, start)
<1>1. PICK d : d = [i \in 1..n |-> columns[i].width]
  OBVIOUS
<1>2. \A i \in 1..n : d[i] \in Nat /\ d[i] = columns[i].width
  BY <1>1
<1>7. \A i \in 1..n : d[i] \in Nat
  BY <1>2
<1>3. PICK f : IsRunningSum(f, d, n)
  BY <1>7, RunningSums
<1>4. f \in [0..n -> Nat] /\ f[0] = 0 /\ \A c \in 1..n : f[c] = f[c - 1] + d[c]
  BY <1>3, <1>7, RunningSums, ZenonT(30)
<1>5. PICK at : at = [i \in 1..n |-> start + f[i - 1]]
  OBVIOUS
<1>6. ASSUME NEW i \in 1..n
      PROVE  at[i] = IF i = 1 THEN start ELSE at[i - 1] + columns[i - 1].width
  <2>1. CASE i = 1
    BY <1>4, <1>5, <2>1
  <2>2. CASE i # 1
    <3>1. PICK j \in 1..n : j = i - 1 /\ j - 1 \in 0..n
      BY <2>2
    <3>2. at[i] = start + f[j] /\ at[j] = start + f[j - 1]
      BY <1>5, <3>1
    <3>3. f[j] = f[j - 1] + columns[j].width /\ f[j - 1] \in Nat /\ columns[j].width \in Nat
      BY <1>2, <1>4, <3>1
    <3> QED BY <2>2, <3>1, <3>2, <3>3
  <2> QED BY <2>1, <2>2
<1>8. at = [i \in 1..n |-> at[i]]
  BY <1>5
<1>9. at = [i \in 1..n |-> IF i = 1 THEN start ELSE at[i - 1] + columns[i - 1].width]
  BY <1>6, <1>8
<1> QED BY <1>9 DEF IsCursor

LEMMA CursorPlaces ==
  ASSUME CallOK, NEW n, n = ValueEnd[Columns], NEW start \in Nat, NEW columns,
         \A c, i : IsValue(c, i) => columns[ValueEnd[c] + i + 1].width = tab.columns[c + 1].width,
         NEW at, IsCursor(at, columns, n, start)
  PROVE  \A c, i : IsValue(c, i) => at[ValueEnd[c] + i + 1] = start + ValuePlace(c, i)
<1>1. Columns \in Nat /\ ValueEnd[0] = 0 /\ CellStart[0] = 0
  BY Sums
<1> DEFINE Place(h) == \A c, i : IsValue(c, i) /\ h = ValueEnd[c] + i + 1 => at[h] = start + ValuePlace(c, i)
           T == {h \in Nat : ~Place(h)}
<1>2. ASSUME NEW c, NEW i, IsValue(c, i), NEW h, h = ValueEnd[c] + i + 1, \A g \in Nat : g < h => Place(g)
      PROVE  at[h] = start + ValuePlace(c, i)
  <2>1. PICK w \in {1, 2, 4} : w = tab.columns[c + 1].width
    BY <1>2, ValueNumbers
  <2>2. PICK x \in Nat : x = CellStart[c]
    BY <1>2, ValueNumbers
  <2>3. /\ h \in 1..n /\ i \in Nat /\ ValueEnd[c] \in Nat /\ c \in 0..Columns
        /\ c + 1 \in 1..Columns /\ c \in 0..(Columns - 1)
    BY <1>2, ValueNumbers DEF IsValue
  <2>4. at[h] = IF h = 1 THEN start ELSE at[h - 1] + columns[h - 1].width
    BY <2>3 DEF IsCursor
  <2>5. ValuePlace(c, i) = x + i * w
    BY <2>1, <2>2 DEF ValuePlace
  <2>6. CASE i # 0
    <3>1. PICK j \in Nat : i = j + 1
      <4>1. i - 1 \in Nat /\ i = (i - 1) + 1
        BY <2>3, <2>6
      <4> QED BY <4>1
    <3>2. IsValue(c, j)
      <4>1. tab.columns[c + 1].count \in Nat
        BY <1>2, ValueNumbers
      <4> QED BY <1>2, <3>1, <4>1 DEF IsValue
    <3>3. h # 1 /\ h - 1 = ValueEnd[c] + j + 1 /\ h - 1 \in Nat /\ h - 1 < h
      BY <1>2, <2>3, <3>1
    <3>4. at[h - 1] = start + ValuePlace(c, j)
      BY <1>2, <3>2, <3>3
    <3>5. columns[h - 1].width = w
      BY <2>1, <3>2, <3>3
    <3>6. ValuePlace(c, j) = x + j * w
      BY <2>1, <2>2 DEF ValuePlace
    <3>7. (j + 1) * w = j * w + w /\ j * w \in Nat
      BY <3>1
    <3> HIDE DEF Place
    <3> QED BY <2>4, <2>5, <3>1, <3>3, <3>4, <3>5, <3>6, <3>7
  <2>7. CASE i = 0 /\ c = 0
    <3>1. h = 1
      BY <1>1, <1>2, <2>7
    <3>2. ValuePlace(c, i) = 0
      BY <1>1, <2>1, <2>2, <2>5, <2>7
    <3> QED BY <2>4, <3>1, <3>2
  <2>8. CASE i = 0 /\ c # 0
    <3>1. PICK b \in Nat : c = b + 1
      <4>1. c - 1 \in Nat /\ c = (c - 1) + 1
        BY <1>1, <2>3, <2>8
      <4> QED BY <4>1
    <3>2. b \in 0..(Columns - 1) /\ b + 1 \in 1..Columns
      BY <1>1, <2>3, <3>1
    <3>3. PICK m \in Nat : m = tab.columns[b + 1].count /\ m # 0
      BY <3>2, Sums
    <3>4. PICK j \in Nat : m = j + 1
      <4>1. m - 1 \in Nat /\ m = (m - 1) + 1
        BY <3>3
      <4> QED BY <4>1
    <3>5. IsValue(b, j)
      BY <3>2, <3>3, <3>4 DEF IsValue
    <3>6. PICK v \in {1, 2, 4} : v = tab.columns[b + 1].width
      BY <3>5, ValueNumbers
    <3>7. PICK y \in Nat : y = CellStart[b]
      BY <3>5, ValueNumbers
    <3>8. ValueEnd[c] = ValueEnd[b] + m /\ x = y + m * v /\ ValueEnd[b] \in Nat
      BY <2>2, <3>1, <3>3, <3>5, <3>6, <3>7, ValueNumbers
    <3>9. h # 1 /\ h - 1 = ValueEnd[b] + j + 1 /\ h - 1 \in Nat /\ h - 1 < h
      BY <1>2, <2>8, <3>4, <3>8
    <3>10. at[h - 1] = start + ValuePlace(b, j)
      BY <1>2, <3>5, <3>9
    <3>11. columns[h - 1].width = v
      BY <3>5, <3>6, <3>9
    <3>12. ValuePlace(b, j) = y + j * v
      BY <3>6, <3>7 DEF ValuePlace
    <3>13. (j + 1) * v = j * v + v /\ j * v \in Nat /\ 0 * w = 0
      BY <3>4
    <3> HIDE DEF Place
    <3> QED BY <2>4, <2>5, <2>8, <3>4, <3>8, <3>9, <3>10, <3>11, <3>12, <3>13
  <2> QED BY <2>6, <2>7, <2>8
<1>3. T = {}
  <2> SUFFICES ASSUME T # {} PROVE FALSE
    OBVIOUS
  <2>1. PICK h \in T : \A g \in T : h <= g
    <3>1. T \subseteq Nat
      OBVIOUS
    <3> HIDE DEF T
    <3> QED BY <3>1, NatMin
  <2>2. h \in Nat /\ ~Place(h) /\ \A g \in Nat : g < h => Place(g)
    <3>1. \A g \in Nat : g < h => g \notin T
      BY <2>1
    <3> QED BY <2>1, <3>1
  <2> QED BY <1>2, <2>2
<1>4. ASSUME NEW c, NEW i, IsValue(c, i)
      PROVE  at[ValueEnd[c] + i + 1] = start + ValuePlace(c, i)
  <2>1. PICK h \in Nat : h = ValueEnd[c] + i + 1
    BY <1>4, ValueNumbers
  <2>2. Place(h)
    BY <1>3
  <2> QED BY <1>4, <2>1, <2>2
<1> QED BY <1>4
(* The values of row r + 1: their columns and places.                      *)
LEMMA ValuesAre ==
  ASSUME AllInv, Success, ColumnsRead, NEW r \in Nat, NEW v, v = Reader!ValuesOf(r)
  PROVE  /\ v = [h \in 1..ValueEnd[Columns] |-> v[h]] /\ Len(v) = ValueEnd[Columns]
         /\ \A c, i : IsValue(c, i) =>
              /\ v[ValueEnd[c] + i + 1].col = outCols[c + 1]
              /\ v[ValueEnd[c] + i + 1].at = RowBegin(r + 1) + ValuePlace(c, i)
<1>1. CallOK /\ header = HeaderValue /\ rowOffset \in Nat /\ rowLen \in Nat
  BY HeaderNames DEF AllInv, SpaceInv, IInv, TypeOK, MarksOK, InfosOK
<1>2. PICK n : n = ValueEnd[Columns]
  OBVIOUS
<1>3. n \in Nat
  BY <1>1, <1>2, Sums
<1>4. PICK columns : columns = Reader!ValueColumns
  OBVIOUS
<1>5. Len(columns) = n /\ \A c, i : IsValue(c, i) => columns[ValueEnd[c] + i + 1] = outCols[c + 1]
  BY <1>1, <1>2, <1>4, ColumnOf
<1>6. \A c, i : IsValue(c, i) => columns[ValueEnd[c] + i + 1].width = tab.columns[c + 1].width
  <2>1. ASSUME NEW c, NEW i, IsValue(c, i)
        PROVE  columns[ValueEnd[c] + i + 1].width = tab.columns[c + 1].width
    <3>1. PICK d \in 1..Columns : d = c + 1
      BY <1>1, <2>1, ValueNumbers
    <3>2. outCols[d].width = tab.columns[d].width
      BY DEF ColumnsRead
    <3> QED BY <1>5, <2>1, <3>1, <3>2
  <2> QED BY <2>1
<1>7. \A h \in 1..n : columns[h].width \in Nat
  <2>1. ASSUME NEW h \in 1..n PROVE columns[h].width \in Nat
    <3>1. PICK c, i : IsValue(c, i) /\ h = ValueEnd[c] + i + 1
      BY <1>1, <1>2, EveryValue
    <3>2. tab.columns[c + 1].width \in {1, 2, 4}
      BY <1>1, <3>1, ValueNumbers
    <3> QED BY <1>6, <3>1, <3>2
  <2> QED BY <2>1
<1>8. PICK start : start = RowBegin(r + 1)
  OBVIOUS
<1>9. start \in Nat /\ Reader!RowStart(r) = start
  <2>1. PICK x \in Nat : x = rowLen
    BY <1>1
  <2>2. x * r = r * x /\ x * r \in Nat /\ r + 1 - 1 = r
    OBVIOUS
  <2>3. header.rows = rowOffset /\ header.rowLen = x
    BY <1>1, <2>1 DEF HeaderValue
  <2>4. start = rowOffset + x * r
    BY <1>8, <2>1, <2>2 DEF RowBegin
  <2> QED BY <1>1, <2>2, <2>3, <2>4 DEF Reader!RowStart
<1> DEFINE at == CHOOSE at : IsCursor(at, columns, n, start)
<1>10. IsCursor(at, columns, n, start)
  BY <1>3, <1>7, <1>9, CursorExists
<1>11. v = [h \in 1..n |-> [col |-> columns[h], at |-> at[h]]]
  BY <1>4, <1>5, <1>9 DEF Reader!ValuesOf, IsCursor
<1> HIDE DEF at
<1>12. \A c, i : IsValue(c, i) => at[ValueEnd[c] + i + 1] = start + ValuePlace(c, i)
  BY <1>1, <1>2, <1>6, <1>9, <1>10, CursorPlaces
<1>13. ASSUME NEW c, NEW i, IsValue(c, i)
       PROVE  /\ v[ValueEnd[c] + i + 1].col = outCols[c + 1]
              /\ v[ValueEnd[c] + i + 1].at = RowBegin(r + 1) + ValuePlace(c, i)
  <2>1. PICK h \in 1..n : h = ValueEnd[c] + i + 1
    BY <1>1, <1>2, <1>13, ValueNumbers
  <2>2. v[h].col = columns[h] /\ v[h].at = at[h]
    BY <1>11
  <2> QED BY <1>5, <1>8, <1>12, <1>13, <2>1, <2>2
<1> QED BY <1>2, <1>3, <1>11, <1>13

(* A value is read as the one that was written.                            *)
LEMMA ReadsValue ==
  ASSUME AllInv, Success, ColumnsRead, WellFormed, ValuesInv,
         NEW r \in 1..Len(tab.rows), NEW c, NEW i, IsValue(c, i), NEW v,
         v.col = outCols[c + 1], v.at = RowBegin(r) + ValuePlace(c, i)
  PROVE  Reader!ValueReadable(v) /\ Reader!ReadValue(v) = tab.rows[r][ValueEnd[c] + i + 1]
<1>1. CallOK /\ PointersLand /\ Columns \in Nat
  BY ImagePointers, Sums DEF AllInv, SpaceInv, IInv, TypeOK
<1>2. PICK h : h = ValueEnd[c] + i + 1
  OBVIOUS
<1>3. PICK d \in 1..Columns : d = c + 1 /\ d - 1 = c
  BY <1>1, ValueNumbers
<1>4. FitsColumns(tab.rows[r])
  BY DEF WellFormed
<1>5. /\ h \in (ValueEnd[d - 1] + 1)..ValueEnd[d] /\ h \in 1..ValueEnd[Columns]
      /\ ValueEnd[Columns] = Len(tab.rows[r])
  BY <1>1, <1>2, <1>3, <1>4, ValueNumbers DEF FitsColumns, Columns
<1>6. PICK cell : cell = tab.rows[r][h]
  OBVIOUS
<1>7. cell.width = tab.columns[d].width /\ (cell.text # NoText) = tab.columns[d].isText
  BY <1>3, <1>4, <1>5, <1>6 DEF FitsColumns, Columns
<1>8. cell \in CellValue
  <2>1. tab.rows \in Seq(Seq(CellValue))
    BY <1>1, WriterAssumption DEF CallOK, Table
  <2>2. PICK q \in Seq(CellValue) : q = tab.rows[r]
    BY <2>1
  <2>3. h \in 1..Len(q)
    BY <1>5, <2>2
  <2> QED BY <1>6, <2>2, <2>3
<1>9. outCols[d].width = tab.columns[d].width /\ outCols[d].isText = tab.columns[d].isText
  BY DEF ColumnsRead
<1>10. v.col.width = cell.width /\ v.col.isText = (cell.text # NoText)
  BY <1>3, <1>7, <1>9
<1>11. ValueThere(r, h, ValuePlace(c, i))
  <2>1. PICK m : m = Len(tab.rows[r])
    OBVIOUS
  <2>2. ValuesThere(r, m)
    <3>1. ValuesWritten(r) = m
      BY <2>1 DEF ValuesWritten, Success
    <3> QED BY <3>1 DEF ValuesInv, Success, AtEnd
  <2>3. h <= m /\ h \in Nat
    <3>1. tab.rows \in Seq(Seq(CellValue))
      BY <1>1, WriterAssumption DEF CallOK, Table
    <3>2. PICK q \in Seq(CellValue) : q = tab.rows[r]
      BY <3>1
    <3>3. m \in Nat
      BY <2>1, <3>2
    <3> QED BY <1>5, <2>1, <3>3
  <2> QED BY <1>2, <2>2, <2>3 DEF ValuesThere
<1>12. /\ cell.text # NoText => cell.text \in DOMAIN strOff
       /\ v.at \in DOMAIN buf /\ buf[v.at] = Cell("value", cell.width, PtrTo(cell))
  BY <1>6, <1>11 DEF ValueThere, Holds
<1>13. buf[v.at].kind = "value" /\ buf[v.at].item = cell.width /\ buf[v.at].val = PtrTo(cell)
  BY <1>12, CellFields
<1>14. CASE cell.text = NoText
  <2>1. Reader!ValueReadable(v)
    BY <1>10, <1>12, <1>13, <1>14 DEF Reader!ValueReadable, Reader!Is
  <2>2. Reader!ReadValue(v) = [width |-> cell.width, text |-> NoText, num |-> cell.num]
    BY <1>10, <1>13, <1>14 DEF Reader!ReadValue, PtrTo
  <2>3. cell = [width |-> cell.width, text |-> NoText, num |-> cell.num]
    BY <1>8, <1>14, FormatAssumption DEF CellValue
  <2> QED BY <1>2, <1>6, <2>1, <2>2, <2>3
<1>15. CASE cell.text # NoText
  <2>1. PICK j \in 1..Len(strList) :
          strList[j] = cell.text /\ Holds(strBase + strOff[cell.text], Cell("string", j, 0))
    BY <1>1, <1>12, <1>15 DEF PointersLand, Success
  <2>2. PtrTo(cell) = strBase + strOff[cell.text]
    BY <1>15 DEF PtrTo
  <2>3. /\ buf[v.at].val \in DOMAIN buf /\ buf[buf[v.at].val].kind = "string"
        /\ buf[buf[v.at].val].item = j
    BY <1>13, <2>1, <2>2, CellFields DEF Holds
  <2>4. Reader!ValueReadable(v)
    BY <1>10, <1>12, <1>13, <2>3 DEF Reader!ValueReadable, Reader!Is
  <2>5. Reader!ReadValue(v) = [width |-> cell.width, text |-> cell.text, num |-> 0]
    BY <1>10, <1>15, <2>1, <2>3 DEF Reader!ReadValue
  <2>6. cell = [width |-> cell.width, text |-> cell.text, num |-> 0]
    BY <1>8, <1>15 DEF CellValue
  <2> QED BY <1>2, <1>6, <2>4, <2>5, <2>6
<1> QED BY <1>14, <1>15
(* What is read is, if the rows fit the columns, the rows of the table.    *)
RowsInv ==
  /\ rpc \in {"idle", "hash", "nodes", "rows", "done"}
  /\ rpc \in {"idle", "hash", "nodes"} => outRows = <<>>
  /\ rpc \in {"rows", "done"} =>
       /\ ColumnsRead
       /\ \E m \in 0..Len(tab.rows) : /\ outRows = [r \in 1..m |-> tab.rows[r]]
                                      /\ rpc = "done" => m = Len(tab.rows)

LEMMA RowsSame ==
  ASSUME UNCHANGED tab, UNCHANGED <<rpc, outCols, outRows>>, RowsInv
  PROVE  RowsInv'
BY DEF RowsInv, ColumnsRead, Columns

LEMMA ColumnsRest ==
  ASSUME AllInv, Success, ReadInv, Reader!Columns, UNCHANGED vars
  PROVE  ColumnsRead'
<1>1. outCols' = [i \in 1..Len(cols) |-> Reader!LegacyColumn(cols[i], Reader!SortFlags(flags))]
  BY AllFound
<1>2. N \in Nat /\ Columns \in Nat /\ Columns <= N
  BY AllFound
<1>4. cols = [i \in 1..Columns |-> Item(i)]
  BY AllFound
<1>5. Len(cols) = Columns
  BY AllFound
<1>6. tab' = tab /\ Columns' = Columns
  BY ImageSame DEF Columns
<1>7. ASSUME NEW c \in 1..Columns
      PROVE  outCols'[c] = [label |-> tab.columns[c].label, width |-> tab.columns[c].width,
                            count |-> tab.columns[c].count, isText |-> tab.columns[c].isText,
                            isFloat |-> tab.columns[c].isFloat, flags |-> outCols'[c].flags]
  <2>1. outCols'[c] = Reader!LegacyColumn(Item(c), Reader!SortFlags(flags))
    BY <1>1, <1>4, <1>5
  <2>2. Item(c).item = c /\ Item(c).label = tab.columns[c].label
    <3>1. c # 0 /\ ~IsFlag(tab, c)
      BY <1>2 DEF IsFlag, Columns
    <3> QED BY <3>1 DEF Item, Label, ItemLabel
  <2> QED BY <2>1, <2>2 DEF Reader!LegacyColumn
<1>8. Len(outCols') = Columns
  BY <1>1, <1>2, <1>5
<1> QED BY <1>6, <1>7, <1>8 DEF ColumnsRead

(* A table whose flags are on integers is read without a panic, for no     *)
(* column comes back with flags it did not have.                           *)
LEMMA NoPanic ==
  ASSUME ColumnsInv, ColumnsRead, FlagsReadable, tab.rows # <<>>
  PROVE  Reader!NotIntegers = {}
<1> SUFFICES ASSUME NEW c \in Reader!NotIntegers
             PROVE  FALSE
  OBVIOUS
<1>a. c \in 1..Len(outCols) /\ Reader!ReadAsFlags(outCols[c]) /\ ~IsInteger(outCols[c])
  BY DEF Reader!NotIntegers, Reader!IsInteger, IsInteger
<1> DEFINE column == Expected(tab, TRUE).columns[c]
<1>1. c \in 1..Len(tab.columns) /\ Len(outCols) = Len(tab.columns)
  BY <1>a DEF ColumnsInv
<1>2. outCols[c].count = 1 /\ outCols[c].flags # <<>>
  BY <1>a DEF Reader!ReadAsFlags
<1>3. outCols[c].flags = column.flags
  BY <1>a, <1>2 DEF ColumnsInv
<1>4. /\ outCols[c].count = tab.columns[c].count /\ outCols[c].isText = tab.columns[c].isText
      /\ outCols[c].isFloat = tab.columns[c].isFloat
  <2>1. PICK own : outCols[c] =
                     [label |-> tab.columns[c].label, width |-> tab.columns[c].width,
                      count |-> tab.columns[c].count, isText |-> tab.columns[c].isText,
                      isFloat |-> tab.columns[c].isFloat, flags |-> own]
    BY <1>1 DEF ColumnsRead, Columns
  <2> QED BY <2>1
<1>5. column.count = tab.columns[c].count
  BY <1>1 DEF Expected
<1> HIDE DEF column
<1>6. Reader!ReadAsFlags(column)
  BY <1>2, <1>3, <1>4, <1>5 DEF Reader!ReadAsFlags
<1>7. IsInteger(tab.columns[c])
  BY <1>1, <1>6 DEF FlagsReadable, column
<1> QED BY <1>a, <1>4, <1>7 DEF IsInteger

LEMMA RowRead ==
  ASSUME AllInv, Success, WellFormed, ValuesInv, RowsInv, ColumnsInv, FlagsReadable,
         Reader!NextRow \/ Reader!RowsRead, UNCHANGED vars
  PROVE  RowsInv'
<1>1. /\ rpc = "rows" /\ UNCHANGED outCols /\ tab' = tab /\ ColumnsRead /\ ColumnsRead'
      /\ CallOK /\ header.rowCount = Len(tab.rows) /\ Len(tab.rows) \in Nat
  <2>1. rpc = "rows" /\ UNCHANGED outCols
    BY DEF Reader!NextRow, Reader!RowsRead
  <2>2. tab' = tab /\ CallOK /\ header = HeaderValue
    BY ImageSame, HeaderNames DEF AllInv, SpaceInv, IInv, TypeOK
  <2>3. ColumnsRead
    BY <2>1 DEF RowsInv
  <2>4. ColumnsRead'
    BY <2>1, <2>2, <2>3 DEF ColumnsRead, Columns
  <2>5. header.rowCount = Len(tab.rows)
    BY <2>2 DEF HeaderValue
  <2> QED BY <2>1, <2>2, <2>3, <2>4, <2>5, Sums
<1>2. PICK m \in 0..Len(tab.rows) : outRows = [r \in 1..m |-> tab.rows[r]]
  BY <1>1 DEF RowsInv
<1>3. Len(outRows) = m /\ m \in Nat
  BY <1>1, <1>2
<1>4. CASE Reader!RowsRead
  <2>1. rpc' = "done" /\ outRows' = outRows /\ m = Len(tab.rows)
    BY <1>1, <1>3, <1>4 DEF Reader!RowsRead
  <2> QED BY <1>1, <1>2, <2>1 DEF RowsInv
<1>5. CASE Reader!NextRow
  <2>1. PICK v : v = Reader!ValuesOf(m)
    OBVIOUS
  <2>2. m + 1 \in 1..Len(tab.rows)
    BY <1>1, <1>2, <1>3, <1>5 DEF Reader!NextRow
  <2>3. PICK r \in 1..Len(tab.rows) : r = m + 1
    BY <2>2
  <2>4. /\ v = [h \in 1..ValueEnd[Columns] |-> v[h]] /\ Len(v) = ValueEnd[Columns]
        /\ \A c, i : IsValue(c, i) =>
             /\ v[ValueEnd[c] + i + 1].col = outCols[c + 1]
             /\ v[ValueEnd[c] + i + 1].at = RowBegin(r) + ValuePlace(c, i)
    BY <1>1, <1>3, <2>1, <2>3, ValuesAre
  <2>5. ASSUME NEW h \in 1..Len(v)
        PROVE  Reader!ValueReadable(v[h]) /\ Reader!ReadValue(v[h]) = tab.rows[r][h]
    <3>1. PICK c, i : IsValue(c, i) /\ h = ValueEnd[c] + i + 1
      BY <1>1, <2>4, EveryValue
    <3>2. v[h].col = outCols[c + 1] /\ v[h].at = RowBegin(r) + ValuePlace(c, i)
      BY <2>4, <3>1
    <3> QED BY <1>1, <3>1, <3>2, ReadsValue
  <2>6. /\ outRows' = Append(outRows, [i \in 1..Len(v) |-> Reader!ReadValue(v[i])])
        /\ rpc' = rpc
    <3>1. tab.rows # <<>>
      BY <2>2
    <3>2. Reader!NotIntegers = {}
      BY <1>1, <3>1, NoPanic
    <3> QED BY <1>3, <1>5, <2>1, <2>5, <3>2 DEF Reader!NextRow
  <2>7. [i \in 1..Len(v) |-> Reader!ReadValue(v[i])] = tab.rows[r]
    <3>1. tab.rows \in Seq(Seq(CellValue))
      BY <1>1, WriterAssumption DEF CallOK, Table
    <3>2. PICK q \in Seq(CellValue) : q = tab.rows[r]
      BY <3>1
    <3>3. Len(q) = Len(v)
      BY <2>4, <3>2 DEF WellFormed, FitsColumns, Columns
    <3>4. q = [i \in 1..Len(v) |-> q[i]]
      BY <3>3
    <3> QED BY <2>5, <3>2, <3>4
  <2>8. outRows' = [x \in 1..(m + 1) |-> tab.rows[x]]
    <3>1. outRows' = Append(outRows, tab.rows[r])
      BY <2>6, <2>7
    <3>2. PICK V : V = {tab.rows[x] : x \in 1..Len(tab.rows)}
      OBVIOUS
    <3>3. outRows \in Seq(V) /\ tab.rows[r] \in V
      <4>1. \A x \in 1..m : tab.rows[x] \in V
        BY <1>1, <1>3, <3>2
      <4>2. outRows \in [1..m -> V]
        BY <1>2, <4>1
      <4> QED BY <1>3, <3>2, <4>2
    <3>4. /\ outRows' \in Seq(V) /\ Len(outRows') = m + 1 /\ outRows'[m + 1] = tab.rows[r]
          /\ \A x \in 1..m : outRows'[x] = outRows[x]
      BY <1>3, <3>1, <3>3
    <3>5. outRows' = [x \in 1..(m + 1) |-> outRows'[x]]
      BY <3>4
    <3>6. ASSUME NEW x \in 1..(m + 1) PROVE outRows'[x] = tab.rows[x]
      <4>1. x \in 1..m \/ x = m + 1
        BY <1>3
      <4> QED BY <1>2, <2>3, <3>4, <4>1
    <3> QED BY <3>5, <3>6
  <2>9. m + 1 \in 0..Len(tab.rows) /\ rpc' = "rows"
    BY <1>1, <1>3, <2>2, <2>6
  <2> QED BY <1>1, <2>8, <2>9 DEF RowsInv
<1> QED BY <1>4, <1>5
(* Of a table that fits its columns the reader has, until the image is     *)
(* damaged, the rows so far.                                               *)
BackInv == Intact => CursorInv /\ ValuesInv /\ RowsInv

LEMMA FlagsSame ==
  ASSUME tab' = tab
  PROVE  FlagsReadable' = FlagsReadable
<1>1. \A c : Expected(tab, TRUE).columns[c]' = Expected(tab, TRUE).columns[c]
  OBVIOUS
<1> QED BY DEF FlagsReadable, Reader!ReadAsFlags

LEMMA BackInit == RTInit => BackInv
<1> SUFFICES ASSUME RTInit, WellFormed PROVE CursorInv /\ ValuesInv /\ RowsInv
  BY DEF BackInv, Intact
<1>1. CursorInv
  BY RowInit DEF RTInit, RowInv
<1>2. ValuesInv
  BY DEF RTInit, Init, ValuesInv, AtEnd
<1>3. RowsInv
  BY DEF RTInit, Reader!RInit, RowsInv
<1> QED BY <1>1, <1>2, <1>3

LEMMA BackStep == BothInv /\ BackInv /\ [RTNext]_allVars => BackInv'
<1> SUFFICES ASSUME BothInv, BackInv, [RTNext]_allVars, Intact'
             PROVE  CursorInv' /\ ValuesInv' /\ RowsInv'
  BY DEF BackInv
<1>1. WellFormed' /\ FlagsReadable' /\ ~damaged'
  BY DEF Intact
<1>2. CASE DamageLink
  BY <1>1, <1>2 DEF DamageLink
<1>3. ASSUME [Next]_vars, damaged' = damaged
      PROVE  /\ AllInv /\ LengthInv /\ ReadInv /\ IInv /\ WellFormed /\ FlagsReadable
             /\ CursorInv /\ ValuesInv /\ RowsInv
             /\ CursorInv' /\ ValuesInv' /\ tab' = tab
  <2>1. WellFormed /\ FlagsReadable /\ tab' = tab
    <3>1. WellFormed /\ tab' = tab
      BY <1>1, <1>3, InputFixed, RowSame
    <3> QED BY <1>1, <3>1, FlagsSame
  <2>2. AllInv /\ LengthInv /\ ReadInv /\ IInv
    BY <1>1, <1>3 DEF BothInv, AllInv, SpaceInv
  <2>3. CursorInv /\ ValuesInv /\ RowsInv
    BY <1>1, <1>3, <2>1 DEF BackInv, Intact
  <2> QED BY <1>3, <2>1, <2>2, <2>3, CursorStep, ValuesStep
<1>4. CASE [Next]_vars /\ UNCHANGED rvars /\ damaged' = damaged
  <2>1. CursorInv' /\ ValuesInv' /\ RowsInv /\ tab' = tab
    BY <1>3, <1>4
  <2>2. RowsInv'
    BY <1>4, <2>1, RowsSame DEF rvars
  <2> QED BY <2>1, <2>2
<1>5. CASE UNCHANGED vars /\ Reader!RNext /\ damaged' = damaged /\ Success
  <2>1. /\ CursorInv' /\ ValuesInv' /\ RowsInv /\ tab' = tab
        /\ AllInv /\ ReadInv /\ WellFormed /\ ValuesInv /\ FlagsReadable
    BY <1>3, <1>5
  <2>2. CASE Reader!Open \/ Reader!NextOfArray \/ Reader!NextOfHash \/ Reader!HashDone
    <3>1. rpc \in {"idle", "hash", "nodes"} /\ rpc' \in {"idle", "hash", "nodes"} /\ outRows' = outRows
      BY <2>2 DEF Reader!Open, Reader!NextOfArray, Reader!NextOfHash, Reader!HashDone
    <3> QED BY <2>1, <3>1 DEF RowsInv
  <2>3. CASE Reader!Columns
    <3>1. rpc = "nodes" /\ rpc' = "rows" /\ outRows' = outRows
      BY <2>3 DEF Reader!Columns
    <3>2. outRows = <<>> /\ ColumnsRead'
      BY <1>5, <2>1, <2>3, <3>1, ColumnsRest DEF RowsInv
    <3>3. 0 \in 0..Len(tab'.rows)
      <4>1. Len(tab.rows) \in Nat
        BY <2>1, Sums DEF AllInv, SpaceInv, IInv, TypeOK
      <4> QED BY <2>1, <4>1
    <3>4. outRows' = [r \in 1..0 |-> tab'.rows[r]]
      BY <3>1, <3>2
    <3> QED BY <2>1, <3>1, <3>2, <3>3, <3>4 DEF RowsInv
  <2>4. CASE Reader!NextRow \/ Reader!RowsRead
    <3>1. rpc = "rows"
      BY <2>4 DEF Reader!NextRow, Reader!RowsRead
    <3>2. ColumnsInv
      BY <2>1, <3>1 DEF ReadInv
    <3> QED BY <1>5, <2>1, <2>4, <3>2, RowRead
  <2> QED BY <1>5, <2>1, <2>2, <2>3, <2>4 DEF Reader!RNext
<1>6. CASE UNCHANGED vars /\ UNCHANGED rvars /\ damaged' = damaged
  BY <1>4, <1>6
<1> QED BY <1>2, <1>4, <1>5, <1>6, Turns

(* What comes back is the table.                                           *)
LEMMA AnswerIsTable ==
  CallOK /\ RowsInv /\ rpc = "done" => Answered(FALSE) = Expected(tab, FALSE)
<1> SUFFICES ASSUME CallOK, RowsInv, rpc = "done"
             PROVE  Answered(FALSE) = Expected(tab, FALSE)
  OBVIOUS
<1>1. ColumnsRead /\ outRows = [r \in 1..Len(tab.rows) |-> tab.rows[r]] /\ Columns \in Nat
  BY Sums DEF RowsInv
<1>2. outRows = tab.rows
  <2>1. tab.rows \in Seq(Seq(CellValue))
    BY WriterAssumption DEF CallOK, Table
  <2>2. PICK q \in Seq(Seq(CellValue)) : q = tab.rows
    BY <2>1
  <2> QED BY <1>1, <2>2
<1>3. ASSUME NEW c \in 1..Columns
      PROVE  [outCols[c] EXCEPT !.flags = <<>>] =
               [label |-> tab.columns[c].label, width |-> tab.columns[c].width,
                count |-> tab.columns[c].count, isText |-> tab.columns[c].isText,
                isFloat |-> tab.columns[c].isFloat, flags |-> <<>>]
  BY <1>1 DEF ColumnsRead
<1>4. [c \in 1..Len(outCols) |-> [outCols[c] EXCEPT !.flags = <<>>]] =
        [c \in 1..Len(tab.columns) |->
           [label |-> tab.columns[c].label, width |-> tab.columns[c].width,
            count |-> tab.columns[c].count, isText |-> tab.columns[c].isText,
            isFloat |-> tab.columns[c].isFloat, flags |-> <<>>]]
  BY <1>1, <1>3 DEF ColumnsRead, Columns
<1> QED BY <1>2, <1>4 DEF Answered, Expected

(* Whatever the table and the options: what the reader gives back of an    *)
(* image that nobody damaged is the table that was written, its flags left *)
(* aside, or nothing was stored: either rows that do not fit the columns   *)
(* were written, or flags on a text or a float, or the writer did not      *)
(* succeed.  Of what was stored, reading neither fails nor panics.         *)
THEOREM RoundTripCorrect == RTSpec => ReadBack
<1> DEFINE content == {Expected(t, FALSE) : t \in Tables}
           stored == IF pc = "done" /\ Intact THEN Expected(tab, FALSE) ELSE Nothing
           answer == IF rpc \in Reader!RFinished /\ Intact THEN Answered(FALSE) ELSE Nothing
           Inv == BothInv /\ BackInv
<1>1. RTInit => Store1!Init
  BY DEF RTInit, Init, Reader!RInit, Reader!RFinished, Store1!Init
<1>2. ASSUME Intact, BothInv, BackInv
      PROVE  /\ CallOK /\ RowsInv /\ (rpc # "idle" => pc = "done")
             /\ Expected(tab, FALSE) \in content /\ Expected(tab, FALSE) # Nothing
             /\ rpc \in Reader!RFinished => rpc = "done" /\ Answered(FALSE) = Expected(tab, FALSE)
  <2>1. CallOK /\ ReadInv /\ RowsInv
    BY <1>2 DEF Intact, BothInv, BackInv, AllInv, SpaceInv, IInv, TypeOK
  <2>2. tab \in Tables
    BY <2>1 DEF CallOK
  <2>3. rpc \in Reader!RFinished => rpc = "done"
    BY <2>1 DEF Reader!RFinished, RowsInv
  <2> QED BY <2>1, <2>2, <2>3, AnswerIsTable, RoundTripAssumption DEF ReadInv
<1>3. Inv /\ Inv' /\ [RTNext]_allVars => [Store1!Next]_<<stored, answer>>
  <2> SUFFICES ASSUME Inv, Inv', [RTNext]_allVars PROVE [Store1!Next]_<<stored, answer>>
    OBVIOUS
  <2>1. CASE ~Intact /\ ~Intact'
    BY <2>1
  <2>2. CASE DamageLink
    <3>1. ~Intact' /\ rpc = "idle" /\ answer' = Nothing /\ answer = Nothing
      BY <2>2 DEF DamageLink, Intact, Reader!RFinished
    <3>2. stored' = Nothing
      BY <3>1
    <3>3. stored # Nothing => Store1!Lose
      BY <3>1, <3>2 DEF Store1!Lose
    <3> QED BY <3>1, <3>2, <3>3 DEF Store1!Next
  <2>3. ASSUME [Next]_vars, damaged' = damaged
        PROVE  /\ tab' = tab /\ Intact' = Intact /\ Expected(tab, FALSE)' = Expected(tab, FALSE)
    <3>1. tab' = tab /\ WellFormed' = WellFormed
      BY <2>3, InputFixed, RowSame
    <3>2. FlagsReadable' = FlagsReadable
      BY <3>1, FlagsSame
    <3> QED BY <2>3, <3>1, <3>2 DEF Intact
  <2>4. CASE [Next]_vars /\ UNCHANGED rvars /\ damaged' = damaged /\ pc # "done" /\ Intact
    <3>1. tab' = tab /\ Intact' /\ Expected(tab, FALSE)' = Expected(tab, FALSE)
      BY <2>3, <2>4
    <3>2. rpc = "idle" /\ rpc' = "idle" /\ answer = Nothing /\ answer' = Nothing
      BY <1>2, <2>4 DEF rvars, Reader!RFinished
    <3>3. stored = Nothing
      BY <2>4
    <3>4. CASE pc' = "done"
      <4>1. stored' = Expected(tab, FALSE) /\ stored' # Nothing /\ stored' \in content
        BY <1>2, <2>4, <3>1, <3>4
      <4> QED BY <3>2, <3>3, <4>1 DEF Store1!Save, Store1!Next
    <3>5. CASE pc' # "done"
      BY <3>2, <3>3, <3>5
    <3> QED BY <3>4, <3>5
  <2>5. CASE UNCHANGED vars /\ Reader!RNext /\ damaged' = damaged /\ Success /\ Intact
    <3>1. tab' = tab /\ Intact' /\ Expected(tab, FALSE)' = Expected(tab, FALSE) /\ pc = "done" /\ pc' = "done"
      BY <2>3, <2>5 DEF Success, vars
    <3>2. /\ stored = Expected(tab, FALSE) /\ stored' = stored /\ stored # Nothing
      BY <1>2, <2>5, <3>1
    <3>3. rpc \notin Reader!RFinished /\ answer = Nothing
      <4>1. rpc \notin Reader!RFinished
        BY <2>5 DEF Reader!RFinished, Reader!RNext, Reader!Open, Reader!NextOfArray, Reader!NextOfHash,
                    Reader!HashDone, Reader!Columns, Reader!NextRow, Reader!RowsRead
      <4> QED BY <4>1
    <3>4. CASE rpc' \in Reader!RFinished
      <4>1. answer' = Expected(tab, FALSE)
        <5>1. (BothInv /\ BackInv /\ Intact /\ rpc \in Reader!RFinished)'
          BY <3>1, <3>4 DEF Reader!RFinished
        <5>2. Answered(FALSE)' = Expected(tab, FALSE)'
          <6>1. CallOK' /\ RowsInv' /\ rpc' = "done"
            BY <5>1 DEF BothInv, BackInv, Intact, AllInv, SpaceInv, IInv, TypeOK, RowsInv, Reader!RFinished
          <6>2. (CallOK /\ RowsInv /\ rpc = "done")'
            BY <6>1
          <6>3. (Answered(FALSE) = Expected(tab, FALSE))'
            BY <6>2, AnswerIsTable, PTL
          <6> QED BY <6>3
        <5> QED BY <3>1, <3>4, <5>2
      <4> QED BY <3>2, <4>1 DEF Store1!Load, Store1!Next
    <3>5. CASE rpc' \notin Reader!RFinished
      BY <3>2, <3>3, <3>5
    <3> QED BY <3>4, <3>5
  <2>6. CASE UNCHANGED vars /\ UNCHANGED rvars /\ damaged' = damaged
    <3>1. pc' = pc /\ rpc' = rpc /\ Answered(FALSE)' = Answered(FALSE)
      BY <2>6 DEF vars, rvars, Answered
    <3>2. Intact' = Intact /\ Expected(tab, FALSE)' = Expected(tab, FALSE)
      BY <2>3, <2>6
    <3>3. stored' = stored
      BY <3>1, <3>2
    <3>4. answer' = answer
      BY <3>1, <3>2 DEF Reader!RFinished
    <3> QED BY <3>3, <3>4
  <2>7. Intact' = Intact \/ DamageLink
    BY <2>3, Turns
  <2> QED BY <2>1, <2>2, <2>4, <2>5, <2>6, <2>7, Turns
<1> HIDE DEF stored, answer
<1> QED BY <1>1, <1>3, BothInit, BothStep, BackInit, BackStep, PTL DEF RTSpec, ReadBack, Store1!Spec, stored, answer, Inv
=============================================================================
