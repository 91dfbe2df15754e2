------------------------- MODULE LegacyTableWriter -------------------------
(***************************************************************************)
(* TableWriter::write: one legacy table is turned into an image in two     *)
(* passes.  The layout pass reserves space for the names, computes where   *)
(* every column info, name and node will be, and threads the nodes into    *)
(* the hash table; the write pass appends the sections to a buffer and     *)
(* must put each item exactly where the layout pass said.  The buffer is   *)
(* then patched: nodes are linked inside their hash slots, the header is   *)
(* filled in, and the text sections may be scrambled.                      *)
(*                                                                         *)
(* One iteration of a loop of the code is one step here.                   *)
(***************************************************************************)
EXTENDS LegacyFormat, SequencesExt

CONSTANTS
  Tables,    \* the tables write may be called with
  Options    \* the write options: [wii, hashSlots, scramble]

ASSUME WriterAssumption ==
  /\ Tables \subseteq Table
  /\ \A t \in Tables : ParentsExist(t)
  /\ Options \subseteq [wii : BOOLEAN, hashSlots : Nat \ {0}, scramble : BOOLEAN]

VARIABLES
  tab, opt,      \* the arguments of the call
  pc,            \* the phase the call is in
  k,             \* index of the info, name, node or string being handled
  row, col,      \* the row and the value in it being written
  nameBase, nameLen, nameMax,  \* StringTable "names": base_offset, len, max_len
  nameOff,       \* the offset insert gave each name (0 is the table's)
  spaceAt,       \* history: max_len before each make_space call
  infoPtr,       \* ColumnTableBuilder::info_offsets
  dataOff,       \* the offset of each column's cell in a row
  infoLen, rowLen,   \* ColumnTables: info_len, row_data_len
  chain,         \* HashTable::slots, as node pointers
  buf, pos,      \* the buffer and its cursor
  hashOffset, rowOffset, finalPadding,   \* HeaderData
  rowStart,      \* history: the cursor at the start of each row
  strBase, strLen, strOff, strList,  \* StringTable "strings"
  header,        \* the header fields, once write_header ran
  scrambled      \* the byte ranges rescramble went over

input == <<tab, opt>>
names == <<nameBase, nameLen, nameMax, nameOff, spaceAt>>
infos == <<infoPtr, dataOff, infoLen, rowLen>>
strings == <<strBase, strLen, strOff, strList>>
marks == <<hashOffset, rowOffset, finalPadding, rowStart>>
rowAt == <<row, col>>
result == <<header, scrambled>>
vars == <<input, pc, k, rowAt, names, infos, chain, buf, pos, marks, strings,
          result>>

N == ItemCount(tab)
Label(j) == IF j = 0 THEN tab.name ELSE ItemLabel(tab, j)

(* make_space and make_space_names: the space reserved for name j.         *)
ReservedSizeNoNode(j) == NameSize(Label(j))
ReservedSize(j) ==
  NameSize(Label(j)) + (IF opt.wii /\ j > 0 THEN NodeSize(TRUE) ELSE 0)

(* insert and insert_wii_name: the space name j takes.  In the Wii format  *)
(* a column's node is stored in front of its name.                         *)
InsertedSize(j) ==
  IF opt.wii /\ j > 0 THEN NameSize(Label(j)) + NodeSize(TRUE)
  ELSE NameSize(Label(j))

(* build_regular: where the nodes will start. *)
NodesOffsetUnpadded == HeaderSize(opt.wii) + nameLen + infoLen
NodesOffset == HeaderSize(opt.wii) + nameMax + infoLen
NodePtr(j) ==
  IF opt.wii THEN nameBase + nameOff[j]
  ELSE NodesOffset + (j - 1) * NodeSize(FALSE)
NamePtr(j) == nameBase + nameOff[j] + (IF opt.wii /\ j > 0 THEN 4 ELSE 0)

Phases == {"start", "reserve", "infos", "nodes", "writeInfos", "writeNames",
           "writeNodes", "hash", "link", "rows", "strings", "header",
           "scramble", "done", "error", "panicNode", "panicRows"}
Finished == {"done", "error", "panicNode", "panicRows"}

NoHeader == [names |-> 0, rowLen |-> 0, hashes |-> 0, hashSlots |-> 0,
             rows |-> 0, rowCount |-> 0, strings |-> 0, stringsLen |-> 0,
             nodes |-> 0, nodeCount |-> 0, scrambled |-> FALSE]

Empty == [x \in {} |-> 0]

Init ==
  /\ tab \in Tables /\ opt \in Options
  /\ pc = "start" /\ k = 0 /\ row = 1 /\ col = 1
  /\ nameBase = HeaderSize(opt.wii) /\ nameLen = 0 /\ nameMax = 0
  /\ nameOff = Empty /\ spaceAt = Empty
  /\ infoPtr = Empty /\ dataOff = Empty /\ infoLen = 0 /\ rowLen = 0
  /\ chain = [s \in 0..(opt.hashSlots - 1) |-> <<>>]
  /\ buf = Empty /\ pos = 0
  /\ hashOffset = 0 /\ rowOffset = 0 /\ finalPadding = 0 /\ rowStart = Empty
  /\ strBase = 0 /\ strLen = 0 /\ strOff = Empty /\ strList = <<>>
  /\ header = NoHeader /\ scrambled = {}

(* Leaving a loop for the next phase, whose index starts at first. *)
Goto(phase, first) == pc' = phase /\ k' = first
Stay == UNCHANGED pc /\ k' = k + 1

Extend(f, j, x) == [i \in DOMAIN f \cup {j} |-> IF i = j THEN x ELSE f[i]]

-----------------------------------------------------------------------------
(* Layout pass. *)

(* init_names: the table's own name is reserved and inserted at once. *)
ReserveTableName ==
  /\ pc = "start"
  /\ spaceAt' = Extend(spaceAt, 0, nameMax)
  /\ nameMax' = nameMax + ReservedSize(0)
  /\ nameOff' = Extend(nameOff, 0, nameLen)
  /\ nameLen' = nameLen + InsertedSize(0)
  /\ Goto("reserve", 1)
  /\ UNCHANGED <<input, rowAt, nameBase, infos, chain, buf, pos, marks,
                 strings, result>>

(* init_names: make_space_names for one column or flag. *)
ReserveName ==
  /\ pc = "reserve" /\ k <= N
  /\ spaceAt' = Extend(spaceAt, k, nameMax)
  /\ nameMax' = nameMax + ReservedSize(k)
  /\ Stay
  /\ UNCHANGED <<input, rowAt, nameBase, nameLen, nameOff, infos, chain, buf,
                 pos, marks, strings, result>>

ReserveDone ==
  /\ pc = "reserve" /\ k > N
  /\ Goto("infos", 1)
  /\ UNCHANGED <<input, rowAt, names, infos, chain, buf, pos, marks, strings,
                 result>>

(* from_columns: offsets of one column info and of its cell. *)
AddInfo ==
  /\ pc = "infos" /\ k <= N
  /\ infoPtr' = Extend(infoPtr, k, HeaderSize(opt.wii) + infoLen)
  /\ dataOff' = Extend(dataOff, k, rowLen)
  /\ infoLen' = infoLen + InfoSize(tab, k)
  /\ rowLen' = rowLen + DataSize(tab, k)
  /\ Stay
  /\ UNCHANGED <<input, rowAt, names, chain, buf, pos, marks, strings, result>>

(* from_columns: the name table starts after the padded info table. *)
InfosDone ==
  /\ pc = "infos" /\ k > N
  /\ infoLen' = PadTo(4, infoLen)
  /\ nameBase' = nameBase + PadTo(4, infoLen)
  /\ Goto("nodes", 1)
  /\ UNCHANGED <<input, rowAt, nameLen, nameMax, nameOff, spaceAt, infoPtr,
                 dataOff, rowLen, chain, buf, pos, marks, strings, result>>

(* build_regular and build_wii: the item's name is inserted and its node   *)
(* pushed on a hash slot.  A pointer beyond u16 is an error in the Wii     *)
(* format and an unwrap() panic in the other one.                          *)
AddNode ==
  /\ pc = "nodes" /\ k <= N
  /\ nameOff' = Extend(nameOff, k, nameLen)
  /\ nameLen' = nameLen + InsertedSize(k)
  /\ LET ptr == IF opt.wii THEN nameBase + nameLen
                ELSE NodesOffset + (k - 1) * NodeSize(FALSE)
         slot == Slot(Label(k), opt.hashSlots)
     IN  \/ /\ FitsU16(ptr)
            /\ chain' = [chain EXCEPT ![slot] = Append(@, ptr)]
            /\ Stay
         \/ /\ ~FitsU16(ptr)
            /\ Goto(IF opt.wii THEN "error" ELSE "panicNode", k)
            /\ UNCHANGED chain
  /\ UNCHANGED <<input, rowAt, nameBase, nameMax, spaceAt, infos, buf, pos,
                 marks, strings, result>>

(* The layout is complete; write leaves room for the header. *)
NodesDone ==
  /\ pc = "nodes" /\ k > N
  /\ pos' = HeaderSize(opt.wii)
  /\ Goto("writeInfos", 1)
  /\ UNCHANGED <<input, rowAt, names, infos, chain, buf, marks, strings, result>>

-----------------------------------------------------------------------------
(* Write pass. *)

(* What a column info stores: the offset of its cell, or the node of the   *)
(* column a flag belongs to.                                               *)
InfoVal(j) ==
  IF IsFlag(tab, j) THEN NodePtr(FlagOf(tab, j).parent) ELSE dataOff[j]
InfoFits(j) ==
  /\ FitsU16(InfoVal(j))
  /\ (~IsFlag(tab, j) /\ tab.columns[j].count > 1)
       => FitsU16(tab.columns[j].count)

WriteInfo ==
  /\ pc = "writeInfos" /\ k <= N
  /\ \/ /\ InfoFits(k)
        /\ buf' = Store(buf, pos, Cell("info", k, InfoVal(k)))
        /\ pos' = pos + InfoSize(tab, k)
        /\ Stay
     \/ /\ ~InfoFits(k)
        /\ Goto("error", k)
        /\ UNCHANGED <<buf, pos>>
  /\ UNCHANGED <<input, rowAt, names, infos, chain, marks, strings, result>>

WriteInfosDone ==
  /\ pc = "writeInfos" /\ k > N
  /\ pos' = IF pos < HeaderSize(opt.wii) + infoLen
            THEN HeaderSize(opt.wii) + infoLen ELSE pos
  /\ Goto("writeNames", 0)
  /\ UNCHANGED <<input, rowAt, names, infos, chain, buf, marks, strings, result>>

(* StringTable::write, a plain name. *)
WriteName ==
  /\ pc = "writeNames" /\ k <= N
  /\ ~opt.wii \/ k = 0
  /\ buf' = Store(buf, pos, Cell("name", k, 0))
  /\ pos' = pos + NameSize(Label(k))
  /\ Stay
  /\ UNCHANGED <<input, rowAt, names, infos, chain, marks, strings, result>>

(* StringTable::write, a Wii node and the name behind it.  The conversion  *)
(* of info_ptr is checked but cannot fail, the node itself being further   *)
(* in the image and addressable: if it could, the call would be stuck here *)
(* and TLC would report a deadlock.  The same holds of WriteNode.          *)
WriteWiiNode ==
  /\ pc = "writeNames" /\ k <= N
  /\ opt.wii /\ k > 0
  /\ FitsU16(infoPtr[k])
  /\ buf' = StoreAll(buf,
              [a \in {pos, pos + 2, pos + 4} |->
                 IF a = pos THEN Cell("nodeInfo", k, infoPtr[k])
                 ELSE IF a = pos + 2 THEN Cell("nodeLink", 0, 0)
                 ELSE Cell("name", k, 0)])
  /\ pos' = pos + 4 + NameSize(Label(k))
  /\ Stay
  /\ UNCHANGED <<input, rowAt, names, infos, chain, marks, strings, result>>

WriteNamesDone ==
  /\ pc = "writeNames" /\ k > N
  /\ Goto(IF opt.wii THEN "hash" ELSE "writeNodes", 1)
  /\ UNCHANGED <<input, rowAt, names, infos, chain, buf, pos, marks, strings,
                 result>>

(* ColumnNode::write, not for the Wii format. *)
WriteNode ==
  /\ pc = "writeNodes" /\ k <= N
  /\ FitsU16(infoPtr[k]) /\ FitsU16(NamePtr(k))
  /\ buf' = StoreAll(buf,
              [a \in {pos, pos + 2, pos + 4} |->
                 IF a = pos THEN Cell("nodeInfo", k, infoPtr[k])
                 ELSE IF a = pos + 2 THEN Cell("nodeLink", 0, 0)
                 ELSE Cell("nodeName", k, NamePtr(k))])
  /\ pos' = pos + NodeSize(FALSE)
  /\ Stay
  /\ UNCHANGED <<input, rowAt, names, infos, chain, marks, strings, result>>

WriteNodesDone ==
  /\ pc = "writeNodes" /\ k > N
  /\ Goto("hash", 1)
  /\ UNCHANGED <<input, rowAt, names, infos, chain, buf, pos, marks, strings,
                 result>>

(* HashTable::write_first_level: the first node of each slot, or 0. *)
FirstLevelSize(slots) == PadTo(8, 2 * slots)

WriteFirstLevel ==
  /\ pc = "hash"
  /\ hashOffset' = pos
  /\ buf' = StoreAll(buf,
              [a \in {pos + 2 * s : s \in DOMAIN chain} |->
                 LET s == (a - pos) \div 2
                 IN  Cell("slot", s, IF chain[s] = <<>> THEN 0 ELSE chain[s][1])])
  /\ pos' = pos + FirstLevelSize(opt.hashSlots)
  /\ Goto("link", 1)
  /\ UNCHANGED <<input, rowAt, names, infos, chain, rowOffset, finalPadding, rowStart,
                 strings, result>>

(* write: sum(data_size) * row_count, padded. *)
TotalRowSize == PadTo(32, rowLen * Len(tab.rows))

(* HashTable::write_other_levels: each node of a slot points to the next.  *)
(* The cursor then returns to the end of the buffer, where the rows start. *)
LinkAtName(ptr) == ptr + 4
LinkAt(ptr) == ptr + 2

(* The positions in the slots that have a successor: slot.windows(2). *)
WindowsButLast ==
  {p \in (DOMAIN chain) \X (1..N) : p[2] + 1 < Len(chain[p[1]])}
Windows == {p \in (DOMAIN chain) \X (1..N) : p[2] < Len(chain[p[1]])}

NodeIn(p) == chain[p[1]][p[2]]
NextIn(p) == chain[p[1]][p[2] + 1]
WindowAt(a) == CHOOSE p \in Windows : LinkAt(NodeIn(p)) = a
Links ==
  [a \in {LinkAt(NodeIn(p)) : p \in Windows} |->
     Cell("nodeLink", 0, NextIn(WindowAt(a)))]

LinkNodes ==
  /\ pc = "link"
  /\ buf' = StoreAll(buf, Links)
  /\ rowOffset' = pos
  /\ rowStart' = Extend(rowStart, 1, pos)
  /\ strBase' = pos + TotalRowSize
  /\ Goto("rows", 1)
  /\ UNCHANGED <<input, rowAt, names, infos, chain, pos, hashOffset,
                 finalPadding, strLen, strOff, strList, result>>

(* StringTable::insert for the strings: each text is stored once. *)
IsNew(text) == text # NoText /\ text \notin DOMAIN strOff

(* RowWriter::write_value.  StringTable::insert gives a string met before  *)
(* the offset it already has.                                              *)
WriteValue ==
  /\ pc = "rows" /\ row <= Len(tab.rows) /\ col <= Len(tab.rows[row])
  /\ LET cell == tab.rows[row][col]
         new == IsNew(cell.text)
         ptr == IF cell.text = NoText THEN cell.num
                ELSE IF new THEN strBase + strLen ELSE strBase + strOff[cell.text]
     IN  /\ buf' = Store(buf, pos, Cell("value", cell.width, ptr))
         /\ pos' = pos + cell.width
         /\ strOff' = IF new THEN Extend(strOff, cell.text, strLen) ELSE strOff
         /\ strList' = IF new THEN Append(strList, cell.text) ELSE strList
         /\ strLen' = IF new THEN strLen + NameSize(cell.text) ELSE strLen
  /\ col' = col + 1
  /\ UNCHANGED <<input, pc, k, row, names, infos, chain, marks, strBase, result>>

RowDone ==
  /\ pc = "rows" /\ row <= Len(tab.rows) /\ col > Len(tab.rows[row])
  /\ row' = row + 1 /\ col' = 1
  /\ rowStart' = Extend(rowStart, row + 1, pos)
  /\ UNCHANGED <<input, pc, k, names, infos, chain, buf, pos, hashOffset,
                 rowOffset, finalPadding, strings, result>>

(* write asserts that the rows take the space computed in advance. *)
RowsDone ==
  /\ pc = "rows" /\ row > Len(tab.rows)
  /\ LET size == pos - rowOffset
     IN  \/ /\ TotalRowSize = PadTo(32, size)
            /\ pos' = rowOffset + PadTo(32, size)
            /\ Goto("strings", 1)
         \/ /\ TotalRowSize # PadTo(32, size)
            /\ Goto("panicRows", k)
            /\ UNCHANGED pos
  /\ UNCHANGED <<input, rowAt, names, infos, chain, buf, marks, strings, result>>

WriteString ==
  /\ pc = "strings" /\ k <= Len(strList)
  /\ buf' = Store(buf, pos, Cell("string", k, 0))
  /\ pos' = pos + NameSize(strList[k])
  /\ Stay
  /\ UNCHANGED <<input, rowAt, names, infos, chain, marks, strings, result>>

FinalPaddingSwapped == pos - PadTo(64, pos)
FinalPadding == PadTo(64, pos) - pos

StringsDone ==
  /\ pc = "strings" /\ k > Len(strList)
  /\ pos' = PadTo(64, pos)
  /\ finalPadding' = FinalPadding
  /\ Goto("header", 1)
  /\ UNCHANGED <<input, rowAt, names, infos, chain, buf, hashOffset, rowOffset,
                 rowStart, strings, result>>

(* write_header: every offset is converted to u16 with a check, except the *)
(* name table's.  The string size includes the padding at the end.         *)
HeaderFits ==
  /\ FitsU16(rowLen) /\ FitsU16(hashOffset) /\ FitsU16(opt.hashSlots)
  /\ FitsU16(rowOffset) /\ FitsU16(Len(tab.rows))
  /\ ~opt.wii => FitsU16(nameBase + nameLen) /\ FitsU16(N)

WriteHeader ==
  /\ pc = "header"
  /\ \/ /\ HeaderFits
        /\ header' =
             [names |-> AsU16(HeaderSize(opt.wii) + infoLen),
              rowLen |-> rowLen, hashes |-> hashOffset,
              hashSlots |-> opt.hashSlots, rows |-> rowOffset,
              rowCount |-> Len(tab.rows), strings |-> strBase,
              stringsLen |-> strLen + finalPadding,
              nodes |-> IF opt.wii THEN 0 ELSE nameBase + nameLen,
              nodeCount |-> IF opt.wii THEN 0 ELSE N,
              scrambled |-> opt.scramble]
        /\ Goto(IF opt.scramble THEN "scramble" ELSE "done", k)
     \/ /\ ~HeaderFits
        /\ Goto("error", k)
        /\ UNCHANGED header
  /\ UNCHANGED <<input, rowAt, names, infos, chain, buf, pos, marks, strings,
                 scrambled>>

(* rescramble: names and nodes, then the strings without their padding. *)
ScrambledRangesWithInfos ==
  {<<HeaderSize(opt.wii), hashOffset>>, <<strBase, strBase + strLen>>}
ScrambledRanges == {<<nameBase, hashOffset>>, <<strBase, strBase + strLen>>}

Rescramble ==
  /\ pc = "scramble"
  /\ scrambled' = ScrambledRanges
  /\ Goto("done", k)
  /\ UNCHANGED <<input, rowAt, names, infos, chain, buf, pos, marks, strings,
                 header>>

LayoutStep ==
  \/ ReserveTableName \/ ReserveName \/ ReserveDone
  \/ AddInfo \/ InfosDone \/ AddNode \/ NodesDone
WriteStep ==
  \/ WriteInfo \/ WriteInfosDone
  \/ WriteName \/ WriteWiiNode \/ WriteNamesDone \/ WriteNode \/ WriteNodesDone
  \/ WriteFirstLevel \/ LinkNodes
  \/ WriteValue \/ RowDone \/ RowsDone \/ WriteString \/ StringsDone
PatchStep == WriteHeader \/ Rescramble

(* The call has returned or panicked. *)
Returned == pc \in Finished /\ UNCHANGED vars

Next == LayoutStep \/ WriteStep \/ PatchStep \/ Returned

Spec == Init /\ [][Next]_vars
-----------------------------------------------------------------------------
(* Properties. *)

NatFun(f) == f \in [DOMAIN f -> Nat]

(* The type invariant, part by part.                                       *)
CallOK == tab \in Tables /\ opt \in Options
ControlOK == pc \in Phases /\ k \in Nat /\ row \in Nat \ {0} /\ col \in Nat \ {0}
NamesOK ==
  /\ nameBase \in Nat /\ nameLen \in Nat /\ nameMax \in Nat
  /\ NatFun(nameOff) /\ DOMAIN nameOff \subseteq 0..N
  /\ NatFun(spaceAt) /\ DOMAIN spaceAt \subseteq 0..N
InfosOK ==
  /\ NatFun(infoPtr) /\ DOMAIN infoPtr \subseteq 1..N
  /\ NatFun(dataOff) /\ DOMAIN dataOff \subseteq 1..N
  /\ infoLen \in Nat /\ rowLen \in Nat
ChainOK == chain \in [0..(opt.hashSlots - 1) -> Seq(Nat)]
ImageOK == buf \in [DOMAIN buf -> MemCell] /\ DOMAIN buf \subseteq Nat /\ pos \in Nat
MarksOK ==
  /\ hashOffset \in Nat /\ rowOffset \in Nat /\ finalPadding \in Nat
  /\ NatFun(rowStart)
StringsOK ==
  /\ strBase \in Nat /\ strLen \in Nat
  /\ NatFun(strOff) /\ DOMAIN strOff \subseteq Text /\ strList \in Seq(Text)
ResultOK == DOMAIN header = DOMAIN NoHeader /\ scrambled \subseteq Nat \X Nat
(* The state of a call of write is well-typed throughout.                  *)
TypeOK ==
  /\ CallOK /\ ControlOK /\ NamesOK /\ InfosOK /\ ChainOK /\ ImageOK
  /\ MarksOK /\ StringsOK /\ ResultOK

(* How far the layout pass has come, phase by phase: which names, infos    *)
(* and nodes have their place.                                             *)
WritePhases == {"writeInfos", "writeNames", "writeNodes", "hash", "link",
                "rows", "strings", "header", "scramble", "done", "panicRows"}
Progress ==
  /\ pc = "start" => k = 0 /\ DOMAIN nameOff = {} /\ DOMAIN spaceAt = {}
  /\ pc \in {"reserve", "infos", "nodes", "writeInfos", "writeNodes"} => k \in 1..(N + 1)
  /\ pc = "writeNames" => k \in 0..(N + 1)
  /\ pc = "strings" => k >= 1
  /\ pc \in {"reserve", "infos"} => DOMAIN nameOff = {0}
  /\ pc = "nodes" => DOMAIN nameOff = 0..(k - 1)
  /\ pc \in WritePhases => DOMAIN nameOff = 0..N
  /\ pc = "reserve" => DOMAIN spaceAt = 0..(k - 1)
  /\ pc \in WritePhases \cup {"infos", "nodes"} => DOMAIN spaceAt = 0..N
  /\ pc \in {"start", "reserve"} => DOMAIN infoPtr = {} /\ DOMAIN dataOff = {}
  /\ pc = "infos" => DOMAIN infoPtr = 1..(k - 1) /\ DOMAIN dataOff = 1..(k - 1)
  /\ pc \in WritePhases \cup {"nodes"} => DOMAIN infoPtr = 1..N /\ DOMAIN dataOff = 1..N

Holds(a, cell) == a \in DOMAIN buf /\ buf[a] = cell
ValAt(a) == IF a \in DOMAIN buf THEN buf[a].val ELSE 0

LaidOut == pc \notin {"start", "reserve", "infos", "nodes", "error", "panicNode"}
Written == pc \in {"strings", "header", "scramble", "done"}
Success == pc = "done"

(* The nodes are addressed from the space reserved for the names before    *)
(* any name was inserted: both passes over the names must agree, whatever  *)
(* the table, or every node pointer of the image is off.                   *)
SpaceReservedIsUsed == LaidOut => nameLen = nameMax

(* Every pointer the layout pass computed (column infos, names, nodes) is  *)
(* the place where the write pass put that very item, and no later patch   *)
(* damaged it.  A string value of a row points to its own text, though the *)
(* string table is written after the rows and equal strings only once.     *)
PointersLand ==
  /\ pc \in {"rows", "strings", "header", "scramble", "done"} =>
       \A j \in 1..N :
         /\ Holds(infoPtr[j], Cell("info", j, InfoVal(j)))
         /\ Holds(NodePtr(j), Cell("nodeInfo", j, infoPtr[j]))
         /\ Holds(NamePtr(j), Cell("name", j, 0))
         /\ ~opt.wii => Holds(NodePtr(j) + 4, Cell("nodeName", j, NamePtr(j)))
  /\ pc \in {"header", "scramble", "done"} =>
       /\ \A t \in DOMAIN strOff :
            \E j \in 1..Len(strList) :
              strList[j] = t /\ Holds(strBase + strOff[t], Cell("string", j, 0))
       /\ \A i, j \in 1..Len(strList) : strList[i] = strList[j] => i = j

(* The bytes a cell of the image takes, a text with its terminator. *)
CellSize(cell) ==
  CASE cell.kind = "info" -> InfoSize(tab, cell.item)
    [] cell.kind = "name" -> TextLen[Label(cell.item)] + 1
    [] cell.kind = "string" -> TextLen[strList[cell.item]] + 1
    [] cell.kind = "value" -> cell.item
    [] OTHER -> 2

(* No two items of the image share a byte.                                 *)
ItemsDisjoint ==
  \A a, b \in DOMAIN buf : a < b => a + CellSize(buf[a]) <= b

(* Once written, a cell changes only when a node is linked to the next one *)
(* of its slot: the late seeks of write_other_levels and write_header      *)
(* never hit anything else.                                                *)
OnlyLinksArePatched ==
  [][\A a \in DOMAIN buf :
       /\ a \in DOMAIN buf'
       /\ buf'[a] = buf[a] \/ (buf[a].kind = "nodeLink" /\ buf'[a].kind = "nodeLink")
    ]_vars

(* What a lookup walks through: the nodes of a slot, following the links   *)
(* stored in the image; 0 ends a chain.                                    *)
Visit(s) ==
  LET at[i \in 1..(N + 1)] ==
        IF i = 1 THEN ValAt(hashOffset + 2 * s)
        ELSE IF at[i - 1] = 0 THEN 0 ELSE ValAt(at[i - 1] + 2)
  IN  at

(* A lookup by name finds every column and flag: the chain of slot s ends, *)
(* and goes through exactly the nodes whose name hashes to s.              *)
ChainsComplete ==
  Success =>
    \A s \in 0..(opt.hashSlots - 1) :
      LET at == Visit(s)
          nodes == {at[i] : i \in 1..(N + 1)} \ {0}
      IN  /\ at[N + 1] = 0
          /\ nodes = {NodePtr(j) : j \in {i \in 1..N : Slot(Label(i), opt.hashSlots) = s}}

(* When write succeeds, no u16 of the image was truncated: pointers, links *)
(* and offsets are what the layout computed, although the offset of the    *)
(* names is stored with a wrapping cast.                                   *)
NoSilentTruncation ==
  Success =>
    /\ header.names = nameBase
    /\ \A f \in {"names", "rowLen", "hashes", "rows", "rowCount", "nodes", "nodeCount"} :
         header[f] <= U16Max
    /\ \A a \in DOMAIN buf : buf[a].kind # "value" => buf[a].val <= U16Max

(* A row fits its columns: as many values of the same width and type.      *)
ValueEnd ==
  LET end[c \in 0..Len(tab.columns)] ==
        IF c = 0 THEN 0 ELSE end[c - 1] + tab.columns[c].count
  IN  end
FitsColumns(cells) ==
  /\ Len(cells) = ValueEnd[Len(tab.columns)]
  /\ \A c \in 1..Len(tab.columns) :
       \A i \in (ValueEnd[c - 1] + 1)..ValueEnd[c] :
         /\ cells[i].width = tab.columns[c].width
         /\ (cells[i].text # NoText) = tab.columns[c].isText
WellFormed == \A i \in 1..Len(tab.rows) : FitsColumns(tab.rows[i])

(* If every row fits the columns, row i starts where a reader looks for it *)
(* (row_data_offset + i * row_len), and the size assertion never fires.    *)
RowsAligned ==
  WellFormed =>
    /\ pc # "panicRows"
    /\ Written =>
         \A i \in 1..Len(tab.rows) : rowStart[i] = rowOffset + (i - 1) * rowLen

(* The scrambled ranges start where a reader's unscrambling starts, and    *)
(* what it unscrambles beyond them is only the padding after the strings.  *)
ScrambleRangesAgree ==
  (Success /\ opt.scramble) =>
    /\ <<header.names, header.hashes>> \in scrambled
    /\ <<header.strings, strBase + strLen>> \in scrambled
    /\ header.strings + header.stringsLen = pos
    /\ \A a \in DOMAIN buf : buf[a].kind = "string" => a + CellSize(buf[a]) <= strBase + strLen
=============================================================================
