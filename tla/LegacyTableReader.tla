------------------------- MODULE LegacyTableReader -------------------------
(***************************************************************************)
(* TableReader::read: from the image of one legacy table back to the       *)
(* table.  In the X/2/DE formats the columns are read from an array of     *)
(* nodes; in the Wii/3DS format there is no such array and they are        *)
(* discovered by walking the chains of the hash table.  Flags are then     *)
(* attached to their columns, and the rows are read value after value.     *)
(*                                                                         *)
(* The image is the writer's.  An info cell stands for the bytes that      *)
(* describe the item it names, so type, width and count are looked up in   *)
(* the table by that item.  A name or node is only read where one starts:  *)
(* were the code to read unrelated bytes, the step here would be disabled  *)
(* and TLC would report a deadlock.  A row read with the wrong columns     *)
(* (the image was damaged) goes astray, and one with flags on anything but *)
(* an integer is a panic.                                                  *)
(***************************************************************************)
EXTENDS LegacyFormat, SequencesExt

VARIABLES
  tab, opt,             \* the table that was written, and how
  buf, header, strList, \* the image: its cells, its header, its strings
  rpc,                  \* the phase of the call
  node,                 \* the index of the next node (X/2/DE)
  toVisit, visited,     \* the work list of discover_columns_from_hash (Wii)
  found,                \* the columns and flags discovered that way
  cols, flags,          \* TableColumns
  outCols, outRows      \* the columns and rows of the LegacyTable

image == <<tab, opt, buf, header, strList>>
discovery == <<node, toVisit, visited, found>>
rvars == <<rpc, discovery, cols, flags, outCols, outRows>>

RInit ==
  /\ rpc = "idle" /\ node = 0 /\ toVisit = <<>> /\ visited = {} /\ found = {}
  /\ cols = <<>> /\ flags = <<>> /\ outCols = <<>> /\ outRows = <<>>

Is(kind, a) == a \in DOMAIN buf /\ buf[a].kind = kind
Name(item) == IF item = 0 THEN tab.name ELSE ItemLabel(tab, item)

(* read_cell: the parent of a flag is found through the parent's node. *)
InfoReadable(a) ==
  /\ Is("info", a)
  /\ IsFlag(tab, buf[a].item) => Is("nodeInfo", buf[a].val)
ColumnData(a, label) ==
  LET item == buf[a].item
  IN  [label |-> label, info |-> a, item |-> item, isFlag |-> IsFlag(tab, item),
       offset |-> IF IsFlag(tab, item) THEN 0 ELSE buf[a].val,
       parentInfo |-> IF IsFlag(tab, item) THEN buf[buf[a].val].val ELSE 0]

(* read_column_from_node and read_column_from_hash_node: in the Wii format *)
(* the name is behind the node, in the other one behind a pointer.         *)
NameAt(p) == IF opt.wii THEN p + 4 ELSE buf[p + 4].val
NodeReadable(p) ==
  /\ Is("nodeInfo", p) /\ Is("nodeLink", p + 2)
  /\ opt.wii \/ Is("nodeName", p + 4)
  /\ Is("name", NameAt(p))
  /\ InfoReadable(buf[p].val)
ReadNode(p) == ColumnData(buf[p].val, Name(buf[NameAt(p)].item))
NextNode(p) == buf[p + 2].val

-----------------------------------------------------------------------------
SlotHeads ==
  [s \in 1..header.hashSlots |-> buf[header.hashes + 2 * (s - 1)].val]

HeadOf(s) == IF SlotHeads[s] = 0 THEN <<>> ELSE <<SlotHeads[s]>>

(* read: the header is known, the name of the table is read first.  The    *)
(* work list starts with the head of every slot that is not empty.         *)
Open ==
  /\ rpc = "idle"
  /\ Is("name", header.names)
  /\ IF opt.wii
     THEN /\ rpc' = "hash"
          /\ toVisit' = FlattenSeq([s \in 1..header.hashSlots |-> HeadOf(s)])
          /\ visited' = ToSet(toVisit')
     ELSE rpc' = "nodes" /\ UNCHANGED <<toVisit, visited>>
  /\ UNCHANGED <<node, found, cols, flags, outCols, outRows, image>>

(* discover_columns_from_nodes: one node of the array. *)
NodeSeek == header.nodes + node * NodeSize(FALSE)

NextOfArray ==
  /\ rpc = "nodes" /\ node < header.nodeCount
  /\ NodeReadable(NodeSeek)
  /\ LET column == ReadNode(NodeSeek)
     IN  IF column.isFlag
         THEN flags' = Append(flags, column) /\ UNCHANGED cols
         ELSE cols' = Append(cols, column) /\ UNCHANGED flags
  /\ node' = node + 1
  /\ UNCHANGED <<rpc, toVisit, visited, found, outCols, outRows, image>>

(* discover_columns_from_hash: one node of the work list.  Whether the     *)
(* node behind it is put on the list is up to the set of visited nodes.    *)
FollowAlways(next) == next # 0
Follow(next) == next # 0 /\ next \notin visited

NextOfHash ==
  /\ rpc = "hash" /\ toVisit # <<>>
  /\ LET p == Head(toVisit)
     IN  /\ NodeReadable(p)
         /\ found' = found \cup {ReadNode(p)}
         /\ IF Follow(NextNode(p))
            THEN /\ toVisit' = Append(Tail(toVisit), NextNode(p))
                 /\ visited' = visited \cup {NextNode(p)}
            ELSE toVisit' = Tail(toVisit) /\ UNCHANGED visited
  /\ UNCHANGED <<rpc, node, cols, flags, outCols, outRows, image>>

(* discover_columns_from_hash: hash order is undone by sorting on offsets. *)
SortedBy(S, key) ==
  [i \in 1..Cardinality(S) |->
     CHOOSE c \in S : Cardinality({d \in S : d[key] < c[key]}) = i - 1]

HashDone ==
  /\ rpc = "hash" /\ toVisit = <<>>
  /\ cols' = SortedBy({c \in found : ~c.isFlag}, "offset")
  /\ flags' = SortedBy({c \in found : c.isFlag}, "info")
  /\ rpc' = "nodes"
  /\ UNCHANGED <<discovery, outCols, outRows, image>>

-----------------------------------------------------------------------------
(* Flags.  [T]::partition_point of the standard library: a binary search   *)
(* for the first index where the predicate is false.  pred is the sequence *)
(* of its values.                                                          *)
PartitionPoint(pred) ==
  LET probe[size \in 0..Len(pred)] ==
        [base \in 0..(Len(pred) - size) |->
           IF size <= 1 THEN base
           ELSE LET half == size \div 2
                    mid == base + half
                IN  probe[size - half][IF pred[mid + 1] THEN mid ELSE base]]
      base == probe[Len(pred)][0]
  IN  IF pred = <<>> THEN 0 ELSE IF pred[base + 1] THEN base + 1 ELSE base

(* Flags::new: stable sort by the offset of the parent's info.  Of two     *)
(* flags of one parent, the first stays in front.                          *)
InFront(seq, i, j) ==
  \/ seq[i].parentInfo < seq[j].parentInfo
  \/ seq[i].parentInfo = seq[j].parentInfo /\ i < j
SortFlags(seq) ==
  [p \in 1..Len(seq) |->
     seq[CHOOSE j \in 1..Len(seq) :
           Cardinality({i \in 1..Len(seq) : InFront(seq, i, j)}) = p - 1]]

(* Flags::get_from_parent: partition_point is asked for the first flag of  *)
(* another column although the flags are not partitioned by that.          *)
FromParentUpperOnly(sorted, info) ==
  SubSeq(sorted, 1,
         PartitionPoint([i \in 1..Len(sorted) |-> sorted[i].parentInfo = info]))
FromParent(sorted, info) ==
  LET upper == PartitionPoint([i \in 1..Len(sorted) |-> sorted[i].parentInfo = info])
      lower == PartitionPoint([i \in 1..upper |-> sorted[i].parentInfo # info])
  IN  SubSeq(sorted, lower + 1, upper)

(* read: the columns with their flags. *)
LegacyColumn(c, sorted) ==
  LET own == FromParent(sorted, c.info)
  IN  [label |-> c.label, width |-> tab.columns[c.item].width,
       count |-> tab.columns[c.item].count, isText |-> tab.columns[c.item].isText,
       isFloat |-> tab.columns[c.item].isFloat,
       flags |-> [i \in 1..Len(own) |-> own[i].label]]

Columns ==
  /\ rpc = "nodes" /\ (opt.wii \/ node = header.nodeCount)
  /\ LET sorted == SortFlags(flags)
     IN  outCols' = [i \in 1..Len(cols) |-> LegacyColumn(cols[i], sorted)]
  /\ rpc' = "rows"
  /\ UNCHANGED <<discovery, cols, flags, outRows, image>>

-----------------------------------------------------------------------------
(* Rows.  RowReader::read_row reads count values per column, one after     *)
(* another; next_row seeks to the start of the next row.                   *)
ValueColumns ==
  FlattenSeq([c \in 1..Len(outCols) |-> [i \in 1..outCols[c].count |-> outCols[c]]])
RowStartLate(r) == header.rows + (IF r = 0 THEN 0 ELSE r - 1) * header.rowLen
RowStart(r) == header.rows + r * header.rowLen

(* The places of the values of row r, each with its column. *)
ValuesOf(r) ==
  LET columns == ValueColumns
      at[i \in 1..Len(columns)] ==
        IF i = 1 THEN RowStart(r) ELSE at[i - 1] + columns[i - 1].width
  IN  [i \in 1..Len(columns) |-> [col |-> columns[i], at |-> at[i]]]

ValueReadable(v) ==
  /\ Is("value", v.at) /\ buf[v.at].item = v.col.width
  /\ v.col.isText => Is("string", buf[v.at].val)
ReadValue(v) ==
  [width |-> v.col.width,
   text |-> IF v.col.isText THEN strList[buf[buf[v.at].val].item] ELSE NoText,
   num |-> IF v.col.isText THEN 0 ELSE buf[v.at].val]

(* The value of a column that has flags, and is no list, is taken apart    *)
(* with Value::to_integer, which panics, unless the reader has gone astray *)
(* at a value before.                                                      *)
ReadAsFlags(column) == column.count = 1 /\ column.flags # <<>>
NotIntegers == {c \in 1..Len(outCols) : ReadAsFlags(outCols[c]) /\ ~IsInteger(outCols[c])}

NextRow ==
  /\ rpc = "rows" /\ Len(outRows) < header.rowCount
  /\ \E values \in {ValuesOf(Len(outRows))} :
       \/ /\ \E i \in 1..Len(values) : ~ValueReadable(values[i])
          /\ rpc' = "astray"
          /\ UNCHANGED outRows
       \/ /\ NotIntegers # {}
          /\ rpc' = "panicked"
          /\ UNCHANGED outRows
       \/ /\ NotIntegers = {}
          /\ \A i \in 1..Len(values) : ValueReadable(values[i])
          /\ outRows' = Append(outRows, [i \in 1..Len(values) |-> ReadValue(values[i])])
          /\ UNCHANGED rpc
  /\ UNCHANGED <<discovery, cols, flags, outCols, image>>

RowsRead ==
  /\ rpc = "rows" /\ Len(outRows) = header.rowCount
  /\ rpc' = "done"
  /\ UNCHANGED <<discovery, cols, flags, outCols, outRows, image>>

RNext ==
  \/ Open \/ NextOfArray \/ NextOfHash \/ HashDone
  \/ Columns \/ NextRow \/ RowsRead

RFinished == {"done", "astray", "panicked"}
=============================================================================
