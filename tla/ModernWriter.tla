---------------------------- MODULE ModernWriter ----------------------------
(***************************************************************************)
(* Writing a file of modern (XC3) tables: io/modern/write.rs.  Each table  *)
(* is laid out on its own: the string table hands out an offset for each   *)
(* label and text as the columns and rows that point to it are written,    *)
(* and is itself written last; the header holds the offsets of all tables. *)
(*                                                                         *)
(* A section is a sequence of its entries; an entry that something points  *)
(* to is kept with its offset, and the bytes of a file are counted.        *)
(***************************************************************************)
EXTENDS Integers, SequencesExt

CONSTANTS
  Hashes,          \* hashes, as numbers: the key table is sorted by them
  Texts, TextLen,  \* texts, and the length of each; only the empty one has 0
  U16Max,          \* u16::MAX, brought into TLC's reach
  Files            \* the sequences of tables to be written

Label == [hashed : {TRUE}, of : Hashes] \cup [hashed : {FALSE}, of : Texts]
Types == {"byte", "short", "int", "text", "key"}
Column == [type : Types, label : Label]
Table == [name : Label, base : Nat, columns : Seq(Column),
          rows : Seq(Seq(Nat \cup Texts))]

(* Tables as the reader or the builder's users make them: a row has a cell *)
(* of the right type for each column.  Two rows may have the same key: the *)
(* builder refuses that, but rows_mut can bring it about.                  *)
RowFits(cs, row) ==
  /\ Len(row) = Len(cs)
  /\ \A c \in DOMAIN cs :
       row[c] \in CASE cs[c].type = "text" -> Texts
                    [] cs[c].type = "key" -> Hashes
                    [] OTHER -> Nat

ASSUME WriterAssumption ==
  /\ Hashes \subseteq Nat /\ TextLen \in [Texts -> Nat] /\ U16Max \in Nat
  /\ \A a, b \in Texts : (TextLen[a] = 0 /\ TextLen[b] = 0) => a = b
  /\ \A f \in Files :
       /\ f \in Seq(Table)
       /\ \A x \in DOMAIN f : \A r \in DOMAIN f[x].rows : RowFits(f[x].columns, f[x].rows[r])

VARIABLES
  file,      \* the tables given to write_file
  pc, t, k,  \* where the writer is: the table, and the item of its phase
  pairs,     \* LabelTable: each label with its offset, in the order of get
  next,      \* LabelTable::offset
  cols,      \* column_table: type and name pointer of each column
  cells,     \* row_table: width and value of each cell, with its offset
  keys,      \* primary_keys, pairs of a hash and a row id
  cursor, written,  \* LabelTable::write: where it writes, and thinks it does
  placed,    \* the labels as they are written, with their offsets
  images,    \* the tables written so far
  offsets    \* FileHeader::table_offsets, once the file header is written

wvars == <<file, pc, t, k, pairs, next, cols, cells, keys, cursor, written,
           placed, images, offsets>>

Tab == file[t]
RowId(r) == Tab.base + r - 1
Width(type) == CASE type = "byte" -> 1 [] type = "short" -> 2 [] OTHER -> 4
IsKey(c) == c.type = "key"
Primary(cs) == SelectInSeq(cs, IsKey)   \* the first hash column; 0 for none

TextLabel(s) == [hashed |-> FALSE, of |-> s]
IsEmpty(l) == ~l.hashed /\ TextLen[l.of] = 0
SizeOf(l) == IF l.hashed THEN 4 ELSE TextLen[l.of] + 1

(* LabelTable::get.  The four bytes at 5 are left free, as in the games.   *)
Known(l) == {i \in DOMAIN pairs : pairs[i].label = l}
NextFree == IF next = 5 THEN next + 4 ELSE next
Pointer(l) ==
  IF IsEmpty(l) THEN 0
  ELSE IF Known(l) # {} THEN pairs[CHOOSE i \in Known(l) : TRUE].at
  ELSE NextFree
Get(l) ==
  IF IsEmpty(l) \/ Known(l) # {} THEN UNCHANGED <<pairs, next>>
  ELSE /\ pairs' = Append(pairs, [label |-> l, at |-> NextFree])
       /\ next' = NextFree + SizeOf(l)

-----------------------------------------------------------------------------
Init ==
  /\ file \in Files
  /\ t = 1 /\ images = <<>> /\ offsets = <<>>
  /\ pc = (IF file = <<>> THEN "header" ELSE "name")
  /\ k = 1 /\ pairs = <<>> /\ next = 1 /\ cols = <<>> /\ cells = <<>>
  /\ keys = <<>> /\ cursor = 1 /\ written = 1 /\ placed = {}

WriteName ==
  /\ pc = "name" /\ pc' = "columns"
  /\ Get(Tab.name)
  /\ UNCHANGED <<file, t, k, cols, cells, keys, cursor, written, placed, images, offsets>>

(* A name pointer has 16 bits; one that needs more is refused.             *)
FitsU16Never(p) == TRUE
FitsU16(p) == p <= U16Max
AsU16(p) == p % (U16Max + 1)

WriteColumn ==
  /\ pc = "columns" /\ k <= Len(Tab.columns)
  /\ LET c == Tab.columns[k]
     IN  /\ Get(c.label)
         /\ \/ /\ FitsU16(Pointer(c.label))
               /\ cols' = Append(cols, [type |-> c.type, name |-> AsU16(Pointer(c.label))])
               /\ k' = k + 1 /\ UNCHANGED pc
            \/ /\ ~FitsU16(Pointer(c.label))
               /\ pc' = "error" /\ UNCHANGED <<k, cols>>
  /\ UNCHANGED <<file, t, cells, keys, cursor, written, placed, images, offsets>>

ColumnsDone ==
  /\ pc = "columns" /\ k > Len(Tab.columns)
  /\ pc' = "rows" /\ k' = 1
  /\ UNCHANGED <<file, t, pairs, next, cols, cells, keys, cursor, written,
                 placed, images, offsets>>

(* write_value, for the k-th cell of the table. *)
CellRow == ((k - 1) \div Len(Tab.columns)) + 1
CellColumn == ((k - 1) % Len(Tab.columns)) + 1
CellCount == Len(Tab.columns) * Len(Tab.rows)
RowBytes == IF cells = <<>> THEN 0 ELSE Last(cells).at + Last(cells).width

WriteCell ==
  /\ pc = "rows" /\ k <= CellCount
  /\ LET c == Tab.columns[CellColumn]
         v == Tab.rows[CellRow][CellColumn]
         text == c.type = "text"
     IN  /\ IF text THEN Get(TextLabel(v)) ELSE UNCHANGED <<pairs, next>>
         /\ cells' = Append(cells, [at |-> RowBytes, width |-> Width(c.type),
                                    val |-> IF text THEN Pointer(TextLabel(v)) ELSE v])
         /\ keys' = IF CellColumn = Primary(Tab.columns)
                    THEN Append(keys, <<v, RowId(CellRow)>>) ELSE keys
  /\ k' = k + 1
  /\ UNCHANGED <<file, pc, t, cols, cursor, written, placed, images, offsets>>

RowsDone ==
  /\ pc = "rows" /\ k > CellCount
  /\ pc' = "keys" /\ k' = 1
  /\ UNCHANGED <<file, t, pairs, next, cols, cells, keys, cursor, written,
                 placed, images, offsets>>

Before(a, b) == a[1] < b[1] \/ (a[1] = b[1] /\ a[2] <= b[2])
AsFound(ks) == ks
Sorted(ks) ==   \* the x-th has x keys up to it, no two being the same
  [x \in DOMAIN ks |-> CHOOSE key \in ToSet(ks) :
                        Cardinality({y \in DOMAIN ks : Before(ks[y], key)}) = x]

SortKeys ==
  /\ pc = "keys"
  /\ LET ks == Sorted(keys)
         twice == \E i \in 1..(Len(ks) - 1) : ks[i][1] = ks[i + 1][1]
     IN  /\ keys' = [i \in DOMAIN ks |-> <<ks[i][1], ks[i][2] - Tab.base>>]
         /\ pc' = IF twice THEN "error" ELSE "labels"
  /\ UNCHANGED <<file, t, k, pairs, next, cols, cells, cursor, written, placed,
                 images, offsets>>

(* LabelTable::write: the cursor moves on by what is left out in between.  *)
Resync(at) == at

WriteLabel ==
  /\ pc = "labels" /\ k <= Len(pairs)
  /\ LET p == pairs[k]
         at == cursor + (p.at - written)
     IN  /\ placed' = placed \cup {[label |-> p.label, at |-> at]}
         /\ cursor' = at + SizeOf(p.label)
         /\ written' = Resync(p.at) + SizeOf(p.label)
  /\ k' = k + 1
  /\ UNCHANGED <<file, pc, t, pairs, next, cols, cells, keys, images, offsets>>

(* The table's header and sections, one after another, padded to 4.        *)
TableHeaderSize == 4 + 4 + 4 * 4 + 4 * 6
Unpadded(n) == n
PaddedLength(n) == n + ((4 - (n % 4)) % 4)
KeysAt == TableHeaderSize + 3 * Len(cols)
RowsAt == KeysAt + 8 * Len(keys)
StringsAt == RowsAt + RowBytes
RowLen ==
  IF CellCount = 0 THEN 0
  ELSE cells[Len(Tab.columns)].at + cells[Len(Tab.columns)].width
Image ==
  [nCols |-> Len(cols), nRows |-> Len(Tab.rows), base |-> Tab.base,
   colsAt |-> TableHeaderSize, keysAt |-> KeysAt, rowsAt |-> RowsAt,
   rowLen |-> RowLen, stringsAt |-> StringsAt, stringsLen |-> next,
   cols |-> cols, keys |-> keys, cells |-> cells, strings |-> placed,
   size |-> PaddedLength(StringsAt + next)]

WriteTable ==
  /\ pc = "labels" /\ k > Len(pairs)
  /\ images' = Append(images, Image)
  /\ t' = t + 1
  /\ pc' = IF t = Len(file) THEN "header" ELSE "name"
  /\ k' = 1 /\ pairs' = <<>> /\ next' = 1 /\ cols' = <<>> /\ cells' = <<>>
  /\ keys' = <<>> /\ cursor' = 1 /\ written' = 1 /\ placed' = {}
  /\ UNCHANGED <<file, offsets>>

HeaderLen == 4 + 4 + 8 + 4 * Len(images)
SizeUpTo(n) ==
  LET upTo[m \in 0..Len(images)] == IF m = 0 THEN 0 ELSE upTo[m - 1] + images[m].size
  IN  upTo[n]
FileLen == HeaderLen + SizeUpTo(Len(images))

WriteHeader ==
  /\ pc = "header" /\ pc' = "done"
  /\ offsets' = [n \in DOMAIN images |-> SizeUpTo(n - 1) + HeaderLen]
  /\ UNCHANGED <<file, t, k, pairs, next, cols, cells, keys, cursor, written,
                 placed, images>>

WriterStep ==
  \/ WriteName \/ WriteColumn \/ ColumnsDone \/ WriteCell \/ RowsDone
  \/ SortKeys \/ WriteLabel \/ WriteTable \/ WriteHeader
-----------------------------------------------------------------------------
(* Properties. *)

(* Every label and text is written where the columns and cells that use it *)
(* point to, the columns with 16 bits only and an empty one to the zero in *)
(* front, and no two of them, nor that zero, share a byte.                 *)
LeadsTo(pointer, l) ==
  IF IsEmpty(l) THEN pointer = 0 ELSE [label |-> l, at |-> pointer] \in placed
LabelsLand ==
  /\ \A p \in placed : \E i \in DOMAIN pairs : pairs[i] = p
  /\ (pc = "labels" /\ k > Len(pairs)) =>
       /\ \A c \in DOMAIN cols : LeadsTo(cols[c].name, Tab.columns[c].label)
       /\ \A r \in DOMAIN Tab.rows : \A c \in DOMAIN Tab.columns :
            Tab.columns[c].type = "text" =>
              LeadsTo(cells[(r - 1) * Len(Tab.columns) + c].val, TextLabel(Tab.rows[r][c]))
       /\ \A p, q \in placed :
            /\ p # q => p.at + SizeOf(p.label) <= q.at \/ q.at + SizeOf(q.label) <= p.at
            /\ p.at >= 1 /\ p.at + SizeOf(p.label) <= next

(* The key table can be searched by halving, as the game does: its hashes  *)
(* are in strictly ascending order, and each leads to a row that has it,   *)
(* each row being led to.  (docs/MODERN.md, Row ID table.)                 *)
KeyTableSearchable ==
  \A n \in DOMAIN images :
    LET ks == images[n].keys
        p == Primary(file[n].columns)
    IN  /\ \A i, j \in DOMAIN ks : i < j => ks[i][1] < ks[j][1]
        /\ \A i \in DOMAIN ks : file[n].rows[ks[i][2] + 1][p] = ks[i][1]
        /\ p # 0 => Len(ks) = Len(file[n].rows)

(* Each table starts on a multiple of 4, after the file header and the     *)
(* table in front of it, and all of its sections are in the file.          *)
TablesApart ==
  pc = "done" =>
    \A n \in DOMAIN images :
      LET end == IF n = Len(images) THEN FileLen ELSE offsets[n + 1]
      IN  /\ offsets[n] % 4 = 0 /\ offsets[n] >= HeaderLen
          /\ offsets[n] + images[n].stringsAt + images[n].stringsLen <= end
=============================================================================
