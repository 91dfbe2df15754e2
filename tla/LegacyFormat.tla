---------------------------- MODULE LegacyFormat ----------------------------
(***************************************************************************)
(* What the writer and the reader of legacy BDAT tables (Xenoblade X, 2,   *)
(* DE, and the Wii/3DS variant) share: sizes, padding, the shape of a      *)
(* table in memory and the cells a table image is made of.                 *)
(*                                                                         *)
(* A text is a value of Text: only its length in bytes and the sum its     *)
(* hash is computed from matter to the layout.  An image is a function     *)
(* from byte offsets to cells; a cell stands for the bytes one write call  *)
(* of the code produces.                                                   *)
(***************************************************************************)
EXTENDS Integers, Sequences

CONSTANTS
  Text,      \* every name and every string value
  TextLen,   \* its length in bytes (str::len)
  HashSum,   \* HashTable::hash of it, before the modulo
  NoText,    \* marks a value that is a number
  U16Max     \* u16::MAX; a smaller value brings the limit into TLC's reach

ASSUME FormatAssumption ==
  /\ TextLen \in [Text -> Nat]
  /\ HashSum \in [Text -> Nat]
  /\ NoText \notin Text
  /\ U16Max \in Nat

(* util.rs: len rounded up to a multiple of n (n is a power of two). *)
PadTo(n, len) == len + ((n - (len % n)) % n)

(* usize -> u16: try_into() fails beyond the limit, "as u16" wraps. *)
FitsU16Slack(x) == x <= U16Max + 30
FitsU16(x) == x <= U16Max
AsU16(x) == x % (U16Max + 1)

HeaderSize(wii) == IF wii THEN 32 ELSE 64
NodeSize(wii) == IF wii THEN 4 ELSE 6

-----------------------------------------------------------------------------
(* Tables.  A column holds count values of width bytes each: texts, floats *)
(* or integers.  The flags of all columns are listed in one sequence,      *)
(* column after column, which is the order flat_map(|c| c.flags()) visits  *)
(* them in; parent is the index of the column a flag belongs to.  A row is *)
(* the sequence of the values of its cells (the values of a list cell      *)
(* follow one another, a flags cell is the one integer its flags are       *)
(* packed in); text is the string of a string value, and NoText is that of *)
(* a number num.                                                           *)
Column ==
  [label : Text, width : {1, 2, 4}, count : Nat \ {0}, isText : BOOLEAN, isFloat : BOOLEAN]
IsInteger(column) == ~column.isText /\ ~column.isFloat
Flag == [label : Text, parent : Nat \ {0}]
CellValue ==
  [width : {1, 2, 4}, text : {NoText}, num : Nat]
    \cup [width : {1, 2, 4}, text : Text, num : {0}]

Table ==
  [name : Text, columns : Seq(Column), flags : Seq(Flag),
   rows : Seq(Seq(CellValue))]

ParentsExist(tbl) ==
  /\ \A f \in 1..Len(tbl.flags) : tbl.flags[f].parent <= Len(tbl.columns)
  /\ \A f, g \in 1..Len(tbl.flags) :
       f < g => tbl.flags[f].parent <= tbl.flags[g].parent

(* Column infos and nodes: the columns first, then the flags. *)
ItemCount(tbl) == Len(tbl.columns) + Len(tbl.flags)
IsFlag(tbl, k) == k > Len(tbl.columns)
FlagOf(tbl, k) == tbl.flags[k - Len(tbl.columns)]
ItemLabel(tbl, k) ==
  IF IsFlag(tbl, k) THEN FlagOf(tbl, k).label ELSE tbl.columns[k].label

(* ColumnInfo::get_size and ColumnInfo::data_size. *)
InfoSize(tbl, k) ==
  IF IsFlag(tbl, k) THEN 8 ELSE IF tbl.columns[k].count > 1 THEN 6 ELSE 4
DataSizeOfOne(tbl, k) ==
  IF IsFlag(tbl, k) THEN 0 ELSE tbl.columns[k].width
DataSize(tbl, k) ==
  IF IsFlag(tbl, k) THEN 0
  ELSE tbl.columns[k].width * (IF tbl.columns[k].count > 1
                               THEN tbl.columns[k].count ELSE 1)

(* The space a name takes, its terminator and padding included. *)
NameSizeNoTerminator(t) == PadTo(2, TextLen[t])
NameSize(t) == PadTo(2, TextLen[t] + 1)

Slot(t, slots) == HashSum[t] % slots

-----------------------------------------------------------------------------
(* Images. *)
CellKind == {"info", "name", "nodeInfo", "nodeLink", "nodeName", "slot",
             "value", "string"}

(* kind says what was written, item which one (a column info, a name, a    *)
(* slot or a string by its index, a value by its width), val the number    *)
(* it holds.                                                               *)
MemCell == [kind : CellKind, item : Nat, val : Nat]
Cell(kind, item, val) == [kind |-> kind, item |-> item, val |-> val]

(* The image after a write at an offset. *)
Store(mem, at, cell) ==
  [a \in DOMAIN mem \cup {at} |-> IF a = at THEN cell ELSE mem[a]]

(* The image after several writes: writes is a function from offsets. *)
StoreAll(mem, writes) ==
  [a \in DOMAIN mem \cup DOMAIN writes |->
     IF a \in DOMAIN writes THEN writes[a] ELSE mem[a]]
=============================================================================
