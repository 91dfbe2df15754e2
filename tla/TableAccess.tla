----------------------------- MODULE TableAccess -----------------------------
(***************************************************************************)
(* Tables in memory: the builder, the two table types built from it, the   *)
(* changes a user of the library may make to them, the conversion from one *)
(* to the other, and what its indexes answer: columns by label (NameMap),  *)
(* rows by number and, in modern tables, rows by their hashed id.          *)
(*                                                                         *)
(* Labels are numbers, in the order of enum Label: hashes come before the  *)
(* strings, which start at FirstString.                                    *)
(***************************************************************************)
EXTENDS NameMap

CONSTANTS
  FirstString,
  Hashes, NoHash,     \* the hash-ref values of rows; a row without one
  U16Max, U32Max,     \* u16::MAX and u32::MAX, brought into TLC's reach
  ColumnLists, RowLists,    \* what set_columns and set_rows may be given
  MaxColumns, MaxRows, MaxChanges   \* bounds for TLC

(* portable: the value type exists in both formats.  single: all cells of  *)
(* the row are Cell::Single.                                               *)
Column == [label : Labels, portable : BOOLEAN]
Row == [hash : Hashes \cup {NoHash}, single : BOOLEAN]

ASSUME AccessAssumption ==
  /\ FirstString \in Nat /\ NoHash \notin Hashes
  /\ U16Max \in Nat /\ U32Max \in Nat /\ U16Max <= U32Max
  /\ ColumnLists \subseteq Seq(Column) /\ RowLists \subseteq Seq(Row)
  /\ MaxColumns \in Nat /\ MaxRows \in Nat /\ MaxChanges \in Nat

VARIABLES
  kind,        \* "legacy" or "modern"
  phase,       \* "builder", "table", or how the life of the table ended
  columns,     \* ColumnMap::columns
  labelMap,    \* ColumnMap::label_map, pairs of a label and a position
  base, rows,  \* base_id and the rows
  hashIds,     \* ModernTable::row_hash_table
  relabelled,  \* history: a label was changed after labelMap was made
  replaced,    \* history: a row was replaced after hashIds was made
  changes      \* counts the calls, up to MaxChanges

vars == <<kind, phase, columns, labelMap, base, rows, hashIds, relabelled,
          replaced, changes>>

Empty == [x \in {} |-> 0]

IdMax == IF kind = "legacy" THEN U16Max ELSE U32Max
RowOf(k) == IF k = "legacy" THEN [hash : {NoHash}, single : BOOLEAN]
            ELSE [hash : Hashes \cup {NoHash}, single : {TRUE}]
ColumnOf(k) == IF k = "legacy" THEN {c \in Column : c.portable /\ c.label >= FirstString}
               ELSE Column

(* ColumnMap::from_iter *)
IndexOf(cols) == Collect([i \in DOMAIN cols |-> cols[i].label])

(* RowIdIter, as rows() and build_id_map_checked use it: a u32 that wraps. *)
IdOf(b, i) == (b + i - 1) % (U32Max + 1)

(* get_row: the index of the row with an id; 0 stands for None.            *)
GetRowAnyBase(id) == IF id < Len(rows) THEN id + 1 ELSE 0
GetRow(id) == IF id >= base /\ id - base < Len(rows) THEN id - base + 1 ELSE 0

(* build_id_map_checked: panics for a duplicate key.  The first overflow   *)
(* of an id is the last one here: a build with overflow checks panics, one *)
(* without them goes on with 0.                                            *)
HashesOf(rs) == {rs[i].hash : i \in DOMAIN rs} \ {NoHash}
Duplicates(rs) ==
  \E i, j \in DOMAIN rs : i < j /\ rs[i].hash = rs[j].hash /\ rs[i].hash # NoHash
RowWith(rs, h) == CHOOSE i \in DOMAIN rs : rs[i].hash = h
IdMapFromZero(b, rs) == [h \in HashesOf(rs) |-> IdOf(0, RowWith(rs, h))]
IdMap(b, rs) == [h \in HashesOf(rs) |-> IdOf(b, RowWith(rs, h))]
Overflows(b, rs) == b + Len(rs) > U32Max

GetRowByHash(h) == IF h \in DOMAIN hashIds THEN GetRow(hashIds[h]) ELSE 0

-----------------------------------------------------------------------------
(* with_name *)
Init ==
  /\ kind \in {"legacy", "modern"} /\ phase = "builder"
  /\ columns = <<>> /\ labelMap = <<>>
  /\ base = 1 /\ rows = <<>>
  /\ hashIds = Empty /\ relabelled = FALSE /\ replaced = FALSE /\ changes = 0

Change == changes < MaxChanges /\ changes' = changes + 1

AddColumn ==
  /\ phase = "builder" /\ Len(columns) < MaxColumns
  /\ \E c \in ColumnOf(kind) :
       /\ columns' = Append(columns, c)
       /\ labelMap' = Push(labelMap, c.label)
  /\ Change
  /\ UNCHANGED <<kind, phase, base, rows, hashIds, relabelled, replaced>>

SetColumns ==
  /\ phase = "builder"
  /\ \E cs \in ColumnLists :
       /\ \A i \in DOMAIN cs : cs[i] \in ColumnOf(kind)
       /\ columns' = cs
       /\ labelMap' = IndexOf(cs)
  /\ relabelled' = FALSE
  /\ Change
  /\ UNCHANGED <<kind, phase, base, rows, hashIds, replaced>>

AddRow ==
  /\ phase = "builder" /\ Len(rows) < MaxRows
  /\ \E r \in RowOf(kind) : rows' = Append(rows, r)
  /\ Change
  /\ UNCHANGED <<kind, phase, columns, labelMap, base, hashIds, relabelled, replaced>>

SetRows ==
  /\ phase = "builder"
  /\ \E rs \in RowLists :
       /\ \A i \in DOMAIN rs : rs[i] \in RowOf(kind)
       /\ rows' = rs
  /\ Change
  /\ UNCHANGED <<kind, phase, columns, labelMap, base, hashIds, relabelled, replaced>>

SetBaseId ==
  /\ phase = "builder"
  /\ \E b \in 0..IdMax : base' = b
  /\ Change
  /\ UNCHANGED <<kind, phase, columns, labelMap, rows, hashIds, relabelled, replaced>>

(* ModernTable::new *)
NewModern(b, rs) ==
  \/ /\ Duplicates(rs) \/ Overflows(b, rs)
     /\ phase' = "panic"
     /\ UNCHANGED <<hashIds, replaced>>
  \/ /\ ~Duplicates(rs)
     /\ phase' = "table"
     /\ hashIds' = IdMap(b, rs)
     /\ replaced' = FALSE

BuildModern ==
  /\ phase = "builder" /\ kind = "modern"
  /\ NewModern(base, rows)
  /\ Change
  /\ UNCHANGED <<kind, columns, labelMap, base, rows, relabelled>>

(* LegacyTableBuilder::try_build and the conversion check in the same way  *)
(* that all ids, and the one after the last, fit in a u16.                 *)
FitsRowsOnly(b, rs) == Len(rs) <= U16Max /\ b <= U16Max
FitsLegacy(b, rs) == Len(rs) <= U16Max /\ b + Len(rs) <= U16Max

BuildLegacy ==
  /\ phase = "builder" /\ kind = "legacy"
  /\ phase' = IF FitsLegacy(base, rows) THEN "table" ELSE "error"
  /\ Change
  /\ UNCHANGED <<kind, columns, labelMap, base, rows, hashIds, relabelled, replaced>>

(* columns_mut: any column may be replaced, the index is not told. *)
Relabel ==
  /\ phase = "table"
  /\ \E i \in DOMAIN columns, c \in ColumnOf(kind) :
       /\ columns' = ReplaceAt(columns, i, c)
       /\ relabelled' = (relabelled \/ c.label # columns[i].label)
  /\ Change
  /\ UNCHANGED <<kind, phase, labelMap, base, rows, hashIds, replaced>>

(* rows_mut *)
ReplaceRow ==
  /\ phase = "table"
  /\ \E i \in DOMAIN rows, r \in RowOf(kind) :
       /\ rows' = ReplaceAt(rows, i, r)
       /\ replaced' = (replaced \/ r.hash # rows[i].hash)
  /\ Change
  /\ UNCHANGED <<kind, phase, columns, labelMap, base, hashIds, relabelled>>

(* TableBuilder::from(table): the column map moves along, as it is.        *)
IntoBuilder ==
  /\ phase = "table" /\ phase' = "builder"
  /\ hashIds' = Empty
  /\ Change
  /\ UNCHANGED <<kind, columns, labelMap, base, rows, relabelled, replaced>>

(* TryFrom<ModernTable> for LegacyTable: the column map is made anew.      *)
LegacyColumns == \A i \in DOMAIN columns : columns[i].portable /\ columns[i].label >= FirstString
ConvertToLegacy(nameIsString) ==
  /\ phase = "table" /\ kind = "modern"
  /\ \/ /\ base <= U16Max /\ nameIsString /\ LegacyColumns /\ FitsLegacy(base, rows)
        /\ kind' = "legacy"
        /\ labelMap' = IndexOf(columns)
        /\ hashIds' = Empty /\ relabelled' = FALSE /\ replaced' = FALSE
        /\ UNCHANGED phase
     \/ /\ ~(base <= U16Max /\ nameIsString /\ LegacyColumns /\ FitsLegacy(base, rows))
        /\ phase' = "error"
        /\ UNCHANGED <<kind, labelMap, hashIds, relabelled, replaced>>
  /\ Change
  /\ UNCHANGED <<columns, base, rows>>

(* TryFrom<LegacyTable> for ModernTable: only single-value cells convert.  *)
ConvertToModern ==
  /\ phase = "table" /\ kind = "legacy"
  /\ \/ /\ \A i \in DOMAIN rows : rows[i].single
        /\ kind' = "modern"
        /\ labelMap' = IndexOf(columns) /\ relabelled' = FALSE
        /\ NewModern(base, rows)
     \/ /\ \E i \in DOMAIN rows : ~rows[i].single
        /\ phase' = "error"
        /\ UNCHANGED <<kind, labelMap, hashIds, relabelled, replaced>>
  /\ Change
  /\ UNCHANGED <<columns, base, rows>>

(* The table is gone, or the calls are used up. *)
Stop ==
  /\ phase \in {"error", "panic"} \/ changes = MaxChanges
  /\ UNCHANGED vars

Next ==
  \/ AddColumn \/ SetColumns \/ AddRow \/ SetRows \/ SetBaseId
  \/ BuildModern \/ BuildLegacy
  \/ Relabel \/ ReplaceRow \/ IntoBuilder
  \/ \E nameIsString \in BOOLEAN : ConvertToLegacy(nameIsString)
  \/ ConvertToModern
  \/ Stop

Spec == Init /\ [][Next]_vars
-----------------------------------------------------------------------------
(* Properties. *)

DistinctLabels ==
  \A i, j \in DOMAIN columns : i # j => columns[i].label # columns[j].label

(* The label index can be searched by halving whatever is done to the      *)
(* table: its labels are in strictly ascending order.  If no two columns   *)
(* share a label and none was relabelled through columns_mut, every label  *)
(* finds its column and no other label does, through any sequence of       *)
(* building, unbuilding and converting.                                    *)
LookupFindsColumn ==
  /\ \A i, j \in DOMAIN labelMap : i < j => labelMap[i].label < labelMap[j].label
  /\ (DistinctLabels /\ ~relabelled) =>
       \A l \in Labels :
         LET p == Position(labelMap, l)
         IN  IF p = 0 THEN \A i \in DOMAIN columns : columns[i].label # l
             ELSE p \in DOMAIN columns /\ columns[p].label = l

(* The ids rows() gives to the rows of a table are those get_row finds     *)
(* them by.  A legacy table always has ids that fit, a modern one as long  *)
(* as its last id does.                                                    *)
RowIdsResolve ==
  (phase = "table" /\ (kind = "modern" => base + Len(rows) - 1 <= U32Max)) =>
    \A i \in DOMAIN rows : IdOf(base, i) <= IdMax /\ GetRow(IdOf(base, i)) = i

(* Looking a row up by its hash finds that row and every row that has one, *)
(* unless rows_mut was used to change hashes (which its doc forbids).      *)
HashFindsRow ==
  (phase = "table" /\ kind = "modern" /\ ~replaced /\ base + Len(rows) - 1 <= U32Max) =>
    \A h \in Hashes :
      LET i == GetRowByHash(h)
      IN  IF i = 0 THEN h \notin HashesOf(rows) ELSE rows[i].hash = h

(* After a conversion between the formats every row is found by the id it  *)
(* had before, and every column by some label: a stale index is repaired.  *)
ConversionKeepsIds ==
  [][(kind' # kind /\ phase' = "table") =>
       /\ \A i \in DOMAIN rows : GetRow(IdOf(base, i))' = i
       /\ \A i \in DOMAIN columns : Position(labelMap', columns[i].label) # 0]_vars
=============================================================================
