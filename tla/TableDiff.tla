------------------------------ MODULE TableDiff ------------------------------
(***************************************************************************)
(* The diff command: "new" and "old" files are read by several workers,    *)
(* the tables of either side are merged by name, and the tables both sides *)
(* have are compared row by row and printed.  A file of names may give the *)
(* hashed labels of modern tables their names back.                        *)
(*                                                                         *)
(* Labels are numbers as in NameMap.  A cell is a value; Composite ones    *)
(* (lists and flags of legacy tables) hold several.  A table in a file has *)
(* a name, its columns' labels, a base id and rows of cells.               *)
(***************************************************************************)
EXTENDS NameMap

CONSTANTS
  Inputs,      \* what the command may be run on: [files, names]
  Values, Composite,
  NoCell       \* no cell has this label

FileTable ==
  [name : Labels, modern : BOOLEAN, columns : Seq(Labels), base : Nat, rows : Seq(Seq(Values))]

(* files: the new files, then the old ones; readable: the file can be      *)
(* opened and parsed; names: HashNameTable, from hashes to names, none of  *)
(* which is a hash.  Only cells of legacy tables are composite.            *)
File == [new : BOOLEAN, readable : BOOLEAN, tables : Seq(FileTable)]

ASSUME DiffAssumption ==
  /\ Composite \subseteq Values /\ NoCell \notin Values
  /\ \A in \in Inputs :
       /\ in.files \in Seq(File)
       /\ DOMAIN in.names \subseteq Labels
       /\ \A h \in DOMAIN in.names : in.names[h] \in Labels \ DOMAIN in.names
       /\ \A f \in ToSet(in.files) : \A t \in ToSet(f.tables) :
            \A r \in ToSet(t.rows) :
              Len(r) = Len(t.columns) /\ (t.modern => ToSet(r) \cap Composite = {})

VARIABLES
  input,
  stage,             \* "read", "compare", "print", "done" or "panic"
  got,               \* the outcome of reading each file: tables, by index
  oldTables, newTables,   \* the merged tables, by name
  todo,              \* the names of old tables that were not compared yet
  rowChanges,        \* the changed rows of the current table still to be printed
  printed            \* what the user has been shown

diffVars == <<input, stage, got, oldTables, newTables, todo, rowChanges, printed>>

NoTables == [x \in {} |-> <<>>]
Outcome(state, tables) == [state |-> state, tables |-> tables]

-----------------------------------------------------------------------------
(* HashNameTable::get_label *)
Unhash(names, l) == IF l \in DOMAIN names THEN names[l] ELSE l

(* A table as it is read: the label index is made with the columns.        *)
ReadTableNoIndex(t) ==
  [name |-> t.name, modern |-> t.modern, columns |-> t.columns,
   index |-> Collect(Tail(t.columns)), base |-> t.base, rows |-> t.rows]
ReadTable(t) ==
  [name |-> t.name, modern |-> t.modern, columns |-> t.columns,
   index |-> Collect(t.columns), base |-> t.base, rows |-> t.rows]

(* convert_all: the columns of a modern table are replaced through         *)
(* columns_mut, which leaves the label index as it is.                     *)
ConvertColumnsOnly(names, t) ==
  [t EXCEPT !.columns = [i \in DOMAIN @ |-> Unhash(names, @[i])]]
ConvertAll(names, t) ==
  IF ~t.modern THEN t
  ELSE [t EXCEPT !.name = Unhash(names, @),
                 !.columns = [i \in DOMAIN @ |-> Unhash(names, @[i])]]

(* CompatTable::get_row and rows: the index of the row with an id, or 0.      *)
RowIndex(t, id) == IF id >= t.base /\ id - t.base < Len(t.rows) THEN id - t.base + 1 ELSE 0
RowIds(t) == {t.base + i - 1 : i \in DOMAIN t.rows}

(* RowRef::get_if_present: through the label index. *)
CellAtFirst(t, i, l) == t.rows[i][1]
CellAt(t, i, l) ==
  IF Position(t.index, l) = 0 THEN NoCell ELSE t.rows[i][Position(t.index, l)]

(* RowDiff::diff.  Rows that only the old table has are never asked about. *)
(* A change whose value is NoCell stands for the panic of RowRef::get.     *)
CellChange(l, added, value) == [label |-> l, added |-> added, value |-> value]
RowDiff(old, new, id) ==
  LET i == RowIndex(old, id)
      j == RowIndex(new, id)
      oldCols == ToSet(old.columns)
      newCols == ToSet(new.columns)
      changed == {l \in oldCols \cap newCols :
                    /\ CellAt(old, i, l) # NoCell /\ CellAt(new, j, l) # NoCell
                    /\ CellAt(old, i, l) # CellAt(new, j, l)}
  IN  IF i = 0 THEN {CellChange(l, TRUE, CellAt(new, j, l)) : l \in newCols}
      ELSE {CellChange(l, TRUE, CellAt(new, j, l)) : l \in newCols \ oldCols}
           \cup {CellChange(l, FALSE, CellAt(old, i, l)) : l \in oldCols \ newCols}
           \cup {CellChange(l, FALSE, CellAt(old, i, l)) : l \in changed}
           \cup {CellChange(l, TRUE, CellAt(new, j, l)) : l \in changed}

(* The rows of the new table in order, those without a change left out.    *)
RowChanges(old, new) ==
  LET changed(i) ==
        [row |-> new.base + i - 1, cells |-> RowDiff(old, new, new.base + i - 1)]
  IN  FlattenSeq([i \in DOMAIN new.rows |->
        IF changed(i).cells # {} THEN <<changed(i)>> ELSE <<>>])
Panics(found) ==
  \E i \in DOMAIN found : \E c \in found[i].cells : c.value = NoCell

-----------------------------------------------------------------------------
DiffInit ==
  /\ input \in Inputs
  /\ stage = "read"
  /\ got = [i \in DOMAIN input.files |-> Outcome("pending", <<>>)]
  /\ oldTables = NoTables /\ newTables = NoTables
  /\ todo = {} /\ rowChanges = <<>>
  /\ printed = [added |-> {}, removed |-> {}, changed |-> {}]

(* A worker reads a file.  One that fails is dropped by flat_map.          *)
ReadFile(i) ==
  /\ stage = "read" /\ got[i].state = "pending"
  /\ got' = [got EXCEPT ![i] =
       IF ~input.files[i].readable THEN Outcome("dropped", <<>>)
       ELSE Outcome("read", [k \in DOMAIN input.files[i].tables |->
              ConvertAll(input.names, ReadTable(input.files[i].tables[k]))])]
  /\ UNCHANGED <<input, stage, oldTables, newTables, todo, rowChanges, printed>>

(* partition_map and the two maps: results keep the order of the files,    *)
(* and of two tables with one name the later one stays.                    *)
TablesRead(new) ==
  FlattenSeq([i \in DOMAIN got |->
                IF input.files[i].new = new THEN got[i].tables ELSE <<>>])
ByNameFirst(tables) ==
  [n \in {tables[i].name : i \in DOMAIN tables} |->
     tables[CHOOSE i \in DOMAIN tables :
              /\ tables[i].name = n
              /\ \A j \in DOMAIN tables : tables[j].name = n => j >= i]]
ByName(tables) ==
  [n \in {tables[i].name : i \in DOMAIN tables} |->
     tables[CHOOSE i \in DOMAIN tables :
              /\ tables[i].name = n
              /\ \A j \in DOMAIN tables : tables[j].name = n => j <= i]]

(* All workers are done: added and removed tables are printed. *)
Merge ==
  /\ stage = "read" /\ \A i \in DOMAIN got : got[i].state # "pending"
  /\ oldTables' = ByName(TablesRead(FALSE))
  /\ newTables' = ByName(TablesRead(TRUE))
  /\ printed' = [printed EXCEPT !.added = DOMAIN newTables' \ DOMAIN oldTables',
                                !.removed = DOMAIN oldTables' \ DOMAIN newTables']
  /\ todo' = DOMAIN oldTables'
  /\ stage' = "compare"
  /\ UNCHANGED <<input, got, rowChanges>>

(* The old tables are gone through in the order of their names. *)
Current == Min(todo)

SkipRemoved ==
  /\ stage = "compare" /\ todo # {} /\ Current \notin DOMAIN newTables
  /\ todo' = todo \ {Current}
  /\ UNCHANGED <<input, stage, got, oldTables, newTables, rowChanges, printed>>

(* All changes of a table are collected before the first is printed. *)
Compare ==
  /\ stage = "compare" /\ todo # {} /\ Current \in DOMAIN newTables
  /\ LET found == RowChanges(oldTables[Current], newTables[Current])
     IN  \/ Panics(found) /\ stage' = "panic" /\ UNCHANGED rowChanges
         \/ ~Panics(found) /\ stage' = "print" /\ rowChanges' = found
  /\ UNCHANGED <<input, got, oldTables, newTables, todo, printed>>

(* RowChanges::print: only single values can be printed.  Both lines of a  *)
(* row are put together before either is printed.                          *)
PrintRow ==
  /\ stage = "print" /\ rowChanges # <<>>
  /\ LET c == Head(rowChanges)
     IN  \/ /\ \E x \in c.cells : x.value \in Composite
            /\ stage' = "panic"
            /\ UNCHANGED <<rowChanges, printed>>
         \/ /\ \A x \in c.cells : x.value \notin Composite
            /\ printed' = [printed EXCEPT !.changed = @ \cup
                 {[table |-> Current, row |-> c.row, cell |-> x] : x \in c.cells}]
            /\ rowChanges' = Tail(rowChanges)
            /\ UNCHANGED stage
  /\ UNCHANGED <<input, got, oldTables, newTables, todo>>

TableDone ==
  /\ stage = "print" /\ rowChanges = <<>>
  /\ todo' = todo \ {Current}
  /\ stage' = "compare"
  /\ UNCHANGED <<input, got, oldTables, newTables, rowChanges, printed>>

Finish ==
  /\ stage = "compare" /\ todo = {}
  /\ stage' = "done"
  /\ UNCHANGED <<input, got, oldTables, newTables, todo, rowChanges, printed>>

Ended == stage \in {"done", "panic"} /\ UNCHANGED diffVars

DiffNext ==
  \/ \E i \in DOMAIN got : ReadFile(i)
  \/ Merge \/ SkipRemoved \/ Compare \/ PrintRow \/ TableDone \/ Finish
  \/ Ended

DiffSpec == DiffInit /\ [][DiffNext]_diffVars
-----------------------------------------------------------------------------
(* Properties.  What the files say is taken from the input itself: labels  *)
(* with the names the user gave, the cells under them, and the last table  *)
(* of a name among the files of one side that can be read.                 *)
NameIn(t) == IF t.modern THEN Unhash(input.names, t.name) ELSE t.name
LabelIn(t, k) == IF t.modern THEN Unhash(input.names, t.columns[k]) ELSE t.columns[k]
Renamed(t, l) == \E k \in DOMAIN t.columns : LabelIn(t, k) = l /\ t.columns[k] # l
CellsAt(t, id, l) ==
  {t.rows[i][k] : i \in {j \in DOMAIN t.rows : t.base + j - 1 = id},
                  k \in {j \in DOMAIN t.columns : LabelIn(t, j) = l}}

FilesOf(new) == {i \in DOMAIN input.files : input.files[i].new = new}
NamesIn(i) == {NameIn(t) : t \in ToSet(input.files[i].tables)}
Places(new, n) ==
  {p \in UNION {{i} \X DOMAIN input.files[i].tables : i \in FilesOf(new)} :
     input.files[p[1]].readable /\ NameIn(input.files[p[1]].tables[p[2]]) = n}
LastTable(new, n) ==
  LET p == CHOOSE p \in Places(new, n) :
             \A q \in Places(new, n) : q[1] < p[1] \/ (q[1] = p[1] /\ q[2] <= p[2])
  IN  input.files[p[1]].tables[p[2]]
OnBothSides == {n \in Labels : Places(TRUE, n) # {} /\ Places(FALSE, n) # {}}
OldTable(n) == LastTable(FALSE, n)
NewTable(n) == LastTable(TRUE, n)

(* Of columns with one label only one is ever looked up, see NameMap.      *)
ColumnsDiffer(t) ==
  \A j, k \in DOMAIN t.columns : j # k => LabelIn(t, j) # LabelIn(t, k)
Unambiguous(n) == ColumnsDiffer(OldTable(n)) /\ ColumnsDiffer(NewTable(n))

(* What differs in the rows the new table has; a row that is gone is left  *)
(* aside, the command never looks for one.                                 *)
DifferencesAt(n, id, l) ==
  LET before == CellsAt(OldTable(n), id, l)
      after == CellsAt(NewTable(n), id, l)
  IN  {[table |-> n, row |-> id, cell |-> CellChange(l, TRUE, v)] : v \in after \ before}
      \cup {[table |-> n, row |-> id, cell |-> CellChange(l, FALSE, v)] : v \in before \ after}
Differences(n) == UNION {DifferencesAt(n, id, l) : id \in RowIds(NewTable(n)), l \in Labels}

(* Every change that is printed is one: the cell under that label of that  *)
(* row is in one of the two tables and not in the other, whatever order    *)
(* the columns are in, whatever the ids start with, in whatever order the  *)
(* workers ended, and whether or not labels were given names.              *)
OnlyRealDifferences ==
  \A x \in printed.changed :
    x.table \in OnBothSides /\ (Unambiguous(x.table) => x \in Differences(x.table))

(* Once a table has been dealt with, all that differs in its rows has been *)
(* printed, except in a column whose hash was given its name.              *)
AllDifferences ==
  stage \in {"compare", "done"} =>
    \A n \in OnBothSides \ todo : Unambiguous(n) =>
      \A id \in RowIds(NewTable(n)), l \in Labels :
        \/ DifferencesAt(n, id, l) \subseteq printed.changed
        \/ Renamed(OldTable(n), l) \/ Renamed(NewTable(n), l)

(* A table that both sides have is shown as added or removed only if every *)
(* file of the other side that holds it could not be read; a table one     *)
(* side lacks is always shown, unless its own files could not be read.     *)
ShownFor(new) == IF new THEN printed.added ELSE printed.removed
WrongSideOnlyIfUnread ==
  stage # "read" =>
    \A new \in BOOLEAN :
      LET Holds(side, n) == {i \in FilesOf(side) : n \in NamesIn(i)}
      IN  \A n \in Labels :
            /\ n \in ShownFor(new) =>
                 \A i \in Holds(~new, n) : ~input.files[i].readable
            /\ (n \notin ShownFor(new) /\ Holds(~new, n) = {}) =>
                 \A i \in Holds(new, n) : ~input.files[i].readable

(* The command breaks off only at a table with a difference that cannot be *)
(* printed: a list or flags, or a cell whose column was given its name.    *)
(* Modern tables are never the reason without a file of names.             *)
BreaksOffOnlyAt ==
  stage = "panic" =>
    LET n == Current
    IN  Unambiguous(n) => \E x \in Differences(n) :
          \/ x.cell.value \in Composite
          \/ Renamed(OldTable(n), x.cell.label) \/ Renamed(NewTable(n), x.cell.label)

(* The command prints the differences between two dumps, at least those in *)
(* the rows the new one has.  (toolset/src/main.rs, the doc of Diff)       *)
DifferencesPrinted ==
  stage = "done" => \A n \in OnBothSides : Differences(n) \subseteq printed.changed
=============================================================================
