----------------------------- MODULE ModernFile -----------------------------
(***************************************************************************)
(* A file of modern tables is written (ModernWriter) and read back:        *)
(* io/modern/read.rs.  The reader takes the bytes of a table as a whole,   *)
(* as many as the offsets in its header call for, then its name, its       *)
(* columns and its rows, and builds the table from them.                   *)
(***************************************************************************)
EXTENDS ModernWriter

CONSTANT Garbage   \* what is read where nothing of that kind was written

VARIABLES
  rpc, n, i,          \* where the reader is: the table, and the column or row
  name, outCols, outRows,   \* what it has of the table being read
  tables              \* the tables it has read

rvars == <<rpc, n, i, name, outCols, outRows, tables>>
vars == <<wvars, rvars>>

Im == images[n]

RInit ==
  /\ rpc = "header" /\ n = 1 /\ i = 1
  /\ name = Garbage /\ outCols = <<>> /\ outRows = <<>> /\ tables = <<>>

(* read_header, and seek_table to the first table. *)
ReadHeader ==
  /\ pc = "done" /\ rpc = "header"
  /\ rpc' = IF images = <<>> THEN "done" ELSE "table"
  /\ UNCHANGED <<n, i, name, outCols, outRows, tables>>

(* read_table_v2: the key table is taken to have an entry for each row.    *)
Furthest(a, b) == IF a >= b THEN a ELSE b
TableLen ==
  Furthest(Furthest(Im.colsAt + 3 * Im.nCols, Im.keysAt + 8 * Im.nRows),
           Furthest(Im.rowsAt + Im.rowLen * Im.nRows, Im.stringsAt + Im.stringsLen))

(* get_label: the writer puts a zero first, so labels are read as hashes,  *)
(* also if they are texts: then the first four bytes make some hash.       *)
InData(at) == Im.stringsAt + at + 4 <= TableLen
LabelAt(at) ==
  LET here == {p \in Im.strings : p.at = at /\ p.label.hashed}
  IN  IF here = {} THEN Garbage ELSE (CHOOSE p \in here : TRUE).label

(* get_string: the zero in front is an empty text. *)
TextAt(at) ==
  LET here == {p \in Im.strings : p.at = at /\ ~p.label.hashed}
  IN  IF at = 0 THEN CHOOSE s \in Texts : TextLen[s] = 0
      ELSE IF here = {} THEN Garbage ELSE (CHOOSE p \in here : TRUE).label.of

(* A stream fails with an error where there is no data, a slice panics.    *)
OpenTable ==
  /\ rpc = "table"
  /\ \/ /\ offsets[n] + TableLen > FileLen \/ ~InData(1)
        /\ rpc' = "failed" /\ UNCHANGED <<i, name>>
     \/ /\ offsets[n] + TableLen <= FileLen /\ InData(1)
        /\ name' = LabelAt(1)
        /\ rpc' = "columns" /\ i' = 1
  /\ UNCHANGED <<n, outCols, outRows, tables>>

ReadColumn ==
  /\ rpc = "columns" /\ i <= Im.nCols
  /\ \/ /\ ~InData(Im.cols[i].name)
        /\ rpc' = "failed" /\ UNCHANGED <<i, outCols>>
     \/ /\ InData(Im.cols[i].name)
        /\ outCols' = Append(outCols, [type |-> Im.cols[i].type,
                                       label |-> LabelAt(Im.cols[i].name)])
        /\ i' = i + 1 /\ UNCHANGED rpc
  /\ UNCHANGED <<n, name, outRows, tables>>

ColumnsRead ==
  /\ rpc = "columns" /\ i > Im.nCols
  /\ rpc' = "rows" /\ i' = 1
  /\ UNCHANGED <<n, name, outCols, outRows, tables>>

(* read_value for each column of a row, the cursor going from the row's    *)
(* place on by the width of each.                                          *)
RowStartPacked(r) == (r - 1) * FoldLeft(LAMBDA sum, c : sum + 4, 0, outCols)
RowStart(r) == (r - 1) * Im.rowLen
CellOffset(c) ==
  LET upTo[m \in 0..Len(outCols)] == IF m = 0 THEN 0 ELSE upTo[m - 1] + Width(outCols[m].type)
  IN  upTo[c - 1]
CellAt(at, width) ==
  LET here == {x \in DOMAIN Im.cells : Im.cells[x].at = at /\ Im.cells[x].width = width}
  IN  IF here = {} THEN Garbage ELSE Im.cells[CHOOSE x \in here : TRUE].val
ReadValue(r, c) ==
  LET raw == CellAt(RowStart(r) + CellOffset(c), Width(outCols[c].type))
  IN  IF outCols[c].type = "text" THEN TextAt(raw) ELSE raw

ReadRow ==
  /\ rpc = "rows" /\ i <= Im.nRows
  /\ outRows' = Append(outRows, [c \in DOMAIN outCols |-> ReadValue(i, c)])
  /\ i' = i + 1
  /\ UNCHANGED <<rpc, n, name, outCols, tables>>

(* build: ModernTable::new panics if a key repeats.  Then the next table.  *)
KeyRepeats ==
  LET p == Primary(outCols)
  IN  p # 0 /\ \E a, b \in DOMAIN outRows : a < b /\ outRows[a][p] = outRows[b][p]

BuildTable ==
  /\ rpc = "rows" /\ i > Im.nRows
  /\ \/ KeyRepeats /\ rpc' = "panic" /\ UNCHANGED <<n, name, outCols, outRows, tables>>
     \/ /\ ~KeyRepeats
        /\ tables' = Append(tables, [name |-> name, base |-> Im.base,
                                     columns |-> outCols, rows |-> outRows])
        /\ rpc' = IF n = Len(images) THEN "done" ELSE "table"
        /\ n' = n + 1
        /\ name' = Garbage /\ outCols' = <<>> /\ outRows' = <<>>
  /\ UNCHANGED i

ReaderStep ==
  ReadHeader \/ OpenTable \/ ReadColumn \/ ColumnsRead \/ ReadRow \/ BuildTable

Ended ==
  /\ pc = "error" \/ rpc \in {"failed", "panic", "done"}
  /\ UNCHANGED vars

FInit == Init /\ RInit
FNext ==
  \/ WriterStep /\ UNCHANGED rvars
  \/ ReaderStep /\ UNCHANGED wvars
  \/ Ended

FSpec == FInit /\ [][FNext]_vars
-----------------------------------------------------------------------------
(* Properties. *)

HashedLabels(tab) ==
  tab.name.hashed /\ \A c \in DOMAIN tab.columns : tab.columns[c].label.hashed

(* A table of hashed labels that was read back is the one that was         *)
(* written, wherever it stands in the file: names, base id, cells.         *)
ReadsWhatWasWritten ==
  \A j \in DOMAIN tables : HashedLabels(file[j]) => tables[j] = file[j]

(* A file that was written can be read, up to two cases: labels that are   *)
(* texts, and a table without a column of hashes, for which the reader     *)
(* wants 8 bytes for each row behind the columns: there may not be as many *)
(* in the rest of the file, whether or not other tables follow.  It never  *)
(* panics for a key that repeats, which the writer does not let through.   *)
FailsOnlyPastEnd ==
  /\ rpc # "panic"
  /\ rpc = "failed" =>
       \/ ~HashedLabels(file[n])
       \/ /\ Primary(file[n].columns) = 0
          /\ offsets[n] + Im.keysAt + 8 * Len(file[n].rows) > FileLen

(* tests/modern.rs, write_back: what to_vec made is read and unwrapped.    *)
WrittenIsReadable ==
  (\A j \in DOMAIN file : HashedLabels(file[j]) /\ file[j].columns # <<>>)
    => rpc # "failed"
=============================================================================
