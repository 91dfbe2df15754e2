------------------------------ MODULE TableJson ------------------------------
(***************************************************************************)
(* A table in the form of the toolset's JSON files, and back: labels as    *)
(* texts and as names of files, rows as maps from the names of columns to  *)
(* values (toolset/src/convert/json.rs and schema.rs, src/label.rs).       *)
(*                                                                         *)
(* A text is a word, in angle brackets or not.  A label is a hash, whose   *)
(* word are its eight digits, or a string.  A column has a type, which all *)
(* of its values have, the labels of its flags, and room for a number of   *)
(* values in each row.                                                     *)
(***************************************************************************)
EXTENDS Integers, SequencesExt

CONSTANTS
  Hashes,         \* the words that are eight hexadecimal digits
  HashOf(_),      \* murmur3_str, from texts to Hashes
  Known,          \* the names the toolset is given, by their hash
  Readable(_, _),    \* what deser_value makes a value of a type of
  MaxDuplicates,  \* MAX_DUPLICATE_COLUMNS
  U16Max

ASSUME TableJsonAssumption ==
  /\ DOMAIN Known \subseteq Hashes /\ \A h \in DOMAIN Known : HashOf(Known[h]) = h
  /\ MaxDuplicates \in Nat \ {0} /\ U16Max \in Nat

Hash(h) == [hashed |-> TRUE, text |-> <<"", h>>]
String(t) == [hashed |-> FALSE, text |-> t]

(* Display for Label, as_file_name, parse and into_hash. *)
LabelText(l) == IF l.hashed THEN <<"<>", l.text[2]>> ELSE l.text
FileName(l) == l.text
Parse(t, force) ==
  IF t[1] = "<>" /\ t[2] \in Hashes THEN Hash(t[2])
  ELSE IF force THEN Hash(HashOf(t)) ELSE String(t)
LabelHash(l) == IF l.hashed THEN l.text[2] ELSE HashOf(l.text)
IntoHashNot(l, version) == l
IntoHash(l, version) == IF version = "Modern" THEN Hash(LabelHash(l)) ELSE l

(* HashNameTable::convert_all. *)
ConvertLabel(l) ==
  IF l.hashed /\ l.text[2] \in DOMAIN Known THEN String(Known[l.text[2]]) ELSE l
ConvertColumn(c) == [c EXCEPT !.label = ConvertLabel(@)]
ConvertAll(t, version) ==
  IF version = "Legacy" THEN t
  ELSE [t EXCEPT !.name = ConvertLabel(@),
                 !.cols = [i \in DOMAIN t.cols |-> ConvertColumn(t.cols[i])]]

Name(t, i) == LabelText(t.cols[i].label)

-----------------------------------------------------------------------------
(* A cell of a table has one value, a list of them, or one per flag of its *)
(* column.  Flags are bits of one value.                                   *)
Cell(kind, vals) == [kind |-> kind, vals |-> vals]
Values(cell) == IF cell.kind = "flags" THEN 1 ELSE Len(cell.vals)

(* What a table, modern or legacy, is made of.  Modern tables have hashes  *)
(* for labels, no flags and no lists; labels of legacy ones are strings,   *)
(* and those with flags on a column of texts or floats cannot be read.     *)
FlagType == "u32"
IntegerTypes == {"u8", "u16", FlagType, "i8", "i16", "i32"}
IsSequence(s) == s \in Seq(ToSet(s))
IsLabel(l, version) ==
  IF version = "Modern" THEN l = Hash(l.text[2]) /\ l.text[2] \in Hashes
  ELSE l = String(l.text)
IsColumn(c, version) ==
  /\ c = [label |-> c.label, type |-> c.type, flags |-> c.flags, count |-> c.count]
  /\ IsLabel(c.label, version)
  /\ IsSequence(c.flags) /\ c.count \in Nat \ {0}
  /\ version = "Modern" => c.flags = <<>> /\ c.count = 1
  /\ c.flags # <<>> => c.count > 1 \/ c.type \in IntegerTypes
Shape(col) ==
  IF col.count > 1 THEN "list" ELSE IF col.flags # <<>> THEN "flags" ELSE "single"
IsCell(c, col) ==
  /\ c = Cell(Shape(col), c.vals) /\ IsSequence(c.vals)
  /\ Values(c) = col.count
  /\ c.kind = "flags" => Len(c.vals) = Len(col.flags)
IsTable(t, version) ==
  /\ t = [name |-> t.name, base |-> t.base, cols |-> t.cols, rows |-> t.rows]
  /\ IsLabel(t.name, version) /\ t.base \in Nat
  /\ IsSequence(t.cols) /\ \A i \in DOMAIN t.cols : IsColumn(t.cols[i], version)
  /\ IsSequence(t.rows)
  /\ \A r \in DOMAIN t.rows :
       /\ IsSequence(t.rows[r]) /\ Len(t.rows[r]) = Len(t.cols)
       /\ \A i \in DOMAIN t.cols : IsCell(t.rows[r][i], t.cols[i])

(* In JSON a cell of flags is a map with their labels as keys, and no type *)
(* is left but that of the column.                                         *)
CellToJson(col, cell) ==
  [kind |-> cell.kind, vals |-> cell.vals,
   keys |-> IF cell.kind = "flags" THEN col.flags ELSE <<>>]

(* CellSeed: the cell takes the shape that it has in the file, whatever    *)
(* the column's is.  The flags that are not in the map are passed over.    *)
FlagValues(col, json) ==
  FlattenSeq([i \in DOMAIN col.flags |->
    IF col.flags[i] \in ToSet(json.keys)
    THEN <<json.vals[SelectLastInSeq(json.keys, LAMBDA k : k = col.flags[i])]>>
    ELSE <<>>])
CellFromJson(col, json) ==
  Cell(json.kind, IF json.kind = "flags" THEN FlagValues(col, json) ELSE json.vals)

(* What is no value of the column's type, or of a flag's, is an error in a *)
(* modern table and a panic in a legacy one.                               *)
CellRefused(col, json, version) ==
  LET type == IF json.kind = "flags" THEN FlagType ELSE col.type
  IN  \/ version = "Modern" /\ json.kind # "single"
      \/ \E i \in DOMAIN json.vals : ~Readable(type, json.vals[i])

(* write_table.  Cells are collected into a map, where the last column of  *)
(* a name wins.                                                            *)
LastNamed(t, name) == Max({i \in DOMAIN t.cols : Name(t, i) = name})
CellOf(t, row, name) == CellToJson(t.cols[LastNamed(t, name)], row[LastNamed(t, name)])
CellsOf(t, row) == [x \in {Name(t, i) : i \in DOMAIN t.cols} |-> CellOf(t, row, x)]
ToJson(t, typed) ==
  [typed |-> typed,
   schema |-> [i \in DOMAIN t.cols |->
                 [name |-> Name(t, i), type |-> t.cols[i].type, flags |-> t.cols[i].flags,
                  count |-> t.cols[i].count]],
   rows |-> [r \in DOMAIN t.rows |->
               [id |-> t.base + r - 1, cells |-> CellsOf(t, t.rows[r])]]]

(* read_table_modern and read_table_legacy: what they refuse, and what     *)
(* they build of the rest.  The first column of a name says how its cells  *)
(* are read.                                                               *)
Twins(json, i) == {j \in DOMAIN json.schema : json.schema[j].name = json.schema[i].name}
FirstOf(json, i) == json.schema[Min(Twins(json, i))]
Overfull(twins) == Cardinality(twins) > MaxDuplicates
SchemaRefused(json, version) ==
  \E i \in DOMAIN json.schema :
    IF version = "Modern" THEN Cardinality(Twins(json, i)) > 1
    ELSE Overfull(Twins(json, i)) \/ json.schema[i].type # FirstOf(json, i).type

RowRefusedLoose(json, row, version) ==
  \E i \in DOMAIN json.schema : json.schema[i].name \notin DOMAIN row.cells

(* A key that is no column panics, a column that is no key is an error.    *)
RowRefused(json, row, version) ==
  \/ DOMAIN row.cells # {json.schema[i].name : i \in DOMAIN json.schema}
  \/ \E i \in DOMAIN json.schema :
       CellRefused(FirstOf(json, i), row.cells[json.schema[i].name], version)

BaseId(json) ==
  IF json.rows = <<>> THEN 1 ELSE Min({json.rows[r].id : r \in DOMAIN json.rows})

Refused(json, label, version) ==
  \/ ~json.typed
  \/ version = "Legacy" /\ (label.hashed \/ BaseId(json) > U16Max)
  \/ SchemaRefused(json, version)
  \/ \E r \in DOMAIN json.rows : RowRefused(json, json.rows[r], version)

ColumnRead(col, version) ==
  [label |-> IF version = "Modern" THEN Parse(col.name, TRUE) ELSE String(col.name),
   type |-> col.type, flags |-> IF version = "Modern" THEN <<>> ELSE col.flags,
   count |-> IF version = "Modern" THEN 1 ELSE col.count]
RowRead(json, row) ==
  [i \in DOMAIN json.schema |->
     CellFromJson(FirstOf(json, i), row.cells[json.schema[i].name])]
FromJson(json, label, version) ==
  [name |-> label, base |-> BaseId(json),
   cols |-> [i \in DOMAIN json.schema |-> ColumnRead(json.schema[i], version)],
   rows |-> [r \in DOMAIN json.rows |-> RowRead(json, json.rows[r])]]
=============================================================================
