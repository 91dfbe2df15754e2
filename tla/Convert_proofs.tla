--------------------------- MODULE Convert_proofs ---------------------------
(***************************************************************************)
(* Proofs about Convert, for every dump, thread pool and number of         *)
(* commands, faults and edits: first that a table comes back from its JSON *)
(* as it was, and an edited one as it was edited; then what pack makes of  *)
(* the files it finds; then what is where while the workers write, fail    *)
(* and are killed, step by step, and the properties that follow from it.   *)
(***************************************************************************)
EXTENDS Convert, ProofBasics

(* Tables that can be told from their JSON, as TablesSeparate has it.      *)
Versions == {"Modern", "Legacy"}
Plain(t, version) ==
  LET u == ConvertAll(t, version)
  IN  \A c \in DOMAIN u.cols :
        /\ version = "Modern" => Parse(Name(u, c), FALSE) = u.cols[c].label
        /\ \A d \in DOMAIN u.cols :
             u.cols[c].label = u.cols[d].label =>
               u.cols[c].flags = u.cols[d].flags /\ u.cols[c].count = u.cols[d].count
        /\ IsInjective(u.cols[c].flags)

(* The least and the greatest of some numbers.                             *)
LEMMA Extremes ==
  ASSUME NEW n \in Nat, NEW S \in SUBSET (1..n), S # {}
  PROVE  /\ Max(S) \in S /\ \A y \in S : y <= Max(S)
         /\ Min(S) \in S /\ \A y \in S : Min(S) <= y
<1>1. PICK x \in S : \A y \in S : x <= y
  <2>1. S \subseteq Nat
    OBVIOUS
  <2> QED BY <2>1, NatMin
<1>2. PICK z \in S : \A y \in S : y <= z
  <2>1. S \subseteq Nat /\ \A y \in S : y <= n
    OBVIOUS
  <2> QED BY <2>1, NatMax
<1>3. \A y \in S : z >= y
  BY <1>2
<1>4. Max(S) \in S /\ \A y \in S : Max(S) >= y
  BY <1>2, <1>3 DEF Max
<1>5. Min(S) \in S /\ \A y \in S : Min(S) <= y
  BY <1>1 DEF Min
<1> QED BY <1>4, <1>5

(* A label that has been converted, written and read again.                *)
LEMMA LabelsKept ==
  ASSUME NEW version \in Versions, NEW l, IsLabel(l, version)
  PROVE  LET u == ConvertLabel(l)
         IN  /\ version = "Legacy" => u = l
             /\ LabelHash(u) = LabelHash(l) /\ IntoHash(u, version) = l
             /\ (version = "Modern" => Parse(LabelText(u), FALSE) = u) =>
                  \A c : c.name = LabelText(u) => ColumnRead(c, version).label = l
<1> DEFINE u == ConvertLabel(l)
<1>1. CASE version = "Legacy"
  <2>1. l = String(l.text) /\ ~l.hashed
    BY <1>1 DEF IsLabel, String
  <2>2. u = l /\ LabelText(l) = l.text
    BY <2>1 DEF ConvertLabel, LabelText
  <2> QED BY <1>1, <2>1, <2>2 DEF IntoHash, ColumnRead
<1>2. CASE version = "Modern"
  <2>1. PICK h \in Hashes : l = Hash(h)
    BY <1>2 DEF IsLabel
  <2>2. l.hashed /\ l.text[2] = h /\ LabelHash(l) = h
    BY <2>1 DEF Hash, LabelHash
  <2>3. u = IF h \in DOMAIN Known THEN String(Known[h]) ELSE l
    BY <2>2 DEF ConvertLabel
  <2>4. LabelHash(u) = h
    BY <2>2, <2>3, TableJsonAssumption DEF String, LabelHash
  <2>5. IntoHash(u, version) = l
    BY <1>2, <2>1, <2>4 DEF IntoHash
  <2>6. ASSUME Parse(LabelText(u), FALSE) = u PROVE Parse(LabelText(u), TRUE) = l
    <3>1. CASE h \in DOMAIN Known
      <4>1. u = String(Known[h]) /\ LabelText(u) = Known[h]
        BY <2>3, <3>1 DEF LabelText, String
      <4>2. ~(Known[h][1] = "<>" /\ Known[h][2] \in Hashes)
        <5>1. SUFFICES ASSUME Known[h][1] = "<>" /\ Known[h][2] \in Hashes PROVE FALSE
          OBVIOUS
        <5>2. u = Hash(Known[h][2])
          BY <2>6, <4>1, <5>1 DEF Parse
        <5>3. u.hashed = FALSE
          BY <4>1 DEF String
        <5>4. u.hashed = TRUE
          <6> HIDE DEF u
          <6> QED BY <5>2 DEF Hash
        <5> QED BY <5>3, <5>4
      <4> QED BY <2>1, <3>1, <4>1, <4>2, TableJsonAssumption DEF Parse
    <3>2. CASE h \notin DOMAIN Known
      <4>1. LabelText(u) = <<"<>", h>>
        BY <2>2, <2>3, <3>2 DEF LabelText
      <4> QED BY <2>1, <4>1 DEF Parse
    <3> QED BY <3>1, <3>2
  <2> QED BY <1>2, <2>2, <2>4, <2>5, <2>6 DEF ColumnRead
<1> QED BY <1>1, <1>2 DEF Versions

(* What HashNameTable makes of a table.                                    *)
LEMMA Converted ==
  ASSUME NEW version \in Versions, NEW t, IsTable(t, version)
  PROVE  LET u == ConvertAll(t, version)
         IN  /\ u.name = ConvertLabel(t.name) /\ u.base = t.base /\ u.rows = t.rows
             /\ DOMAIN u.cols = DOMAIN t.cols
             /\ \A i \in DOMAIN t.cols :
                  u.cols[i] = [label |-> ConvertLabel(t.cols[i].label),
                               type |-> t.cols[i].type, flags |-> t.cols[i].flags, count |-> t.cols[i].count]
<1>1. t = [name |-> t.name, base |-> t.base, cols |-> t.cols, rows |-> t.rows]
  BY DEF IsTable
<1>2. \A i \in DOMAIN t.cols :
        /\ t.cols[i] = [label |-> t.cols[i].label, type |-> t.cols[i].type,
                        flags |-> t.cols[i].flags, count |-> t.cols[i].count]
        /\ IsLabel(t.cols[i].label, version)
  BY DEF IsTable, IsColumn
<1>3. IsLabel(t.name, version)
  BY DEF IsTable
<1>4. CASE version = "Legacy"
  <2>1. ConvertAll(t, version) = t
    BY <1>4 DEF ConvertAll
  <2>2. ConvertLabel(t.name) = t.name
    BY <1>3, <1>4, LabelsKept
  <2>3. \A i \in DOMAIN t.cols : ConvertLabel(t.cols[i].label) = t.cols[i].label
    BY <1>2, <1>4, LabelsKept
  <2> QED BY <1>2, <2>1, <2>2, <2>3
<1>5. CASE version = "Modern"
  <2> DEFINE cols == [i \in DOMAIN t.cols |-> ConvertColumn(t.cols[i])]
             u == [t EXCEPT !.name = ConvertLabel(@), !.cols = cols]
  <2>1. ConvertAll(t, version) = u
    <3>1. version # "Legacy"
      BY <1>5
    <3>2. ConvertAll(t, version)
          = [t EXCEPT !.name = ConvertLabel(t.name), !.cols = cols]
      BY <3>1 DEF ConvertAll
    <3> QED BY <3>2
  <2>2. \A i \in DOMAIN t.cols :
          cols[i] = [label |-> ConvertLabel(t.cols[i].label),
                     type |-> t.cols[i].type, flags |-> t.cols[i].flags, count |-> t.cols[i].count]
    <3> TAKE i \in DOMAIN t.cols
    <3>1. PICK c : c = t.cols[i]
      OBVIOUS
    <3>2. c = [label |-> c.label, type |-> c.type, flags |-> c.flags, count |-> c.count]
      BY <1>2, <3>1
    <3>3. [c EXCEPT !.label = ConvertLabel(@)]
          = [label |-> ConvertLabel(c.label), type |-> c.type, flags |-> c.flags, count |-> c.count]
      BY <3>2
    <3> QED BY <3>1, <3>3 DEF ConvertColumn
  <2> HIDE DEF cols
  <2>3. /\ u.name = ConvertLabel(t.name) /\ u.base = t.base /\ u.rows = t.rows
        /\ u.cols = cols
    BY <1>1
  <2>4. DOMAIN cols = DOMAIN t.cols
    BY DEF cols
  <2> HIDE DEF u
  <2> QED BY <2>1, <2>2, <2>3, <2>4
<1> QED BY <1>4, <1>5 DEF Versions

(* Columns have one name in JSON if they have one label.                   *)
LEMMA NamesTell ==
  ASSUME NEW version \in Versions, NEW t, IsTable(t, version), Plain(t, version)
  PROVE  \A i, j \in DOMAIN t.cols :
           (Name(ConvertAll(t, version), i) = Name(ConvertAll(t, version), j)) <=>
             (t.cols[i].label = t.cols[j].label)
<1> DEFINE u == ConvertAll(t, version)
<1> TAKE i, j \in DOMAIN t.cols
<1>1. /\ u.cols[i].label = ConvertLabel(t.cols[i].label)
      /\ u.cols[j].label = ConvertLabel(t.cols[j].label)
      /\ DOMAIN u.cols = DOMAIN t.cols
  <2>1. \A k \in DOMAIN t.cols :
          u.cols[k] = [label |-> ConvertLabel(t.cols[k].label),
                       type |-> t.cols[k].type, flags |-> t.cols[k].flags, count |-> t.cols[k].count]
    BY Converted
  <2>2. DOMAIN u.cols = DOMAIN t.cols
    BY Converted
  <2>3. \A k \in DOMAIN t.cols : u.cols[k].label = ConvertLabel(t.cols[k].label)
    <3> TAKE k \in DOMAIN t.cols
    <3>1. u.cols[k] = [label |-> ConvertLabel(t.cols[k].label),
                       type |-> t.cols[k].type, flags |-> t.cols[k].flags, count |-> t.cols[k].count]
      BY <2>1
    <3> HIDE DEF u
    <3> QED BY <3>1
  <2> HIDE DEF u
  <2> QED BY <2>2, <2>3
<1>2. IsLabel(t.cols[i].label, version) /\ IsLabel(t.cols[j].label, version)
  BY DEF IsTable, IsColumn
<1>3. t.cols[i].label = t.cols[j].label => Name(u, i) = Name(u, j)
  BY <1>1 DEF Name
<1>4. ASSUME Name(u, i) = Name(u, j) PROVE t.cols[i].label = t.cols[j].label
  <2>1. CASE version = "Legacy"
    <3>1. t.cols[i].label = String(t.cols[i].label.text) /\ u.cols[i].label = t.cols[i].label
          /\ t.cols[j].label = String(t.cols[j].label.text) /\ u.cols[j].label = t.cols[j].label
      BY <1>1, <1>2, <2>1, LabelsKept DEF IsLabel
    <3>2. Name(u, i) = t.cols[i].label.text /\ Name(u, j) = t.cols[j].label.text
      BY <3>1 DEF Name, LabelText, String
    <3> QED BY <1>4, <3>1, <3>2
  <2>2. CASE version = "Modern"
    <3>1. u.cols[i].label = u.cols[j].label
      <4>1. \A c \in DOMAIN u.cols : Parse(Name(u, c), FALSE) = u.cols[c].label
        BY <2>2 DEF Plain
      <4> HIDE DEF u
      <4> QED BY <1>1, <1>4, <4>1
    <3>2. /\ IntoHash(u.cols[i].label, version) = t.cols[i].label
          /\ IntoHash(u.cols[j].label, version) = t.cols[j].label
      <4>1. /\ IntoHash(ConvertLabel(t.cols[i].label), version) = t.cols[i].label
            /\ IntoHash(ConvertLabel(t.cols[j].label), version) = t.cols[j].label
        BY <1>2, LabelsKept
      <4> HIDE DEF u
      <4> QED BY <1>1, <4>1
    <3> QED BY <3>1, <3>2
  <2> QED BY <2>1, <2>2 DEF Versions
<1> QED BY <1>3, <1>4

(* A cell that has been written and read again.                            *)
LEMMA FlagsKept ==
  ASSUME NEW col, NEW json, IsSequence(col.flags), IsInjective(col.flags),
         json.keys = col.flags, IsSequence(json.vals), Len(json.vals) = Len(col.flags)
  PROVE  FlagValues(col, json) = json.vals
<1>1. PICK F : F = col.flags
  OBVIOUS
<1>2. PICK vals : vals = json.vals
  OBVIOUS
<1> DEFINE n == Len(F)
           at(i) == SelectLastInSeq(F, LAMBDA k : k = F[i])
<1>3. F \in Seq(ToSet(F)) /\ n \in Nat /\ DOMAIN F = 1..n
  BY <1>1 DEF IsSequence
<1>4. vals \in Seq(ToSet(vals)) /\ Len(vals) = n
  BY <1>1, <1>2 DEF IsSequence
<1>5. \A i \in 1..n : F[i] \in ToSet(F)
  BY <1>3 DEF ToSet
<1>6. ASSUME NEW i \in 1..n PROVE at(i) = i
  <2>1. {j \in 1..n : F[j] = F[i]} = {i}
    BY <1>1, <1>3 DEF IsInjective
  <2>2. Max({i}) = i
    <3>1. {i} \in SUBSET (1..n) /\ {i} # {}
      OBVIOUS
    <3>2. Max({i}) \in {i}
      BY <1>3, <3>1, Extremes
    <3> QED BY <3>2
  <2> QED BY <2>1, <2>2 DEF SelectLastInSeq
<1> HIDE DEF at
<1>7. FlagValues(col, json) = FlattenSeq([i \in 1..n |-> <<vals[i]>>])
  <2>1. FlagValues(col, json)
        = FlattenSeq([i \in DOMAIN F |-> IF F[i] \in ToSet(F) THEN <<vals[at(i)]>> ELSE <<>>])
    BY <1>1, <1>2 DEF FlagValues, at
  <2>2. [i \in DOMAIN F |-> IF F[i] \in ToSet(F) THEN <<vals[at(i)]>> ELSE <<>>]
        = [i \in 1..n |-> <<vals[i]>>]
    BY <1>3, <1>5, <1>6
  <2> QED BY <2>1, <2>2
<1>8. FlattenSeq([i \in 1..n |-> <<vals[i]>>]) = vals
  BY <1>3, <1>4, FlattenAll
<1> QED BY <1>2, <1>7, <1>8

SchemaFrom(json, t, version) == json.schema = ToJson(ConvertAll(t, version), TRUE).schema

(* The same, for what there is of its columns.                             *)
LEMMA ColumnsConverted ==
  ASSUME NEW version \in Versions, NEW t, IsTable(t, version)
  PROVE  LET u == ConvertAll(t, version)
         IN  /\ DOMAIN u.cols = DOMAIN t.cols
             /\ \A j \in DOMAIN t.cols : /\ u.cols[j].type = t.cols[j].type
                                         /\ u.cols[j].flags = t.cols[j].flags
                                         /\ u.cols[j].count = t.cols[j].count
                                         /\ u.cols[j].label = ConvertLabel(t.cols[j].label)
<1>1. PICK u : u = ConvertAll(t, version)
  OBVIOUS
<1>2. \A j \in DOMAIN t.cols :
        u.cols[j] = [label |-> ConvertLabel(t.cols[j].label),
                     type |-> t.cols[j].type, flags |-> t.cols[j].flags, count |-> t.cols[j].count]
  BY <1>1, Converted
<1>3. DOMAIN u.cols = DOMAIN t.cols
  BY <1>1, Converted
<1>4. ASSUME NEW j \in DOMAIN t.cols
      PROVE  /\ u.cols[j].type = t.cols[j].type /\ u.cols[j].flags = t.cols[j].flags
             /\ u.cols[j].count = t.cols[j].count
             /\ u.cols[j].label = ConvertLabel(t.cols[j].label)
  <2>1. u.cols[j] = [label |-> ConvertLabel(t.cols[j].label),
                     type |-> t.cols[j].type, flags |-> t.cols[j].flags, count |-> t.cols[j].count]
    BY <1>2
  <2> QED BY <2>1
<1> QED BY <1>1, <1>3, <1>4

(* The schema has the columns as they were converted.                      *)
LEMMA SchemaRead ==
  ASSUME NEW version \in Versions, NEW t, IsTable(t, version),
         NEW json, SchemaFrom(json, t, version)
  PROVE  /\ DOMAIN json.schema = DOMAIN t.cols
         /\ \A j \in DOMAIN t.cols :
              json.schema[j] = [name |-> Name(ConvertAll(t, version), j),
                                type |-> t.cols[j].type, flags |-> t.cols[j].flags, count |-> t.cols[j].count]
<1>1. PICK u : u = ConvertAll(t, version)
  OBVIOUS
<1>2. /\ DOMAIN u.cols = DOMAIN t.cols
      /\ \A j \in DOMAIN t.cols : /\ u.cols[j].type = t.cols[j].type
                                  /\ u.cols[j].flags = t.cols[j].flags
                                  /\ u.cols[j].count = t.cols[j].count
  BY <1>1, ColumnsConverted
<1>3. json.schema = [j \in DOMAIN u.cols |-> [name |-> Name(u, j), type |-> u.cols[j].type,
                                              flags |-> u.cols[j].flags, count |-> u.cols[j].count]]
  BY <1>1 DEF SchemaFrom, ToJson
<1> QED BY <1>1, <1>2, <1>3

(* Columns of one name have the flags of the first, and the last one's     *)
(* values.                                                                 *)
LEMMA TwinsAgree ==
  ASSUME NEW version \in Versions, NEW t, IsTable(t, version), Plain(t, version),
         NEW json, SchemaFrom(json, t, version),
         NEW i \in DOMAIN t.cols
  PROVE  LET u == ConvertAll(t, version)
         IN  /\ DOMAIN json.schema = DOMAIN t.cols
             /\ FirstOf(json, i).flags = t.cols[i].flags
             /\ LastNamed(u, Name(u, i)) = LastTwin(t, i)
             /\ LastTwin(t, i) \in DOMAIN t.cols
             /\ u.cols[LastTwin(t, i)].flags = t.cols[i].flags
             /\ t.cols[LastTwin(t, i)].flags = t.cols[i].flags
             /\ t.cols[LastTwin(t, i)].count = t.cols[i].count
<1>1. PICK u : u = ConvertAll(t, version)
  OBVIOUS
<1>2. /\ DOMAIN u.cols = DOMAIN t.cols
      /\ \A j \in DOMAIN t.cols : /\ u.cols[j].type = t.cols[j].type
                                  /\ u.cols[j].flags = t.cols[j].flags
                                  /\ u.cols[j].count = t.cols[j].count
                                  /\ u.cols[j].label = ConvertLabel(t.cols[j].label)
  BY <1>1, ColumnsConverted
<1>3. \A j \in DOMAIN t.cols :
        (Name(u, j) = Name(u, i)) <=> (t.cols[j].label = t.cols[i].label)
  BY <1>1, NamesTell
<1>4. PICK n \in Nat : DOMAIN t.cols = 1..n
  BY DEF IsTable, IsSequence
<1> DEFINE S == {j \in DOMAIN t.cols : t.cols[j].label = t.cols[i].label}
<1>5. S \in SUBSET (1..n) /\ S # {}
  BY <1>4
<1>6. \A j \in S : /\ t.cols[j].flags = t.cols[i].flags /\ j \in DOMAIN t.cols
                   /\ t.cols[j].count = t.cols[i].count
  <2> TAKE j \in S
  <2>1. u.cols[j].label = u.cols[i].label
    BY <1>2
  <2>2. u.cols[j].flags = u.cols[i].flags /\ u.cols[j].count = u.cols[i].count
    BY <1>1, <1>2, <2>1 DEF Plain
  <2> QED BY <1>2, <2>2
<1>7. {j \in DOMAIN u.cols : Name(u, j) = Name(u, i)} = S
  BY <1>2, <1>3
<1>9. DOMAIN json.schema = DOMAIN t.cols
  BY SchemaRead
<1>10. \A j \in DOMAIN t.cols :
         json.schema[j] = [name |-> Name(u, j), type |-> t.cols[j].type,
                           flags |-> t.cols[j].flags, count |-> t.cols[j].count]
  BY <1>1, SchemaRead
<1>11. Twins(json, i) = S
  <2>1. \A j \in DOMAIN t.cols : json.schema[j].name = Name(u, j)
    <3> TAKE j \in DOMAIN t.cols
    <3>1. json.schema[j] = [name |-> Name(u, j), type |-> t.cols[j].type,
                            flags |-> t.cols[j].flags, count |-> t.cols[j].count]
      BY <1>10
    <3> QED BY ONLY <3>1
  <2> QED BY <1>3, <1>9, <2>1 DEF Twins
<1> HIDE DEF S
<1>12. Min(S) \in S /\ Max(S) \in S
  BY <1>5, Extremes
<1>13. FirstOf(json, i).flags = t.cols[i].flags
  <2>1. PICK k : k = Min(S)
    OBVIOUS
  <2>2. k \in DOMAIN t.cols /\ t.cols[k].flags = t.cols[i].flags
    BY <1>6, <1>12, <2>1
  <2>3. json.schema[k].flags = t.cols[k].flags
    <3>1. json.schema[k] = [name |-> Name(u, k), type |-> t.cols[k].type,
                            flags |-> t.cols[k].flags, count |-> t.cols[k].count]
      BY <1>10, <2>2
    <3> QED BY ONLY <3>1
  <2> QED BY <1>11, <2>1, <2>2, <2>3 DEF FirstOf
<1>14. LastTwin(t, i) = Max(S)
  BY DEF LastTwin, S
<1>15. /\ LastTwin(t, i) \in DOMAIN t.cols
       /\ t.cols[LastTwin(t, i)].flags = t.cols[i].flags
       /\ t.cols[LastTwin(t, i)].count = t.cols[i].count
       /\ u.cols[LastTwin(t, i)].flags = t.cols[i].flags
  BY <1>2, <1>6, <1>12, <1>14
<1>16. LastNamed(u, Name(u, i)) = LastTwin(t, i)
  BY <1>7, <1>14 DEF LastNamed
<1> QED BY <1>1, <1>9, <1>13, <1>15, <1>16

(* A cell of such a column comes back as that of the last one.             *)
LEMMA CellKept ==
  ASSUME NEW version \in Versions, NEW t, IsTable(t, version), Plain(t, version),
         NEW json, SchemaFrom(json, t, version),
         NEW r \in DOMAIN t.rows, NEW i \in DOMAIN t.cols
  PROVE  LET u == ConvertAll(t, version)
         IN  CellFromJson(FirstOf(json, i), CellOf(u, t.rows[r], Name(u, i)))
             = t.rows[r][LastTwin(t, i)]
<1>1. PICK u : u = ConvertAll(t, version)
  OBVIOUS
<1>2. PICK j : j = LastTwin(t, i)
  OBVIOUS
<1>3. /\ j \in DOMAIN t.cols /\ u.cols[j].flags = t.cols[i].flags
      /\ t.cols[j].flags = t.cols[i].flags
      /\ FirstOf(json, i).flags = t.cols[i].flags
      /\ LastNamed(u, Name(u, i)) = j
  <2>1. /\ j \in DOMAIN t.cols /\ u.cols[j].flags = t.cols[i].flags
        /\ t.cols[j].flags = t.cols[i].flags
    BY <1>1, <1>2, TwinsAgree
  <2>2. FirstOf(json, i).flags = t.cols[i].flags
    BY TwinsAgree
  <2>3. LastNamed(u, Name(u, i)) = j
    BY <1>1, <1>2, TwinsAgree
  <2> QED BY <2>1, <2>2, <2>3
<1>4. PICK c : c = t.rows[r][j]
  OBVIOUS
<1>5. c = Cell(c.kind, c.vals) /\ IsSequence(c.vals)
      /\ (c.kind = "flags" => Len(c.vals) = Len(t.cols[i].flags))
  <2>1. IsCell(c, t.cols[j])
    BY <1>3, <1>4 DEF IsTable
  <2>2. PICK shape : shape = Shape(t.cols[j])
    OBVIOUS
  <2>3. c = [kind |-> shape, vals |-> c.vals]
    BY <2>1, <2>2 DEF IsCell, Cell
  <2>4. c.kind = shape
    BY ONLY <2>3
  <2> QED BY <1>3, <2>1, <2>3, <2>4 DEF IsCell, Cell
<1>6. IsSequence(t.cols[i].flags) /\ IsInjective(t.cols[i].flags)
  <2>1. IsSequence(t.cols[i].flags)
    BY DEF IsTable, IsColumn
  <2>2. i \in DOMAIN u.cols
    BY <1>1, Converted
  <2>3. IsInjective(u.cols[i].flags)
    BY <1>1, <2>2 DEF Plain
  <2>4. u.cols[i] = [label |-> ConvertLabel(t.cols[i].label),
                     type |-> t.cols[i].type, flags |-> t.cols[i].flags, count |-> t.cols[i].count]
    BY <1>1, Converted
  <2> QED BY <2>1, <2>3, <2>4
<1>7. PICK col : col = FirstOf(json, i)
  OBVIOUS
<1>8. PICK cell : cell = [kind |-> c.kind, vals |-> c.vals,
                          keys |-> IF c.kind = "flags" THEN col.flags ELSE <<>>]
  OBVIOUS
<1>9. CellOf(u, t.rows[r], Name(u, i)) = cell
  BY <1>3, <1>4, <1>7, <1>8 DEF CellOf, CellToJson
<1>10. c.kind = "flags" => FlagValues(col, cell) = c.vals
  <2> HAVE c.kind = "flags"
  <2>1. cell.keys = col.flags /\ cell.vals = c.vals
    BY <1>8
  <2> QED BY <1>3, <1>5, <1>6, <1>7, <2>1, FlagsKept
<1>11. CellFromJson(col, cell) = c
  <2>1. cell.kind = c.kind /\ cell.vals = c.vals
    BY <1>8
  <2> QED BY <1>5, <1>10, <2>1 DEF CellFromJson
<1> QED BY <1>1, <1>2, <1>4, <1>7, <1>9, <1>11

(* Columns and cells of the table that pack reads.                         *)
LEMMA ColumnsRead ==
  ASSUME NEW version \in Versions, NEW t, IsTable(t, version), Plain(t, version),
         NEW json, SchemaFrom(json, t, version), NEW label
  PROVE  FromJson(json, label, version).cols = t.cols
<1>1. PICK u : u = ConvertAll(t, version)
  OBVIOUS
<1>2. DOMAIN json.schema = DOMAIN t.cols
  BY SchemaRead
<1>3. ASSUME NEW i \in DOMAIN t.cols PROVE ColumnRead(json.schema[i], version) = t.cols[i]
  <2>1. PICK c : c = t.cols[i]
    OBVIOUS
  <2>2. PICK s : s = json.schema[i]
    OBVIOUS
  <2>3. s = [name |-> Name(u, i), type |-> c.type, flags |-> c.flags, count |-> c.count]
    BY <1>1, <2>1, <2>2, SchemaRead
  <2>4. IsColumn(c, version)
    BY <2>1 DEF IsTable
  <2>5. /\ c = [label |-> c.label, type |-> c.type, flags |-> c.flags, count |-> c.count]
        /\ IsLabel(c.label, version)
        /\ (version = "Modern" => c.flags = <<>> /\ c.count = 1)
    BY <2>4 DEF IsColumn
  <2>6. u.cols[i].label = ConvertLabel(c.label) /\ i \in DOMAIN u.cols
    BY <1>1, <2>1, ColumnsConverted
  <2>7. /\ s.name = LabelText(ConvertLabel(c.label)) /\ s.type = c.type
        /\ s.flags = c.flags /\ s.count = c.count
    <3>1. s.name = Name(u, i) /\ s.type = c.type /\ s.flags = c.flags /\ s.count = c.count
      BY ONLY <2>3
    <3> QED BY <2>6, <3>1 DEF Name
  <2>8. version = "Modern" => Parse(LabelText(ConvertLabel(c.label)), FALSE) = ConvertLabel(c.label)
    BY <1>1, <2>6 DEF Plain, Name
  <2>9. ColumnRead(s, version).label = c.label
    BY <2>5, <2>7, <2>8, LabelsKept
  <2>10. /\ ColumnRead(s, version).type = c.type /\ ColumnRead(s, version).flags = c.flags
         /\ ColumnRead(s, version).count = c.count
    BY <2>5, <2>7 DEF ColumnRead
  <2>11. ColumnRead(s, version) = [label |-> ColumnRead(s, version).label,
                                   type |-> ColumnRead(s, version).type,
                                   flags |-> ColumnRead(s, version).flags,
                                   count |-> ColumnRead(s, version).count]
    BY ONLY TRUE DEF ColumnRead
  <2> QED BY <2>1, <2>2, <2>5, <2>9, <2>10, <2>11
<1>4. FromJson(json, label, version).cols
      = [i \in DOMAIN json.schema |-> ColumnRead(json.schema[i], version)]
  BY ONLY TRUE DEF FromJson
<1>5. t.cols = [i \in DOMAIN t.cols |-> t.cols[i]]
  BY DEF IsTable, IsSequence
<1> QED BY <1>2, <1>3, <1>4, <1>5

(* A cell of the row that pack reads.                                      *)
LEMMA CellRead ==
  ASSUME NEW version \in Versions, NEW t, IsTable(t, version), Plain(t, version),
         NEW json, SchemaFrom(json, t, version),
         NEW r \in DOMAIN t.rows, NEW i \in DOMAIN t.cols, NEW row,
         NEW u, u = ConvertAll(t, version),
         row.cells[Name(u, i)] = CellsOf(u, t.rows[r])[Name(u, i)]
  PROVE  RowRead(json, row)[i] = KeptRow(t, t.rows[r])[i]
<1>2. PICK s : s = json.schema
  OBVIOUS
<1>3. DOMAIN s = DOMAIN t.cols
  BY <1>2, SchemaRead
<1>4. s[i] = [name |-> Name(u, i), type |-> t.cols[i].type, flags |-> t.cols[i].flags, count |-> t.cols[i].count]
  BY <1>2, SchemaRead
<1>5. s[i].name = Name(u, i)
  BY ONLY <1>4
<1>6. DOMAIN u.cols = DOMAIN t.cols
  BY ColumnsConverted
<1>7. row.cells[Name(u, i)] = CellOf(u, t.rows[r], Name(u, i))
  BY <1>6 DEF CellsOf
<1>8. CellFromJson(FirstOf(json, i), CellOf(u, t.rows[r], Name(u, i)))
      = t.rows[r][LastTwin(t, i)]
  BY CellKept
<1> QED BY <1>2, <1>3, <1>5, <1>7, <1>8 DEF RowRead, KeptRow

(* A row whose cells are all as extract wrote them.                        *)
LEMMA RowKept ==
  ASSUME NEW version \in Versions, NEW t, IsTable(t, version), Plain(t, version),
         NEW json, SchemaFrom(json, t, version),
         NEW r \in DOMAIN t.rows, NEW row,
         row.cells = CellsOf(ConvertAll(t, version), t.rows[r])
  PROVE  RowRead(json, row) = KeptRow(t, t.rows[r])
<1>1. \A i \in DOMAIN t.cols : RowRead(json, row)[i] = KeptRow(t, t.rows[r])[i]
  BY CellRead
<1>2. DOMAIN json.schema = DOMAIN t.cols
  BY SchemaRead
<1>3. RowRead(json, row) = [i \in DOMAIN t.cols |-> RowRead(json, row)[i]]
  BY <1>2 DEF RowRead
<1>4. KeptRow(t, t.rows[r]) = [i \in DOMAIN t.cols |-> KeptRow(t, t.rows[r])[i]]
  BY DEF KeptRow
<1> QED BY <1>1, <1>3, <1>4

(* The rows of its JSON.                                                   *)
LEMMA JsonRows ==
  ASSUME NEW version \in Versions, NEW t, IsTable(t, version)
  PROVE  ToJson(ConvertAll(t, version), TRUE).rows
         = [r \in DOMAIN t.rows |->
              [id |-> t.base + r - 1, cells |-> CellsOf(ConvertAll(t, version), t.rows[r])]]
<1>1. PICK u : u = ConvertAll(t, version)
  OBVIOUS
<1>2. ToJson(u, TRUE).rows
      = [r \in DOMAIN u.rows |-> [id |-> u.base + r - 1, cells |-> CellsOf(u, u.rows[r])]]
  BY ONLY TRUE DEF ToJson
<1>3. u.rows = t.rows /\ u.base = t.base
  BY <1>1, Converted
<1>4. ToJson(u, TRUE).rows
      = [r \in DOMAIN t.rows |-> [id |-> t.base + r - 1, cells |-> CellsOf(u, t.rows[r])]]
  BY ONLY <1>2, <1>3
<1> QED BY ONLY <1>1, <1>4

(* It has as many of them as the table.                                    *)
LEMMA JsonDomain ==
  ASSUME NEW version \in Versions, NEW t, IsTable(t, version)
  PROVE  DOMAIN ToJson(ConvertAll(t, version), TRUE).rows = DOMAIN t.rows
BY JsonRows

(* Their ids and cells.                                                    *)
LEMMA JsonRow ==
  ASSUME NEW version \in Versions, NEW t, IsTable(t, version),
         NEW u, u = ConvertAll(t, version), NEW rows, rows = ToJson(u, TRUE).rows
  PROVE  /\ \A r \in DOMAIN t.rows : rows[r].id = t.base + r - 1
         /\ \A r \in DOMAIN t.rows : rows[r].cells = CellsOf(u, t.rows[r])
<1>2. rows = [r \in DOMAIN t.rows |-> [id |-> t.base + r - 1, cells |-> CellsOf(u, t.rows[r])]]
  <2>1. ToJson(ConvertAll(t, version), TRUE).rows
        = [r \in DOMAIN t.rows |->
              [id |-> t.base + r - 1, cells |-> CellsOf(ConvertAll(t, version), t.rows[r])]]
    BY JsonRows
  <2> QED BY ONLY <2>1, u = ConvertAll(t, version), rows = ToJson(u, TRUE).rows
<1>4. ASSUME NEW r \in DOMAIN t.rows
      PROVE  rows[r].id = t.base + r - 1 /\ rows[r].cells = CellsOf(u, t.rows[r])
  <2>1. r \in DOMAIN t.rows
    OBVIOUS
  <2>2. rows[r] = [id |-> t.base + r - 1, cells |-> CellsOf(u, t.rows[r])]
    BY ONLY <1>2, <2>1
  <2> QED BY ONLY <2>2
<1> QED BY <1>4

(* The lowest id, where the ids of the rows rise.                          *)
LEMMA LeastIs ==
  ASSUME NEW S, NEW b \in Int, b \in S, \A y \in S : b <= y /\ y \in Int
  PROVE  Min(S) = b
<1>1. \A x \in S : (\A y \in S : x <= y) => x = b
  OBVIOUS
<1>2. Min(S) \in S /\ \A y \in S : Min(S) <= y
  BY DEF Min
<1> QED BY <1>1, <1>2

(* The base id is found again, unless there are no rows.                   *)
LEMMA BaseKept ==
  ASSUME NEW version \in Versions, NEW t, IsTable(t, version)
  PROVE  BaseId(ToJson(ConvertAll(t, version), TRUE)) = IF t.rows = <<>> THEN 1 ELSE t.base
<1>1. PICK json : json = ToJson(ConvertAll(t, version), TRUE)
  OBVIOUS
<1>2. PICK rows : rows = json.rows
  OBVIOUS
<1>3. /\ DOMAIN rows = DOMAIN t.rows
      /\ \A r \in DOMAIN t.rows : rows[r].id = t.base + r - 1
  <2>1. rows = ToJson(ConvertAll(t, version), TRUE).rows
    BY <1>1, <1>2
  <2>2. DOMAIN rows = DOMAIN t.rows
    BY <2>1, JsonDomain
  <2> QED BY <2>1, <2>2, JsonRow
<1>4. t.base \in Nat /\ t.rows \in Seq(ToSet(t.rows))
  BY DEF IsTable, IsSequence
<1>5. PICK n \in Nat : DOMAIN t.rows = 1..n
  BY <1>4
<1>6. t.rows = <<>> <=> n = 0
  BY <1>4, <1>5
<1>7. rows = <<>> <=> n = 0
  <2>1. rows = [r \in DOMAIN t.rows |->
                  [id |-> t.base + r - 1, cells |-> CellsOf(ConvertAll(t, version), t.rows[r])]]
    BY <1>1, <1>2, JsonRows
  <2>2. rows = [r \in 1..n |-> rows[r]]
    BY <1>5, <2>1
  <2>3. DOMAIN <<>> = {}
    OBVIOUS
  <2>4. n = 0 => rows = <<>>
    <3> HAVE n = 0
    <3>1. 1..n = {}
      OBVIOUS
    <3> QED BY <2>2, <3>1
  <2>5. n # 0 => 1 \in DOMAIN rows
    BY <1>3, <1>5
  <2> QED BY <2>3, <2>4, <2>5
<1>8. ASSUME n # 0 PROVE Min({rows[r].id : r \in DOMAIN rows}) = t.base
  <2> DEFINE ids == {rows[r].id : r \in DOMAIN rows}
  <2>1. PICK b \in Nat : b = t.base
    BY <1>4
  <2>2. \A r \in 1..n : rows[r].id = b + r - 1
    BY <1>3, <1>5, <2>1
  <2>3. ids = {b + r - 1 : r \in 1..n}
    BY <1>3, <1>5, <2>2
  <2>4. b \in ids
    <3>1. b = b + 1 - 1 /\ 1 \in 1..n
      BY <1>8
    <3> QED BY <2>3, <3>1
  <2>5. \A y \in ids : b <= y /\ y \in Int
    BY <2>3
  <2> HIDE DEF ids
  <2>6. Min(ids) = b
    BY <2>4, <2>5, LeastIs
  <2> QED BY <2>1, <2>6 DEF ids
<1> QED BY <1>1, <1>2, <1>6, <1>7, <1>8 DEF BaseId

(* A table that is written and read again has been kept.                   *)
LEMMA RoundTrip ==
  ASSUME NEW version \in Versions, NEW t, IsTable(t, version), Plain(t, version)
  PROVE  LET u == ConvertAll(t, version)
         IN  FromJson(ToJson(u, TRUE), IntoHash(u.name, version), version) = Kept(t)
<1>1. PICK u : u = ConvertAll(t, version)
  OBVIOUS
<1>2. PICK json : json = ToJson(u, TRUE)
  OBVIOUS
<1>3. SchemaFrom(json, t, version)
  BY <1>1, <1>2 DEF SchemaFrom
<1>4. PICK label : label = IntoHash(u.name, version)
  OBVIOUS
<1>5. PICK p : p = FromJson(json, label, version)
  OBVIOUS
<1>6. label = t.name
  <2>1. u.name = ConvertLabel(t.name)
    BY <1>1, Converted
  <2>2. IsLabel(t.name, version)
    BY DEF IsTable
  <2> QED BY <1>4, <2>1, <2>2, LabelsKept
<1>7. p = [name |-> label, base |-> BaseId(json), cols |-> p.cols, rows |-> p.rows]
      /\ p.rows = [r \in DOMAIN json.rows |-> RowRead(json, json.rows[r])]
  <2> DEFINE rows == [r \in DOMAIN json.rows |-> RowRead(json, json.rows[r])]
             cols == [i \in DOMAIN json.schema |-> ColumnRead(json.schema[i], version)]
  <2>1. p = [name |-> label, base |-> BaseId(json), cols |-> cols, rows |-> rows]
    BY ONLY <1>5 DEF FromJson
  <2> HIDE DEF rows, cols
  <2>2. p.rows = rows /\ p.cols = cols
    BY ONLY <2>1
  <2>3. p = [name |-> label, base |-> BaseId(json), cols |-> p.cols, rows |-> p.rows]
    BY ONLY <2>1, <2>2
  <2>4. p.rows = [r \in DOMAIN json.rows |-> RowRead(json, json.rows[r])]
    BY <2>2 DEF rows
  <2> QED BY ONLY <2>3, <2>4
<1>8. p.cols = t.cols
  BY <1>3, <1>5, ColumnsRead
<1>9. BaseId(json) = IF t.rows = <<>> THEN 1 ELSE t.base
  BY <1>1, <1>2, BaseKept
<1>10. PICK js : js = json.rows
  OBVIOUS
<1>11. DOMAIN js = DOMAIN t.rows
       /\ \A r \in DOMAIN t.rows : js[r].cells = CellsOf(ConvertAll(t, version), t.rows[r])
  <2>1. js = ToJson(u, TRUE).rows
    BY <1>2, <1>10
  <2>2. DOMAIN js = DOMAIN t.rows
    BY <1>1, <2>1, JsonDomain
  <2>3. \A r \in DOMAIN t.rows : js[r].cells = CellsOf(u, t.rows[r])
    BY <1>1, <2>1, JsonRow
  <2> QED BY <1>1, <2>2, <2>3
<1>12. p.rows = [r \in DOMAIN t.rows |-> KeptRow(t, t.rows[r])]
  <2>1. ASSUME NEW r \in DOMAIN t.rows PROVE RowRead(json, js[r]) = KeptRow(t, t.rows[r])
    BY <1>3, <1>11, RowKept
  <2> QED BY <1>7, <1>10, <1>11, <2>1
<1>13. PICK base : base = IF t.rows = <<>> THEN 1 ELSE t.base
  OBVIOUS
<1>14. PICK rows : rows = [r \in DOMAIN t.rows |-> KeptRow(t, t.rows[r])]
  OBVIOUS
<1>15. p = [name |-> t.name, base |-> base, cols |-> t.cols, rows |-> rows]
  BY <1>6, <1>7, <1>8, <1>9, <1>12, <1>13, <1>14
<1>16. Kept(t) = [name |-> t.name, base |-> base, cols |-> t.cols, rows |-> rows]
  BY <1>13, <1>14 DEF Kept
<1> QED BY <1>1, <1>2, <1>4, <1>5, <1>15, <1>16

(* What the writer makes of a table: the same one, but for the cells that  *)
(* are not in their places.                                                *)
IsRecord(p) == p = [name |-> p.name, base |-> p.base, cols |-> p.cols, rows |-> p.rows]
LEMMA WrittenIs ==
  ASSUME NEW p, IsRecord(p)
  PROVE  /\ IsRecord(Written(p))
         /\ Written(p).name = p.name /\ Written(p).base = p.base /\ Written(p).cols = p.cols
         /\ Written(p).rows = [r \in DOMAIN p.rows |-> [i \in DOMAIN p.cols |->
                                 IF InPlace(p, r, i) THEN p.rows[r][i] ELSE Shifted]]
<1>1. PICK rows : rows = [r \in DOMAIN p.rows |-> [i \in DOMAIN p.cols |->
                            IF InPlace(p, r, i) THEN p.rows[r][i] ELSE Shifted]]
  OBVIOUS
<1>2. PICK w : w = Written(p)
  OBVIOUS
<1>3. w = [p EXCEPT !.rows = rows]
  BY <1>1, <1>2 DEF Written
<1>4. p = [name |-> p.name, base |-> p.base, cols |-> p.cols, rows |-> p.rows]
  BY DEF IsRecord
<1>5. w = [name |-> p.name, base |-> p.base, cols |-> p.cols, rows |-> rows]
  BY ONLY <1>3, <1>4
<1>6. /\ w.name = p.name /\ w.base = p.base /\ w.cols = p.cols /\ w.rows = rows
      /\ w = [name |-> w.name, base |-> w.base, cols |-> w.cols, rows |-> w.rows]
  BY ONLY <1>5
<1> QED BY <1>1, <1>2, <1>6 DEF IsRecord

(* A cell that has been kept has as many values as there is room for.      *)
LEMMA KeptFits ==
  ASSUME NEW version \in Versions, NEW t, IsTable(t, version), Plain(t, version),
         NEW r \in DOMAIN t.rows, NEW i \in DOMAIN t.cols
  PROVE  Values(KeptRow(t, t.rows[r])[i]) = t.cols[i].count
<1>1. PICK json : json = ToJson(ConvertAll(t, version), TRUE)
  OBVIOUS
<1>2. SchemaFrom(json, t, version)
  BY <1>1 DEF SchemaFrom
<1>3. PICK j : j = LastTwin(t, i)
  OBVIOUS
<1>4. j \in DOMAIN t.cols /\ t.cols[j].count = t.cols[i].count
  BY <1>2, <1>3, TwinsAgree
<1>5. Values(t.rows[r][j]) = t.cols[j].count
  BY <1>4 DEF IsTable, IsCell
<1>6. KeptRow(t, t.rows[r])[i] = t.rows[r][j]
  BY <1>3 DEF KeptRow
<1> QED BY <1>4, <1>5, <1>6

(* A table without any other cells is written as it is.                    *)
LEMMA FitsWritten ==
  ASSUME NEW p, IsRecord(p), NEW D, p.rows = [r \in D |-> p.rows[r]],
         \A r \in D : p.rows[r] = [i \in DOMAIN p.cols |-> p.rows[r][i]],
         \A r \in D : \A i \in DOMAIN p.cols : Values(p.rows[r][i]) = p.cols[i].count
  PROVE  Written(p) = p
<1>1. Misfits(p) = {}
  <2> SUFFICES ASSUME NEW x \in Places(p) PROVE ValuesGiven(p)[x] = RoomFor(p)[x]
    BY DEF Misfits
  <2>1. PICK r \in D, i \in DOMAIN p.cols : x = <<r, i>>
    <3>1. DOMAIN p.rows = D
      OBVIOUS
    <3> QED BY <3>1 DEF Places
  <2>2. ValuesGiven(p)[x] = Values(p.rows[x[1]][x[2]]) /\ RoomFor(p)[x] = p.cols[x[2]].count
    BY DEF ValuesGiven, RoomFor
  <2>3. x[1] = r /\ x[2] = i
    BY <2>1
  <2> QED BY <2>2, <2>3
<1>2. \A r, i : InPlace(p, r, i)
  BY <1>1 DEF InPlace
<1>3. PICK w : w = Written(p)
  OBVIOUS
<1>4. /\ w = [name |-> w.name, base |-> w.base, cols |-> w.cols, rows |-> w.rows]
      /\ w.name = p.name /\ w.base = p.base /\ w.cols = p.cols
      /\ w.rows = [r \in DOMAIN p.rows |-> [i \in DOMAIN p.cols |->
                     IF InPlace(p, r, i) THEN p.rows[r][i] ELSE Shifted]]
  BY <1>3, WrittenIs DEF IsRecord
<1>5. w.rows = [r \in D |-> [i \in DOMAIN p.cols |-> p.rows[r][i]]]
  BY <1>2, <1>4
<1>6. w.rows = p.rows
  BY <1>5
<1>7. p = [name |-> p.name, base |-> p.base, cols |-> p.cols, rows |-> p.rows]
  BY DEF IsRecord
<1> QED BY <1>3, <1>4, <1>6, <1>7

(* So is one that has been kept.                                           *)
LEMMA KeptWritten ==
  ASSUME NEW version \in Versions, NEW t, IsTable(t, version), Plain(t, version)
  PROVE  Written(Kept(t)) = Kept(t)
<1>1. PICK k : k = Kept(t)
  OBVIOUS
<1>2. /\ IsRecord(k) /\ k.cols = t.cols
      /\ k.rows = [r \in DOMAIN t.rows |-> KeptRow(t, t.rows[r])]
  <2>1. PICK base : base = IF t.rows = <<>> THEN 1 ELSE t.base
    OBVIOUS
  <2>2. PICK rows : rows = [r \in DOMAIN t.rows |-> KeptRow(t, t.rows[r])]
    OBVIOUS
  <2>3. k = [name |-> t.name, base |-> base, cols |-> t.cols, rows |-> rows]
    BY <1>1, <2>1, <2>2 DEF Kept
  <2>4. k = [name |-> k.name, base |-> k.base, cols |-> k.cols, rows |-> k.rows]
        /\ k.cols = t.cols /\ k.rows = rows
    BY ONLY <2>3
  <2> QED BY <2>2, <2>4 DEF IsRecord
<1> PICK D : D = DOMAIN t.rows
  OBVIOUS
<1>3. \A r \in D : k.rows[r] = KeptRow(t, t.rows[r])
  BY <1>2
<1>4. k.rows = [r \in D |-> k.rows[r]]
  BY <1>2
<1>5. \A r \in D : k.rows[r] = [i \in DOMAIN k.cols |-> k.rows[r][i]]
  <2> TAKE r \in D
  <2>1. KeptRow(t, t.rows[r]) = [i \in DOMAIN t.cols |-> KeptRow(t, t.rows[r])[i]]
    BY DEF KeptRow
  <2> QED BY <1>2, <1>3, <2>1
<1>6. \A r \in D : \A i \in DOMAIN k.cols : Values(k.rows[r][i]) = k.cols[i].count
  BY <1>2, <1>3, KeptFits
<1>7. IsRecord(k)
  BY <1>2
<1>8. Written(k) = k
  BY ONLY <1>4, <1>5, <1>6, <1>7, FitsWritten
<1> QED BY <1>1, <1>8

(* What all edits have in common: every row that is still there has its id *)
(* and its cells, but for the one that was edited, and there are no others *)
(* with other cells.                                                       *)
SameCells(row, new, but) == \A x \in DOMAIN row.cells : x \notin but => new.cells[x] = row.cells[x]
RowStays(row, new, but) == new.id = row.id /\ SameCells(row, new, but)
But(e, r) == IF r = e.row /\ e.name # NoName THEN {e.name} ELSE {}
StaysBut(json, e) ==
  /\ e.json.schema = json.schema /\ e.row \in Nat
  /\ \E m \in Nat : DOMAIN e.json.rows = 1..m /\ Len(e.json.rows) = m
  /\ \A q \in DOMAIN e.json.rows : e.json.rows[q].id \in Int
  /\ \A r \in DOMAIN json.rows :
       (r # e.row \/ e.name # NoName) =>
         \E q \in DOMAIN e.json.rows :
           /\ e.name # NoName => q = r
           /\ RowStays(json.rows[r], e.json.rows[q], But(e, r))
  /\ \A q \in DOMAIN e.json.rows :
       \E r \in DOMAIN json.rows : SameCells(json.rows[r], e.json.rows[q], But(e, q))

(* Edits are made of the JSON of a table, without the names no column has. *)
IsJson(json) ==
  /\ json = [typed |-> json.typed, schema |-> json.schema, rows |-> json.rows]
  /\ json.rows \in Seq(ToSet(json.rows))
  /\ \A r \in DOMAIN json.rows :
       /\ json.rows[r] = [id |-> json.rows[r].id, cells |-> json.rows[r].cells]
       /\ json.rows[r].id \in Int
       /\ json.rows[r].cells = [x \in DOMAIN json.rows[r].cells |-> json.rows[r].cells[x]]
       /\ Unknown \notin DOMAIN json.rows[r].cells /\ NoName \notin DOMAIN json.rows[r].cells

(* Rows are put into the JSON of a table.                                  *)
LEMMA RowsReplaced ==
  ASSUME NEW json, IsJson(json), NEW rows
  PROVE  /\ [json EXCEPT !.rows = rows].schema = json.schema
         /\ [json EXCEPT !.rows = rows].rows = rows
<1>1. json = [typed |-> json.typed, schema |-> json.schema, rows |-> json.rows]
  BY DEF IsJson
<1> QED BY ONLY <1>1

(* A row is taken out.                                                     *)
LEMMA RemovedAt ==
  ASSUME NEW S, NEW s \in Seq(S), NEW r \in 1..Len(s)
  PROVE  /\ DOMAIN RemoveAt(s, r) = 1..(Len(s) - 1) /\ Len(RemoveAt(s, r)) = Len(s) - 1
         /\ \A q \in 1..(Len(s) - 1) : RemoveAt(s, r)[q] = IF q < r THEN s[q] ELSE s[q + 1]
<1>1. PICK n \in Nat : n = Len(s) /\ r <= n /\ n # 0
  OBVIOUS
<1>2. PICK a \in Seq(S) : /\ a = SubSeq(s, 1, r - 1) /\ Len(a) = r - 1
                          /\ \A q \in 1..(r - 1) : a[q] = s[q]
  <2>1. PICK m \in Nat : m = r - 1
    BY <1>1
  <2>2. \A q \in 1..m : s[q] \in S
    BY <1>1, <2>1
  <2>3. /\ SubSeq(s, 1, m) \in Seq(S)
        /\ Len(SubSeq(s, 1, m)) = IF 1 <= m THEN m - 1 + 1 ELSE 0
        /\ \A q \in 1..(m - 1 + 1) : SubSeq(s, 1, m)[q] = s[1 + q - 1]
    BY <2>2, SubSeqProperties
  <2>4. m - 1 + 1 = m /\ (~(1 <= m) => m = 0) /\ \A q \in 1..m : 1 + q - 1 = q
    BY <2>1
  <2> QED BY <2>1, <2>3, <2>4
<1>3. PICK b \in Seq(S) : /\ b = SubSeq(s, r + 1, n) /\ Len(b) = n - r
                          /\ \A q \in 1..(n - r) : b[q] = s[r + q]
  <2>1. PICK m \in Nat : m = r + 1
    BY <1>1
  <2>2. \A q \in m..n : s[q] \in S
    BY <1>1, <2>1
  <2>3. /\ SubSeq(s, m, n) \in Seq(S)
        /\ Len(SubSeq(s, m, n)) = IF m <= n THEN n - m + 1 ELSE 0
        /\ \A q \in 1..(n - m + 1) : SubSeq(s, m, n)[q] = s[m + q - 1]
    BY <2>2, SubSeqProperties
  <2>4. n - m + 1 = n - r /\ (~(m <= n) => n - r = 0) /\ \A q \in 1..(n - r) : m + q - 1 = r + q
    BY <1>1, <2>1
  <2>5. PICK b \in Seq(S) : b = SubSeq(s, m, n)
    BY <2>3
  <2>6. Len(b) = n - r
    BY <2>3, <2>4, <2>5
  <2>7. \A q \in 1..(n - r) : b[q] = s[r + q]
    BY ONLY <2>3, <2>4, <2>5
  <2> QED BY <2>1, <2>5, <2>6, <2>7
<1>4. RemoveAt(s, r) = a \o b
  BY <1>1, <1>2, <1>3 DEF RemoveAt
<1>5. /\ a \o b \in Seq(S) /\ Len(a \o b) = n - 1
      /\ \A q \in 1..(n - 1) : (a \o b)[q] = IF q <= r - 1 THEN a[q] ELSE b[q - (r - 1)]
  <2>1. /\ a \o b \in Seq(S) /\ Len(a \o b) = Len(a) + Len(b)
        /\ \A q \in 1..(Len(a) + Len(b)) :
             (a \o b)[q] = IF q <= Len(a) THEN a[q] ELSE b[q - Len(a)]
    BY ConcatProperties
  <2>2. Len(a) + Len(b) = n - 1
    <3>1. (r - 1) + (n - r) = n - 1
      BY <1>1
    <3> QED BY <1>2, <1>3, <3>1
  <2> QED BY <1>2, <2>1, <2>2
<1>6. \A q \in 1..(n - 1) : (a \o b)[q] = IF q < r THEN s[q] ELSE s[q + 1]
  <2> TAKE q \in 1..(n - 1)
  <2>1. CASE q < r
    BY <1>2, <1>5, <2>1
  <2>2. CASE ~(q < r)
    <3>1. q - (r - 1) \in 1..(n - r) /\ r + (q - (r - 1)) = q + 1
      BY <1>1, <2>2
    <3>2. (a \o b)[q] = b[q - (r - 1)]
      BY <1>1, <1>5, <2>2
    <3> QED BY <1>3, <2>2, <3>1, <3>2
  <2> QED BY <2>1, <2>2
<1>7. DOMAIN (a \o b) = 1..(n - 1)
  BY <1>5
<1> QED BY <1>1, <1>4, <1>5, <1>6, <1>7

(* The other rows stay when a row is taken out.                            *)
LEMMA TakenStays ==
  ASSUME NEW json, IsJson(json), NEW e \in RowsTaken(json)
  PROVE  StaysBut(json, e)
<1>1. PICK rows : rows = json.rows
  OBVIOUS
<1>2. PICK r \in DOMAIN rows : e = Edited(r, NoName, [json EXCEPT !.rows = RemoveAt(@, r)])
  BY <1>1 DEF RowsTaken
<1>3. PICK n \in Nat : n = Len(rows) /\ DOMAIN rows = 1..n /\ n # 0
  BY <1>1, <1>2 DEF IsJson
<1>4. PICK new : new = RemoveAt(rows, r)
  OBVIOUS
<1>5. e.row = r /\ e.name = NoName /\ e.json = [json EXCEPT !.rows = new]
  BY <1>1, <1>2, <1>4 DEF Edited
<1>6. e.json.schema = json.schema /\ e.json.rows = new
  BY <1>5, RowsReplaced
<1>7. /\ DOMAIN new = 1..(n - 1) /\ Len(new) = n - 1
      /\ \A q \in 1..(n - 1) : new[q] = IF q < r THEN rows[q] ELSE rows[q + 1]
  BY <1>1, <1>3, <1>4, RemovedAt DEF IsJson
<1>8. n - 1 \in Nat
  BY <1>3
<1>9. \A q \in DOMAIN rows : rows[q].id \in Int
  BY <1>1 DEF IsJson
<1>10. \A q \in DOMAIN new : new[q].id \in Int
  BY <1>2, <1>3, <1>7, <1>9
<1>11. ASSUME NEW k \in DOMAIN rows, k # r
       PROVE  \E q \in DOMAIN new : RowStays(rows[k], new[q], But(e, k))
  <2>1. CASE k < r
    <3>1. k \in DOMAIN new /\ new[k] = rows[k]
      BY <1>2, <1>3, <1>7, <2>1
    <3> QED BY <3>1 DEF RowStays, SameCells
  <2>2. CASE ~(k < r)
    <3>1. k - 1 \in DOMAIN new /\ ~(k - 1 < r) /\ (k - 1) + 1 = k
      BY <1>2, <1>3, <1>7, <1>11, <2>2
    <3>2. new[k - 1] = rows[k]
      BY <1>7, <3>1
    <3> QED BY <3>1, <3>2 DEF RowStays, SameCells
  <2> QED BY <2>1, <2>2
<1>12. ASSUME NEW q \in DOMAIN new
       PROVE  \E k \in DOMAIN rows : SameCells(rows[k], new[q], But(e, q))
  <2>1. PICK k \in DOMAIN rows : new[q] = rows[k]
    <3>1. q \in DOMAIN rows /\ q + 1 \in DOMAIN rows
      BY <1>3, <1>7
    <3> QED BY <1>7, <3>1
  <2> QED BY <2>1 DEF SameCells
<1>13. e.row \in Nat
  BY <1>2, <1>3, <1>5
<1> QED BY <1>1, <1>5, <1>6, <1>7, <1>8, <1>10, <1>11, <1>12, <1>13 DEF StaysBut

(* A row is added.                                                         *)
LEMMA AddedStays ==
  ASSUME NEW json, IsJson(json), NEW e \in RowsAdded(json)
  PROVE  StaysBut(json, e)
<1>1. PICK rows : rows = json.rows
  OBVIOUS
<1>2. PICK n \in Nat : n = Len(rows) /\ DOMAIN rows = 1..n /\ rows \in Seq(ToSet(rows))
  BY <1>1 DEF IsJson
<1>3. rows # <<>>
  BY <1>1 DEF RowsAdded
<1>4. n # 0
  BY <1>2, <1>3
<1>5. \A q \in 1..n : /\ rows[q] = [id |-> rows[q].id, cells |-> rows[q].cells]
                      /\ rows[q].id \in Int
  BY <1>1, <1>2 DEF IsJson
<1>6. PICK id \in Int :
        e = Edited(0, NoName, [json EXCEPT !.rows = Append(@, [Last(@) EXCEPT !.id = id])])
  <2>1. PICK id \in {Last(rows).id + 1, Last(rows).id + 2, rows[1].id - 1} :
          e = Edited(0, NoName, [json EXCEPT !.rows = Append(@, [Last(@) EXCEPT !.id = id])])
    BY <1>1, <1>3 DEF RowsAdded
  <2>2. Last(rows).id \in Int /\ rows[1].id \in Int
    <3>1. 1 \in 1..n /\ n \in 1..n
      BY <1>4
    <3> QED BY <1>2, <1>5, <3>1 DEF Last
  <2>3. id \in Int
    BY <2>2
  <2> QED BY <2>1, <2>3
<1>7. PICK row : row = [rows[n] EXCEPT !.id = id]
  OBVIOUS
<1>8. row.id = id /\ row.cells = rows[n].cells
  <2>1. n \in 1..n
    BY <1>4
  <2>2. PICK a, b : rows[n] = [id |-> a, cells |-> b]
    BY <1>5, <2>1
  <2> QED BY ONLY <1>7, <2>2
<1>9. PICK new : new = Append(rows, row)
  OBVIOUS
<1>10. e.row = 0 /\ e.name = NoName /\ e.json = [json EXCEPT !.rows = new]
  BY <1>1, <1>2, <1>6, <1>7, <1>9 DEF Edited, Last
<1>11. e.json.schema = json.schema /\ e.json.rows = new
  BY <1>10, RowsReplaced
<1>12. /\ DOMAIN new = 1..(n + 1) /\ Len(new) = n + 1 /\ new[n + 1] = row
       /\ \A q \in 1..n : new[q] = rows[q]
  <2>1. rows \in Seq(ToSet(rows) \cup {row})
    BY <1>2
  <2> QED BY <1>2, <1>9, <2>1
<1>13. \A q \in DOMAIN new : new[q].id \in Int
  <2> TAKE q \in DOMAIN new
  <2>1. CASE q = n + 1
    BY <1>8, <1>12, <2>1
  <2>2. CASE q # n + 1
    <3>1. q \in 1..n
      BY <1>12, <2>2
    <3> QED BY <1>5, <1>12, <3>1
  <2> QED BY <2>1, <2>2
<1>14. ASSUME NEW k \in DOMAIN rows
       PROVE  k # 0 /\ \E q \in DOMAIN new : RowStays(rows[k], new[q], But(e, k))
  <2>1. k # 0 /\ k \in DOMAIN new /\ new[k] = rows[k]
    BY <1>2, <1>12
  <2> QED BY <2>1 DEF RowStays, SameCells
<1>15. ASSUME NEW q \in DOMAIN new
       PROVE  \E k \in DOMAIN rows : SameCells(rows[k], new[q], But(e, q))
  <2>1. CASE q = n + 1
    <3>1. n \in DOMAIN rows /\ new[q].cells = rows[n].cells
      BY <1>2, <1>4, <1>8, <1>12, <2>1
    <3> QED BY <3>1 DEF SameCells
  <2>2. CASE q # n + 1
    <3>1. q \in DOMAIN rows /\ new[q] = rows[q]
      BY <1>2, <1>12, <2>2
    <3> QED BY <3>1 DEF SameCells
  <2> QED BY <2>1, <2>2
<1>16. n + 1 \in Nat
  BY <1>2
<1> QED BY <1>1, <1>10, <1>11, <1>12, <1>13, <1>14, <1>15, <1>16 DEF StaysBut

(* One row's cells are replaced.                                           *)
LEMMA ReplacedStays ==
  ASSUME NEW json, IsJson(json), NEW r \in DOMAIN json.rows, NEW x, x # NoName, NEW cells,
         \A y \in DOMAIN json.rows[r].cells : y # x => cells[y] = json.rows[r].cells[y],
         NEW e, e = Edited(r, x, [json EXCEPT !.rows[r].cells = cells])
  PROVE  StaysBut(json, e)
<1>1. PICK rows : rows = json.rows
  OBVIOUS
<1>2. PICK n \in Nat : n = Len(rows) /\ DOMAIN rows = 1..n /\ rows \in Seq(ToSet(rows))
  BY <1>1 DEF IsJson
<1>3. \A q \in 1..n : /\ rows[q] = [id |-> rows[q].id, cells |-> rows[q].cells]
                      /\ rows[q].id \in Int
  BY <1>1, <1>2 DEF IsJson
<1>4. PICK row : row = [rows[r] EXCEPT !.cells = cells]
  OBVIOUS
<1>5. row.id = rows[r].id /\ row.cells = cells
  <2>1. PICK a, b : rows[r] = [id |-> a, cells |-> b]
    <3>1. r \in 1..n
      BY <1>1, <1>2
    <3> QED BY <1>3, <3>1
  <2> QED BY ONLY <1>4, <2>1
<1>6. PICK new : new = [rows EXCEPT ![r] = row]
  OBVIOUS
<1>7. [json EXCEPT !.rows[r].cells = cells] = [json EXCEPT !.rows = new]
  BY ONLY <1>1, <1>4, <1>6
<1>8. e.row = r /\ e.name = x /\ e.json = [json EXCEPT !.rows = new]
  BY <1>7 DEF Edited
<1>9. e.json.schema = json.schema /\ e.json.rows = new
  <2>1. IsJson(json)
    OBVIOUS
  <2>2. /\ [json EXCEPT !.rows = new].schema = json.schema
        /\ [json EXCEPT !.rows = new].rows = new
    BY ONLY <2>1, RowsReplaced
  <2> QED BY ONLY <1>8, <2>2
<1>10. /\ DOMAIN new = 1..n /\ Len(new) = n
       /\ \A q \in 1..n : new[q] = IF q = r THEN row ELSE rows[q]
  BY <1>2, <1>6
<1>11. \A q \in DOMAIN new : new[q].id \in Int
  <2> TAKE q \in DOMAIN new
  <2>1. CASE q = r
    BY <1>3, <1>5, <1>10, <2>1
  <2>2. CASE q # r
    BY <1>3, <1>10, <2>2
  <2> QED BY <2>1, <2>2
<1>12. ASSUME NEW k \in DOMAIN rows
       PROVE  k \in DOMAIN new /\ RowStays(rows[k], new[k], But(e, k))
  <2>1. k \in DOMAIN new
    BY <1>2, <1>10
  <2>2. CASE k = r
    <3>1. new[k] = row
      BY <1>10, <2>1, <2>2
    <3>2. But(e, k) = {x}
      BY <1>8, <2>2 DEF But
    <3> QED BY <1>1, <1>5, <2>1, <2>2, <3>1, <3>2 DEF RowStays, SameCells
  <2>3. CASE k # r
    <3>1. new[k] = rows[k]
      BY <1>10, <2>1, <2>3
    <3> QED BY <2>1, <2>3, <3>1 DEF RowStays, SameCells
  <2> QED BY <2>2, <2>3
<1>13. r \in Nat /\ DOMAIN new = DOMAIN rows
  BY <1>1, <1>2, <1>10
<1> QED BY <1>1, <1>2, <1>8, <1>9, <1>10, <1>11, <1>12, <1>13 DEF StaysBut, RowStays

(* A change of one cell leaves the others as they are.                     *)
LEMMA CellsStay ==
  ASSUME NEW json, IsJson(json), NEW e \in CellsChanged(json)
  PROVE  StaysBut(json, e)
<1> DEFINE at(r, x) == {Edited(r, x, [json EXCEPT !.rows[r].cells[x] = c]) :
                          c \in CellsFor(json.rows[r].cells[x])}
           of(r) == UNION {at(r, x) : x \in DOMAIN json.rows[r].cells}
<1>1. PICK r \in DOMAIN json.rows : e \in of(r)
  <2>1. CellsChanged(json) = UNION {of(r) : r \in DOMAIN json.rows}
    BY DEF CellsChanged
  <2> HIDE DEF of
  <2> QED BY <2>1
<1>2. PICK x \in DOMAIN json.rows[r].cells : e \in at(r, x)
  <2> HIDE DEF at
  <2> QED BY <1>1
<1>7. x # NoName
  BY <1>2 DEF IsJson
<1>3. PICK c : e = Edited(r, x, [json EXCEPT !.rows[r].cells[x] = c])
  BY <1>2
<1> HIDE DEF at, of
<1>4. PICK cells : cells = [json.rows[r].cells EXCEPT ![x] = c]
  OBVIOUS
<1>5. [json EXCEPT !.rows[r].cells[x] = c] = [json EXCEPT !.rows[r].cells = cells]
  BY ONLY <1>4
<1>6. \A y \in DOMAIN json.rows[r].cells : y # x => cells[y] = json.rows[r].cells[y]
  BY <1>4
<1> QED BY <1>3, <1>5, <1>6, <1>7, ReplacedStays

(* So does one of its key.                                                 *)
LEMMA KeysStay ==
  ASSUME NEW json, IsJson(json), NEW e \in KeysChanged(json)
  PROVE  StaysBut(json, e)
<1> DEFINE at(r, x) == {Edited(r, x, [json EXCEPT !.rows[r].cells = c]) :
                          c \in {Without(json.rows[r].cells, x), Renamed(json.rows[r].cells, x),
                                Also(json.rows[r].cells, x)}}
           of(r) == UNION {at(r, x) : x \in DOMAIN json.rows[r].cells}
<1>1. PICK r \in DOMAIN json.rows : e \in of(r)
  <2>1. KeysChanged(json) = UNION {of(r) : r \in DOMAIN json.rows}
    BY DEF KeysChanged
  <2> HIDE DEF of
  <2> QED BY <2>1
<1>7. PICK x \in DOMAIN json.rows[r].cells : e \in at(r, x)
  <2> HIDE DEF at
  <2> QED BY <1>1
<1>2. PICK old : old = json.rows[r].cells
  OBVIOUS
<1>6. PICK c \in {Without(old, x), Renamed(old, x), Also(old, x)} :
        e = Edited(r, x, [json EXCEPT !.rows[r].cells = c])
  BY <1>2, <1>7
<1> HIDE DEF at, of
<1>4. Unknown \notin DOMAIN old
  BY <1>2 DEF IsJson
<1>5. \A y \in DOMAIN old : y # x => c[y] = old[y]
  <2> TAKE y \in DOMAIN old
  <2> HAVE y # x
  <2>1. y # Unknown
    BY <1>4
  <2>2. Without(old, x)[y] = old[y] /\ Renamed(old, x)[y] = old[y] /\ Also(old, x)[y] = old[y]
    BY <2>1 DEF Without, Renamed, Also
  <2> QED BY <2>2
<1>8. x # NoName
  BY <1>7 DEF IsJson
<1> QED BY <1>2, <1>5, <1>6, <1>8, ReplacedStays

(* So every edit stays one.                                                *)
LEMMA EditsStay ==
  ASSUME NEW json, IsJson(json), NEW e \in Edits(json)
  PROVE  StaysBut(json, e)
BY TakenStays, AddedStays, CellsStay, KeysStay DEF Edits

(* What extract writes has the form that edits are made of.                *)
LEMMA JsonIs ==
  ASSUME NEW version \in Versions, NEW t, IsTable(t, version),
         NEW u, u = ConvertAll(t, version),
         \A c \in DOMAIN u.cols : Name(u, c) \notin {NoName, Unknown}
  PROVE  IsJson(ToJson(u, TRUE))
<1>1. PICK json : json = ToJson(u, TRUE)
  OBVIOUS
<1>2. json = [typed |-> json.typed, schema |-> json.schema, rows |-> json.rows]
  BY <1>1 DEF ToJson
<1>3. PICK rows : rows = json.rows
  OBVIOUS
<1>4. rows = [r \in DOMAIN t.rows |-> [id |-> t.base + r - 1, cells |-> CellsOf(u, t.rows[r])]]
  <2>1. ToJson(ConvertAll(t, version), TRUE).rows
        = [r \in DOMAIN t.rows |->
              [id |-> t.base + r - 1, cells |-> CellsOf(ConvertAll(t, version), t.rows[r])]]
    BY JsonRows
  <2> QED BY ONLY <1>1, <1>3, <2>1, u = ConvertAll(t, version)
<1>5. t.base \in Nat /\ t.rows \in Seq(ToSet(t.rows))
  BY DEF IsTable, IsSequence
<1>6. PICK n \in Nat : DOMAIN t.rows = 1..n
  BY <1>5
<1>7. DOMAIN rows = 1..n /\ rows = [r \in 1..n |-> rows[r]]
  BY <1>4, <1>6
<1>8. rows \in Seq(ToSet(rows))
  <2>1. \A r \in 1..n : rows[r] \in ToSet(rows)
    BY <1>7 DEF ToSet
  <2> QED BY <1>7, <2>1
<1>9. ASSUME NEW r \in DOMAIN rows
      PROVE  /\ rows[r] = [id |-> rows[r].id, cells |-> rows[r].cells]
             /\ rows[r].id \in Int
             /\ rows[r].cells = [x \in DOMAIN rows[r].cells |-> rows[r].cells[x]]
             /\ Unknown \notin DOMAIN rows[r].cells /\ NoName \notin DOMAIN rows[r].cells
  <2>1. r \in DOMAIN t.rows /\ r \in Int
    BY <1>6, <1>7
  <2>2. PICK id, cells : id = t.base + r - 1 /\ cells = CellsOf(u, t.rows[r])
    OBVIOUS
  <2>3. rows[r] = [id |-> id, cells |-> cells]
    BY <1>4, <2>1, <2>2
  <2>4. rows[r].id = id /\ rows[r].cells = cells
    BY ONLY <2>3
  <2>5. id \in Int
    BY <1>5, <2>1, <2>2
  <2>6. cells = [x \in DOMAIN cells |-> cells[x]] /\ DOMAIN cells = {Name(u, i) : i \in DOMAIN u.cols}
    BY <2>2 DEF CellsOf
  <2>7. Unknown \notin DOMAIN cells /\ NoName \notin DOMAIN cells
    BY <2>6
  <2> QED BY <2>3, <2>4, <2>5, <2>6, <2>7
<1>10. IsJson(json)
  BY ONLY <1>2, <1>3, <1>8, <1>9 DEF IsJson
<1> QED BY <1>1, <1>10

(* What is left of a table whose JSON was edited before it is packed.      *)
LEMMA EditRead ==
  ASSUME NEW version \in Versions, NEW t, IsTable(t, version), Plain(t, version),
         NEW u, u = ConvertAll(t, version), \A c \in DOMAIN u.cols : Name(u, c) \notin {NoName, Unknown},
         NEW e \in Edits(ToJson(u, TRUE)), edit.row = e.row, edit.name = e.name,
         NEW json, json = e.json,
         \A r \in DOMAIN json.rows : ~RowRefused(json, json.rows[r], version)
  PROVE  KeptIn(Written(FromJson(json, IntoHash(u.name, version), version)), Kept(t), json)
<1>1. PICK old : old = ToJson(u, TRUE)
  OBVIOUS
<1>2. StaysBut(old, e)
  BY <1>1, JsonIs, EditsStay
<1>3. PICK m \in Nat : DOMAIN json.rows = 1..m /\ Len(json.rows) = m
  BY <1>2 DEF StaysBut
<1>4. SchemaFrom(json, t, version)
  BY <1>1, <1>2 DEF StaysBut, SchemaFrom
<1>5. PICK label : label = IntoHash(u.name, version)
  OBVIOUS
<1>6. PICK p : p = FromJson(json, label, version)
  OBVIOUS
<1>7. PICK k : k = Kept(t)
  OBVIOUS
<1>8. PICK rows : rows = json.rows
  OBVIOUS
<1>9. label = t.name
  <2>1. u.name = ConvertLabel(t.name)
    BY Converted
  <2>2. IsLabel(t.name, version)
    BY DEF IsTable
  <2> QED BY <1>5, <2>1, <2>2, LabelsKept
<1>10. /\ p.name = label /\ p.base = BaseId(json)
       /\ p.rows = [r \in DOMAIN rows |-> RowRead(json, rows[r])]
  <2>1. PICK a, b : p = [name |-> label, base |-> BaseId(json), cols |-> a, rows |-> b]
                    /\ b = [r \in DOMAIN json.rows |-> RowRead(json, json.rows[r])]
    BY ONLY <1>6 DEF FromJson
  <2>2. p.name = label /\ p.base = BaseId(json) /\ p.rows = b
    BY ONLY <2>1
  <2> QED BY <1>8, <2>1, <2>2
<1>11. p.cols = t.cols
  BY <1>4, <1>6, ColumnsRead
<1>12. /\ k.name = t.name /\ k.cols = t.cols
       /\ k.base = IF t.rows = <<>> THEN 1 ELSE t.base
       /\ k.rows = [r \in DOMAIN t.rows |-> KeptRow(t, t.rows[r])]
  BY ONLY <1>7 DEF Kept
<1>13. Len(p.rows) = m /\ DOMAIN p.rows = 1..m
  BY <1>3, <1>8, <1>10
<1>14. \A r \in DOMAIN rows :
         DOMAIN rows[r].cells = {json.schema[i].name : i \in DOMAIN json.schema}
  BY <1>8 DEF RowRefused
<1>15. ASSUME NEW r \in DOMAIN t.rows, r # e.row \/ e.name # NoName
       PROVE  \E q \in 1..m :
                /\ rows[q].id = t.base + r - 1 /\ (e.name # NoName => q = r)
                /\ \A i \in DOMAIN t.cols :
                     (r = e.row => Name(u, i) # e.name) => p.rows[q][i] = k.rows[r][i]
  <2>1. PICK js : js = old.rows
    OBVIOUS
  <2>2. DOMAIN js = DOMAIN t.rows
    BY <1>1, <2>1, JsonDomain
  <2>3. js[r].id = t.base + r - 1 /\ js[r].cells = CellsOf(u, t.rows[r])
    <3>1. js = ToJson(u, TRUE).rows
      BY <1>1, <2>1
    <3>2. version \in Versions /\ IsTable(t, version) /\ u = ConvertAll(t, version)
      OBVIOUS
    <3>3. ToJson(ConvertAll(t, version), TRUE).rows
          = [i \in DOMAIN t.rows |->
               [id |-> t.base + i - 1, cells |-> CellsOf(ConvertAll(t, version), t.rows[i])]]
      BY ONLY <3>2, JsonRows
    <3>4. js = [i \in DOMAIN t.rows |-> [id |-> t.base + i - 1, cells |-> CellsOf(u, t.rows[i])]]
      BY ONLY <3>1, <3>2, <3>3
    <3>5. js[r] = [id |-> t.base + r - 1, cells |-> CellsOf(u, t.rows[r])]
      BY <3>4
    <3> QED BY ONLY <3>5
  <2>4. PICK q \in DOMAIN rows :
          (e.name # NoName => q = r) /\ RowStays(js[r], rows[q], But(e, r))
    BY <1>2, <1>8, <1>15, <2>1, <2>2 DEF StaysBut
  <2>5. rows[q].id = t.base + r - 1 /\ q \in 1..m
    BY <1>3, <1>8, <2>3, <2>4 DEF RowStays
  <2>6. ASSUME NEW i \in DOMAIN t.cols, r = e.row => Name(u, i) # e.name
        PROVE  p.rows[q][i] = k.rows[r][i]
    <3>1. DOMAIN js[r].cells = {Name(u, c) : c \in DOMAIN u.cols}
      BY <2>3 DEF CellsOf
    <3>2. Name(u, i) \in DOMAIN js[r].cells
      BY <3>1, ColumnsConverted
    <3>3. rows[q].cells[Name(u, i)] = CellsOf(u, t.rows[r])[Name(u, i)]
      BY <2>3, <2>4, <2>6, <3>2 DEF RowStays, SameCells, But
    <3>4. RowRead(json, rows[q])[i] = KeptRow(t, t.rows[r])[i]
      BY <1>4, <3>3, CellRead
    <3>5. p.rows[q] = RowRead(json, rows[q])
      BY <1>10, <2>4
    <3>6. k.rows[r] = KeptRow(t, t.rows[r])
      BY <1>12
    <3> QED BY <3>4, <3>5, <3>6
  <2> QED BY <2>4, <2>5, <2>6
<1>16. ASSUME NEW q \in 1..m, NEW r \in DOMAIN t.rows, rows[q].id = t.base + r - 1,
              InOrder(json, q)
       PROVE  p.base + q - 1 = k.base + r - 1
  <2>1. /\ \A x \in 1..m : rows[x].id \in Int /\ rows[1].id <= rows[x].id
        /\ rows[q].id = rows[1].id + q - 1
    <3>1. \A x \in 1..m : rows[x].id \in Int
      BY <1>2, <1>3, <1>8 DEF StaysBut
    <3>2. /\ \A x \in DOMAIN rows : rows[1].id <= rows[x].id
          /\ \A x \in 1..q : rows[x].id = rows[1].id + x - 1
      BY <1>8, <1>16 DEF InOrder
    <3>3. q \in 1..q /\ DOMAIN rows = 1..m
      BY <1>3, <1>8
    <3> QED BY <3>1, <3>2, <3>3
  <2>2. 1 \in 1..m
    OBVIOUS
  <2> DEFINE ids == {rows[x].id : x \in DOMAIN rows}
  <2>3. rows[1].id \in ids /\ \A y \in ids : rows[1].id <= y /\ y \in Int
    BY <1>3, <1>8, <2>1, <2>2
  <2> HIDE DEF ids
  <2>4. Min(ids) = rows[1].id
    BY <2>1, <2>2, <2>3, LeastIs
  <2>5. rows # <<>>
    BY <1>3, <1>8, <2>2
  <2>6. BaseId(json) = rows[1].id
    BY <1>8, <2>4, <2>5 DEF BaseId, ids
  <2>7. t.rows # <<>> /\ t.base \in Nat /\ r \in Nat
    BY DEF IsTable, IsSequence
  <2>8. k.base = t.base
    BY <1>12, <2>7
  <2> QED BY <1>10, <1>16, <2>1, <2>2, <2>6, <2>7, <2>8
<1>17. \A i \in DOMAIN t.cols : Name(ConvertAll(k, "Modern"), i) = Name(u, i)
  <2> TAKE i \in DOMAIN t.cols
  <2>1. PICK c : c = t.cols[i]
    OBVIOUS
  <2>2. c = [label |-> c.label, type |-> c.type, flags |-> c.flags, count |-> c.count]
    BY <2>1 DEF IsTable, IsColumn
  <2>3. ConvertColumn(c).label = ConvertLabel(c.label)
    BY ONLY <2>2 DEF ConvertColumn
  <2>4. ConvertAll(k, "Modern").cols[i] = ConvertColumn(c)
    <3>1. k = [name |-> k.name, base |-> k.base, cols |-> k.cols, rows |-> k.rows]
      BY ONLY <1>7 DEF Kept
    <3>2. PICK cols : cols = [x \in DOMAIN k.cols |-> ConvertColumn(k.cols[x])]
      OBVIOUS
    <3>3. ConvertAll(k, "Modern") = [k EXCEPT !.name = ConvertLabel(k.name), !.cols = cols]
      BY <3>2 DEF ConvertAll
    <3>4. ConvertAll(k, "Modern").cols = cols
      BY ONLY <3>1, <3>3
    <3> QED BY <1>12, <2>1, <3>2, <3>4
  <2>5. u.cols[i].label = ConvertLabel(c.label)
    BY <2>1, ColumnsConverted
  <2> QED BY <2>3, <2>4, <2>5 DEF Name
<1>18. PICK w : w = Written(p)
  OBVIOUS
<1>19. /\ w.name = p.name /\ w.base = p.base /\ w.cols = t.cols
       /\ w.rows = [r \in 1..m |-> [i \in DOMAIN t.cols |->
                      IF InPlace(p, r, i) THEN p.rows[r][i] ELSE Shifted]]
  <2>1. IsRecord(p)
    <3>1. PICK a, b, c, d : p = [name |-> a, base |-> b, cols |-> c, rows |-> d]
      BY ONLY <1>6 DEF FromJson
    <3> QED BY ONLY <3>1 DEF IsRecord
  <2> QED BY <1>11, <1>13, <1>18, <2>1, WrittenIs
<1>20. ASSUME NEW r \in 1..m, NEW i \in DOMAIN t.cols,
              ~(r = e.row /\ e.name # NoName /\ Name(u, i) = e.name)
       PROVE  Values(p.rows[r][i]) = t.cols[i].count
  <2>1. PICK js : js = old.rows
    OBVIOUS
  <2>2. DOMAIN js = DOMAIN t.rows
    BY <1>1, <2>1, JsonDomain
  <2>3. PICK q \in DOMAIN t.rows : SameCells(js[q], rows[r], But(e, r))
    BY <1>2, <1>3, <1>8, <2>1, <2>2 DEF StaysBut
  <2>4. js[q].cells = CellsOf(u, t.rows[q])
    <3>1. js = ToJson(u, TRUE).rows
      BY <1>1, <2>1
    <3>2. version \in Versions /\ IsTable(t, version) /\ u = ConvertAll(t, version)
      OBVIOUS
    <3>3. \A x \in DOMAIN t.rows : js[x].cells = CellsOf(u, t.rows[x])
      BY ONLY <3>1, <3>2, JsonRow
    <3> QED BY <3>3
  <2>5. Name(u, i) \in DOMAIN js[q].cells
    BY <2>4, ColumnsConverted DEF CellsOf
  <2>6. rows[r].cells[Name(u, i)] = CellsOf(u, t.rows[q])[Name(u, i)]
    BY <1>20, <2>3, <2>4, <2>5 DEF SameCells, But
  <2>7. RowRead(json, rows[r])[i] = KeptRow(t, t.rows[q])[i]
    BY <1>4, <2>6, CellRead
  <2>8. p.rows[r] = RowRead(json, rows[r])
    BY <1>3, <1>8, <1>10
  <2> QED BY <2>7, <2>8, KeptFits
<1>21. ASSUME HasRoom(json), e.name # NoName, e.row \in 1..m,
              NEW i \in DOMAIN t.cols, Name(u, i) = e.name
       PROVE  Values(p.rows[e.row][i]) = t.cols[i].count
  <2>1. PICK s : s = json.schema
    OBVIOUS
  <2>2. DOMAIN s = DOMAIN t.cols
    BY <1>4, <2>1, SchemaRead
  <2>3. s[i] = [name |-> Name(u, i), type |-> t.cols[i].type,
                flags |-> t.cols[i].flags, count |-> t.cols[i].count]
    BY <1>4, <2>1, SchemaRead
  <2>4. s[i].name = Name(u, i) /\ s[i].count = t.cols[i].count
    BY ONLY <2>3
  <2>10. PICK row : row = rows[e.row]
    OBVIOUS
  <2>5. PICK cell : cell = row.cells[e.name]
    OBVIOUS
  <2>6. Values(cell) = t.cols[i].count
    BY <1>8, <1>21, <2>1, <2>2, <2>4, <2>5, <2>10 DEF HasRoom
  <2>7. p.rows[e.row] = RowRead(json, row)
    BY <1>3, <1>8, <1>10, <1>21, <2>10
  <2>8. p.rows[e.row][i] = CellFromJson(FirstOf(json, i), cell)
    <3>1. RowRead(json, row)[i] = CellFromJson(FirstOf(json, i), row.cells[s[i].name])
      BY <2>1, <2>2 DEF RowRead
    <3> QED BY <1>21, <2>4, <2>5, <2>7, <3>1
  <2>9. Values(CellFromJson(FirstOf(json, i), cell)) = Values(cell)
    BY DEF Values, CellFromJson, Cell
  <2> QED BY <2>6, <2>8, <2>9
<1>22. ASSUME NEW x \in Misfits(p)
       PROVE  /\ x[1] = e.row /\ x[2] \in DOMAIN t.cols /\ Name(u, x[2]) = e.name
              /\ e.name # NoName /\ ~HasRoom(json)
  <2>1. PICK r \in 1..m, i \in DOMAIN t.cols : x = <<r, i>>
    BY <1>11, <1>13 DEF Misfits, Places
  <2>2. x[1] = r /\ x[2] = i
    BY <2>1
  <2>3. Values(p.rows[r][i]) # t.cols[i].count
    <3>1. x \in Places(p) /\ ValuesGiven(p)[x] # RoomFor(p)[x]
      BY DEF Misfits
    <3>2. ValuesGiven(p)[x] = Values(p.rows[x[1]][x[2]]) /\ RoomFor(p)[x] = p.cols[x[2]].count
      BY <3>1 DEF ValuesGiven, RoomFor
    <3> QED BY <1>11, <2>2, <3>1, <3>2
  <2>4. r = e.row /\ e.name # NoName /\ Name(u, i) = e.name
    BY <1>20, <2>3
  <2>5. ~HasRoom(json)
    BY <1>21, <2>3, <2>4
  <2> QED BY <2>2, <2>4, <2>5
<1>23. ASSUME NEW r \in DOMAIN t.rows, NEW q \in 1..m, e.name # NoName => q = r,
              NEW i \in InFront(k, r, json)
       PROVE  /\ i \in DOMAIN t.cols /\ (r = e.row => Name(u, i) # e.name)
              /\ InPlace(p, q, i)
  <2> DEFINE edited == {j \in DOMAIN k.cols : Name(ConvertAll(k, "Modern"), j) = edit.name}
  <2>1. edited = {j \in DOMAIN t.cols : Name(u, j) = e.name}
    BY <1>12, <1>17
  <2>2. PICK n \in Nat : DOMAIN t.cols = 1..n
    BY DEF IsTable, IsSequence
  <2>3. q \in Nat /\ r \in Nat /\ e.row \in Nat
    <3>1. PICK y \in Nat : DOMAIN t.rows = 1..y
      BY DEF IsTable, IsSequence
    <3> QED BY <1>2, <3>1 DEF StaysBut
  <2>4. CASE HasRoom(json)
    <3>1. i \in IF r = edit.row THEN (DOMAIN k.cols) \ edited ELSE DOMAIN k.cols
      BY <1>23, <2>4 DEF InFront
    <3>2. Misfits(p) = {}
      BY <1>22, <2>4
    <3> QED BY <1>12, <2>1, <3>1, <3>2 DEF InPlace
  <2>5. CASE ~HasRoom(json)
    <3>1. /\ i \in DOMAIN k.cols
          /\ r < edit.row \/ (r = edit.row /\ \A j \in edited : i < j)
      BY <1>23, <2>5 DEF InFront
    <3>2. i \in 1..n /\ i \in DOMAIN t.cols /\ ~(i < i)
      BY <1>12, <2>2, <3>1
    <3>3. r = e.row => Name(u, i) # e.name
      BY <2>1, <2>3, <3>1, <3>2
    <3>4. ASSUME NEW x \in Misfits(p) PROVE q < x[1] \/ (q = x[1] /\ i < x[2])
      <4>1. x[1] = e.row /\ x[2] \in edited /\ q = r
        BY <1>22, <1>23, <2>1
      <4> HIDE DEF edited
      <4> QED BY <2>3, <3>1, <4>1
    <3> QED BY <3>2, <3>3, <3>4 DEF InPlace
  <2> QED BY <2>4, <2>5
<1>24. ASSUME NEW r \in DOMAIN k.rows, r # edit.row \/ edit.name # NoName
       PROVE  LET inPlace(q) == InOrder(json, q) => w.base + q - 1 = k.base + r - 1
                  same(q) == {i \in DOMAIN k.cols : w.rows[q][i] = k.rows[r][i]}
              IN  \E q \in DOMAIN w.rows : inPlace(q) /\ InFront(k, r, json) \subseteq same(q)
  <2>1. r \in DOMAIN t.rows
    BY <1>12, <1>24
  <2>2. PICK q \in 1..m :
          /\ rows[q].id = t.base + r - 1 /\ (e.name # NoName => q = r)
          /\ \A i \in DOMAIN t.cols :
               (r = e.row => Name(u, i) # e.name) => p.rows[q][i] = k.rows[r][i]
    BY <1>15, <1>24, <2>1
  <2>3. InOrder(json, q) => p.base + q - 1 = k.base + r - 1
    BY <1>16, <2>1, <2>2
  <2>4. ASSUME NEW i \in InFront(k, r, json)
        PROVE  i \in DOMAIN k.cols /\ w.rows[q][i] = k.rows[r][i]
    <3>1. /\ i \in DOMAIN t.cols /\ (r = e.row => Name(u, i) # e.name)
          /\ InPlace(p, q, i)
      BY <1>23, <2>1, <2>2
    <3>2. w.rows[q][i] = p.rows[q][i]
      BY <1>19, <3>1
    <3> QED BY <1>12, <2>2, <3>1, <3>2
  <2>5. DOMAIN w.rows = 1..m /\ w.base = p.base
    BY <1>19
  <2> QED BY <2>3, <2>4, <2>5
<1>25. w.name = k.name /\ w.cols = k.cols /\ Len(w.rows) = Len(json.rows)
  BY <1>3, <1>9, <1>10, <1>12, <1>19
<1>26. KeptIn(w, k, json)
  BY ONLY <1>8, <1>14, <1>24, <1>25 DEF KeptIn
<1> QED BY <1>5, <1>6, <1>7, <1>18, <1>26
-----------------------------------------------------------------------------
(* What is where: the tables of a file, what extract makes of them, and    *)
(* what pack may make of these.                                            *)
Tabs(f) == DOMAIN dump[f].tables
TP(f, i) == JsonPath(dump[f].stem, FileName(Table(f, i).name))
SP(f) == SchemaPath(dump[f].stem)
BP(f) == BdatPath(dump[f].stem)
Asked(f, i) == Selected(Table(f, i))

JsonOf(f, i, typed) == Json(Table(f, i), typed)
Listing(f, n) == [i \in 1..n |-> LabelText(Table(f, i).name)]
SchemaOf(f) == Schema(f, Listing(f, Len(dump[f].tables)))

(* Another file has a table of that file name.                             *)
Shares(h, j, f, i) == h # f /\ TP(h, j) = TP(f, i)
Shared(f, i) == \E h \in Files : \E j \in Tabs(h) : Shares(h, j, f, i)
SpoiltAt(f, i) ==
  \E h \in Files : \E j \in Tabs(h) :
    Shares(h, j, f, i) /\ (LargeTable(f, i) \/ LargeTable(h, j))

WholeIn(f, tables) ==
  /\ KeptOfAsked(f) \subseteq Range(tables)
  /\ Range(tables) \subseteq KeptOf(f)
  /\ Len(tables) = Cardinality(Range(tables))
KeptOfMates(f) == UNION {KeptOf(g) : g \in Mates(f)}
Genuine(f, tables) ==
  MatesSeparate(f) =>
    \A t \in Range(tables) : t \in KeptOfMates(f) \/ SpoiltTable(f, t) \/ SpoiltSchema(f)
EditKept(f, tables) ==
  \A i \in Tabs(f) : \A t, json :
    /\ Separate(f) /\ edit.path = TP(f, i)
    /\ t = Kept(dump[f].tables[i]) /\ json = disk[edit.path].json
    => \E packed \in Range(tables) : KeptIn(packed, t, json)
Good(f, tables) ==
  /\ edit = NoEdit => Genuine(f, tables)
  /\ edit = NoEdit /\ Separate(f) /\ (extracts = 1 \/ extracted = "ok") => WholeIn(f, tables)
  /\ EditKept(f, tables)
GoodFor(stem, tables) == \A f \in Files : dump[f].stem = stem => Good(f, tables)
-----------------------------------------------------------------------------
(* The invariant.                                                          *)
Control ==
  /\ dump \in Dumps /\ extracts \in Nat /\ error \in BOOLEAN
  /\ cmd \in {"idle", "extract", "pack"}
  /\ result = "ok" => last \in {"extract", "pack"}
  /\ cmd = "idle" => DOMAIN work = {} /\ todo = {}
  /\ cmd = "extract" => /\ todo \subseteq Files /\ DOMAIN work \subseteq Files \ todo
                        /\ extracts # 0 /\ extracted = "none"
  /\ cmd = "pack" => todo \subseteq Schemas /\ DOMAIN work \subseteq Schemas \ todo
  /\ extracts = 0 => DOMAIN disk = {} /\ extracted = "none"
  /\ extracts = 1 /\ cmd = "extract" => edit = NoEdit

(* What may be in a JSON file and in a schema.                             *)
JsonIn(f, i, content) ==
  \/ Broken(content)
  \/ content = Mixed /\ SpoiltAt(f, i)
  \/ \E typed \in BOOLEAN : content = JsonOf(f, i, typed)
SchemaIn(f, content) ==
  \/ Broken(content)
  \/ content = Mixed /\ ~Alone(f) /\ SpoiltSchema(f)
  \/ \E g \in Mates(f) : content = SchemaOf(g)
JsonFile(p) ==
  \E f \in Files : \E i \in Tabs(f) : p = TP(f, i) /\ (p = edit.path \/ JsonIn(f, i, disk[p]))
SchemaFile(p) == \E f \in Files : p = SP(f) /\ SchemaIn(f, disk[p])
BdatFile(p) == \E f \in Files : p = BP(f) /\ SP(f) \in DOMAIN disk /\ disk[p].kind # "json"
DiskInv == \A p \in DOMAIN disk : JsonFile(p) \/ SchemaFile(p) \/ BdatFile(p)

EditInv ==
  edit = NoEdit \/
    \E f \in Files : \E i \in Tabs(f) : \E e \in Edits(ToJson(Table(f, i), TRUE)) :
      /\ edit = [path |-> TP(f, i), row |-> e.row, name |-> e.name]
      /\ TP(f, i) \in DOMAIN disk /\ disk[TP(f, i)] = [kind |-> "json", json |-> e.json]

(* A worker of extract, and what is there of the files it is done with.    *)
There(f, i) == Asked(f, i) => TP(f, i) \in DOMAIN disk
Sound(f, i) == Asked(f, i) /\ Alone(f) => disk[TP(f, i)].kind = "json"
AtWrite(f, w) ==
  /\ TP(f, w.n) \in DOMAIN disk /\ TP(f, w.n) # edit.path
  /\ w.begun => LargeTable(f, w.n)
  /\ ~Shared(f, w.n) => disk[TP(f, w.n)] = IF w.begun THEN Part(f) ELSE Torn
AtSchema(f, w) ==
  /\ SP(f) \in DOMAIN disk
  /\ w.begun => Large(SchemaOf(f))
  /\ Alone(f) => disk[SP(f)] = IF w.begun THEN Part(f) ELSE Torn
WorkerOK(f, w) ==
  LET len == Len(dump[f].tables)
  IN  /\ w = [pc |-> w.pc, n |-> w.n, listed |-> w.listed, begun |-> w.begun]
      /\ w.pc \in {"create", "write", "schema"} /\ w.n \in 1..(len + 1) /\ w.begun \in BOOLEAN
      /\ w.listed = Listing(f, IF w.pc = "write" THEN w.n ELSE w.n - 1)
      /\ \A i \in 1..(w.n - 1) :
           There(f, i) /\ (Sound(f, i) \/ (w.pc = "write" /\ TP(f, i) = TP(f, w.n)))
      /\ w.pc = "write" => w.n <= len /\ AtWrite(f, w)
      /\ w.pc = "schema" => w.n = len + 1 /\ AtSchema(f, w)
ExtractWork == cmd = "extract" => \A f \in DOMAIN work : \A w : w = work[f] => WorkerOK(f, w)

AllWritten(f) ==
  /\ \A i \in Tabs(f) : There(f, i) /\ Sound(f, i)
  /\ ~options.noSchema => SP(f) \in DOMAIN disk
Extracting ==
  \/ cmd = "extract" /\ ~error
  \/ cmd = "idle" /\ last = "extract" /\ result = "ok"
ExtractDone == Extracting => \A f \in (Files \ todo) \ DOMAIN work : AllWritten(f)

(* What lasts of an extract.                                               *)
Extracted ==
  extracted = "ok" => \A f \in Files : /\ \A i \in Tabs(f) : There(f, i)
                                       /\ ~options.noSchema => SP(f) \in DOMAIN disk
TablesFirst ==
  extracts = 1 =>
    \A f \in Files : Alone(f) /\ SP(f) \in DOMAIN disk => \A i \in Tabs(f) : There(f, i)

(* A worker of pack, and what is there of the schemas it is done with.     *)
AsWritten(tables) == [i \in DOMAIN tables |-> Written(tables[i])]
PackerOK(s, w) ==
  /\ w = [pc |-> w.pc, tables |-> w.tables]
  /\ ~Broken(disk[SchemaPath(s)]) /\ GoodFor(s, AsWritten(w.tables))
PackWork == cmd = "pack" => \A s \in DOMAIN work : \A w : w = work[s] => PackerOK(s, w)

PackedOK(s) ==
  /\ ~Broken(disk[SchemaPath(s)])
  /\ BdatPath(s) \in DOMAIN disk /\ ~Broken(disk[BdatPath(s)])
  /\ \A tables : tables = disk[BdatPath(s)].tables => GoodFor(s, tables)
Packing ==
  \/ cmd = "pack" /\ ~error
  \/ cmd = "idle" /\ last = "pack" /\ result = "ok"
PackDone == Packing => \A s \in (Schemas \ todo) \ DOMAIN work : PackedOK(s)

(* What lasts of a pack.                                                   *)
PackedOnce ==
  extracts = 1 /\ edit = NoEdit =>
    \A f \in Files : \A tables :
      PackedFile(f) /\ tables = PackedTables(f) => Good(f, tables)

DirInv == Control /\ DiskInv /\ EditInv
IInv ==
  /\ DirInv /\ ExtractWork /\ ExtractDone /\ Extracted /\ TablesFirst
  /\ PackWork /\ PackDone /\ PackedOnce
-----------------------------------------------------------------------------
(* No two files have one path.                                             *)
LEMMA Paths ==
  /\ \A s, n, s2, n2 : JsonPath(s, n) = JsonPath(s2, n2) => s = s2 /\ n = n2
  /\ \A s, s2 : SchemaPath(s) = SchemaPath(s2) => s = s2
  /\ \A s, s2 : BdatPath(s) = BdatPath(s2) => s = s2
  /\ \A s, n, s2 : JsonPath(s, n) # SchemaPath(s2) /\ JsonPath(s, n) # BdatPath(s2)
  /\ \A s, s2 : SchemaPath(s) # BdatPath(s2)
  /\ \A s, n : JsonPath(s, n) # NoEdit.path
  /\ \A s, n : JsonPath(s, n)[1] = "json"
  /\ \A s : SchemaPath(s)[1] = "schema" /\ BdatPath(s)[1] = "bdat"
BY DEF JsonPath, SchemaPath, BdatPath, NoEdit

(* What the files hold is told apart by its kind.                          *)
LEMMA Kinds ==
  /\ \A f : Broken(Part(f)) /\ Broken(Torn) /\ Broken(Trailing) /\ ~Broken(Mixed)
  /\ \A f, i, typed : JsonOf(f, i, typed).kind = "json" /\ ~Broken(JsonOf(f, i, typed))
  /\ \A g : SchemaOf(g).kind = "schema" /\ ~Broken(SchemaOf(g))
  /\ \A tables : ~Broken(Bdat(tables)) /\ Bdat(tables) # Torn /\ Bdat(tables).tables = tables
  /\ Mixed.kind = "mixed"
<1>1. /\ \A f : Broken(Part(f)) /\ Broken(Torn) /\ Broken(Trailing) /\ ~Broken(Mixed)
      /\ Mixed.kind = "mixed"
  BY DEF Broken, Part, Torn, Trailing, Mixed
<1>2. \A f, i, typed : JsonOf(f, i, typed).kind = "json"
  <2> TAKE f, i, typed
  <2>1. PICK a : JsonOf(f, i, typed) = [kind |-> "json", json |-> a]
    BY DEF JsonOf, Json
  <2> QED BY <2>1
<1>3. \A g : SchemaOf(g).kind = "schema"
  <2> TAKE g
  <2>1. PICK a, b : SchemaOf(g) = [kind |-> "schema", version |-> a, tables |-> b]
    BY DEF SchemaOf, Schema
  <2> QED BY ONLY <2>1
<1>4. \A tables : Bdat(tables).kind = "bdat" /\ Bdat(tables).tables = tables
  BY DEF Bdat
<1>5. \A tables : Bdat(tables) # Torn
  BY <1>4 DEF Torn
<1> QED BY <1>1, <1>2, <1>3, <1>4, <1>5 DEF Broken

(* What the assumptions say of a file of tables.                           *)
LEMMA DumpIs ==
  ASSUME Control, NEW f \in Files
  PROVE  /\ dump[f].version \in Versions
         /\ dump[f].tables \in Seq(Range(dump[f].tables))
         /\ \A i \in Tabs(f) :
              /\ IsTable(dump[f].tables[i], dump[f].version)
              /\ \A c \in DOMAIN Table(f, i).cols : Name(Table(f, i), c) \notin {NoName, Unknown}
         /\ TablesSeparate(f) => \A i \in Tabs(f) : Plain(dump[f].tables[i], dump[f].version)
<1>1. dump \in Dumps /\ f \in DOMAIN dump
  BY DEF Control, Files
<1>2. /\ dump[f].version \in {"Modern", "Legacy"} /\ IsSequence(dump[f].tables)
      /\ \A i \in DOMAIN dump[f].tables :
           LET t == dump[f].tables[i]
           IN  /\ IsTable(t, dump[f].version)
               /\ \A c \in DOMAIN ConvertAll(t, dump[f].version).cols :
                    Name(ConvertAll(t, dump[f].version), c) \notin {NoName, Unknown}
  <2>1. /\ dump[f].version \in {"Modern", "Legacy"} /\ IsSequence(dump[f].tables)
        /\ \A i \in DOMAIN dump[f].tables :
             LET t == dump[f].tables[i]
             IN  /\ IsTable(t, dump[f].version)
                 /\ \A c \in DOMAIN t.cols : Name(ConvertAll(t, dump[f].version), c) \notin {NoName, Unknown}
    BY <1>1, ConvertAssumption
  <2>2. \A i \in DOMAIN dump[f].tables :
          DOMAIN ConvertAll(dump[f].tables[i], dump[f].version).cols = DOMAIN dump[f].tables[i].cols
    BY <2>1, ColumnsConverted DEF Versions
  <2> QED BY <2>1, <2>2
<1>3. dump[f].tables \in Seq(Range(dump[f].tables))
  <2>1. Range(dump[f].tables) = ToSet(dump[f].tables)
    BY DEF Range, ToSet
  <2> QED BY <1>2, <2>1 DEF IsSequence
<1>4. TablesSeparate(f) => \A i \in Tabs(f) : Plain(dump[f].tables[i], dump[f].version)
  <2>1. ASSUME TablesSeparate(f), NEW i \in Tabs(f)
        PROVE  Plain(dump[f].tables[i], dump[f].version)
    <3>1. PICK u : u = Table(f, i)
      OBVIOUS
    <3>2. \A c \in DOMAIN u.cols :
            /\ dump[f].version = "Modern" => Parse(Name(u, c), FALSE) = u.cols[c].label
            /\ \A d \in DOMAIN u.cols :
                 u.cols[c].label = u.cols[d].label =>
                   u.cols[c].flags = u.cols[d].flags /\ u.cols[c].count = u.cols[d].count
            /\ IsInjective(u.cols[c].flags)
      BY <2>1, <3>1 DEF TablesSeparate, Tabs
    <3> QED BY <3>1, <3>2 DEF Plain, Table
  <2> QED BY <2>1
<1> QED BY <1>2, <1>3, <1>4 DEF Versions, Table, Tabs

(* Its tables are numbered.                                                *)
LEMMA Numbered ==
  ASSUME Control, NEW f \in Files
  PROVE  Len(dump[f].tables) \in Nat /\ Tabs(f) = 1..Len(dump[f].tables)
BY DumpIs DEF Tabs

(* A table's file holds a table of that file name, of a file of that stem. *)
LEMMA AtPath ==
  ASSUME Control, DiskInv, NEW s, NEW n, JsonPath(s, n) \in DOMAIN disk
  PROVE  \E h \in Files : \E j \in Tabs(h) :
           LET p == JsonPath(s, n)
           IN  /\ dump[h].stem = s /\ FileName(Table(h, j).name) = n /\ p = TP(h, j)
               /\ p = edit.path \/ JsonIn(h, j, disk[p])
<1>1. PICK p : p = JsonPath(s, n)
  OBVIOUS
<1>2. JsonFile(p)
  BY <1>1, Paths DEF DiskInv, SchemaFile, BdatFile, SP, BP
<1> DEFINE here(h, j) == p = TP(h, j) /\ (p = edit.path \/ JsonIn(h, j, disk[p]))
<1>31. PICK h \in Files : \E j \in Tabs(h) : here(h, j)
  BY <1>2 DEF JsonFile
<1>3. PICK j \in Tabs(h) : here(h, j)
  BY <1>31
<1>4. dump[h].stem = s /\ FileName(Table(h, j).name) = n
  <2>1. JsonPath(s, n) = JsonPath(dump[h].stem, FileName(Table(h, j).name))
    BY <1>1, <1>3 DEF TP
  <2> QED BY ONLY <2>1, Paths
<1> QED BY <1>1, <1>3, <1>4

(* A schema lists the tables of a file of that stem.                       *)
LEMMA SchemaIs ==
  ASSUME Control, DiskInv, NEW s, SchemaPath(s) \in DOMAIN disk
  PROVE  /\ disk[SchemaPath(s)].kind = "schema" =>
              \E g \in Files : dump[g].stem = s /\ disk[SchemaPath(s)] = SchemaOf(g)
         /\ disk[SchemaPath(s)] = Mixed =>
              \A f \in Files : dump[f].stem = s => ~Alone(f) /\ SpoiltSchema(f)
<1>1. PICK p : p = SchemaPath(s)
  OBVIOUS
<1>2. SchemaFile(p)
  BY <1>1, Paths DEF DiskInv, JsonFile, BdatFile, TP, BP
<1>3. PICK f \in Files : p = SP(f) /\ SchemaIn(f, disk[p])
  BY <1>2 DEF SchemaFile
<1>4. dump[f].stem = s
  BY <1>1, <1>3, Paths DEF SP
<1>5. ASSUME disk[p].kind = "schema"
      PROVE  \E g \in Files : dump[g].stem = s /\ disk[p] = SchemaOf(g)
  <2>1. PICK g \in Mates(f) : disk[p] = SchemaOf(g)
    BY <1>3, <1>5 DEF SchemaIn, Broken, Mixed
  <2> QED BY <1>4, <2>1 DEF Mates
<1>6. ASSUME disk[p] = Mixed, NEW h \in Files, dump[h].stem = s
      PROVE  ~Alone(h) /\ SpoiltSchema(h)
  <2>1. ~Alone(f) /\ SpoiltSchema(f)
    BY <1>3, <1>6, Kinds DEF SchemaIn
  <2>2. Mates(h) = Mates(f) /\ f \in Mates(f) /\ h \in Mates(f)
    BY <1>4, <1>6 DEF Mates
  <2>3. SpoiltSchema(h)
    BY <2>1, <2>2 DEF SpoiltSchema
  <2>4. ~Alone(h)
    BY <2>1, <2>2 DEF Alone
  <2> QED BY <2>3, <2>4
<1> QED BY <1>1, <1>5, <1>6

(* What pack finds.                                                        *)
FoundBy(pos, g, found) ==
  /\ DOMAIN found = 1..Len(found) /\ Len(found) \in Nat
  /\ \A q \in 1..Len(found) :
       /\ pos[q] \in Tabs(g) /\ found[q] = Table(g, pos[q]).name
       /\ TP(g, pos[q]) \in DOMAIN disk
  /\ \A q, r \in 1..Len(found) : q # r => pos[q] # pos[r]
  /\ \A i \in Tabs(g) : TP(g, i) \in DOMAIN disk => \E q \in 1..Len(found) : pos[q] = i

(* Pack finds the tables of the file that the schema is of, each once.     *)
LEMMA FoundTables ==
  ASSUME Control, DiskInv, NEW g \in Files, disk[SP(g)] = SchemaOf(g),
         \A h \in Mates(g) : TablesSeparate(h)
  PROVE  \E pos : FoundBy(pos, g, Found(dump[g].stem))
<1>1. PICK n \in Nat : n = Len(dump[g].tables) /\ Tabs(g) = 1..n
  BY Numbered
<1>2. PICK stem : stem = dump[g].stem
  OBVIOUS
<1>3. PICK texts : texts = Append(Listing(g, n), stem)
  OBVIOUS
<1>4. /\ DOMAIN texts = 1..(n + 1) /\ texts[n + 1] = stem
      /\ \A i \in 1..n : texts[i] = LabelText(Table(g, i).name)
  <2>1. PICK list : list = Listing(g, n)
    OBVIOUS
  <2>2. list = [i \in 1..n |-> LabelText(Table(g, i).name)]
    BY <2>1 DEF Listing
  <2>3. list \in Seq({LabelText(Table(g, i).name) : i \in 1..n} \cup {stem}) /\ Len(list) = n
    BY <2>2
  <2> QED BY <1>3, <2>1, <2>2, <2>3
<1> DEFINE e == [i \in 1..(n + 1) |-> Parse(texts[i], FALSE)]
           P == {i \in 1..(n + 1) : JsonPath(stem, FileName(e[i])) \in DOMAIN disk}
           list == [i \in 1..(n + 1) |-> IF i \in P THEN <<e[i]>> ELSE <<>>]
<1>5. Found(stem) = FlattenSeq(list)
  <2>1. disk[SchemaPath(stem)].tables = Listing(g, n)
    <3>1. PICK x : x = Schema(g, Listing(g, n))
      OBVIOUS
    <3>2. PICK v : x = [kind |-> "schema", version |-> v, tables |-> Listing(g, n)]
      BY <3>1 DEF Schema
    <3>3. x.tables = Listing(g, n)
      BY ONLY <3>2
    <3> QED BY <1>1, <1>2, <3>1, <3>3 DEF SP, SchemaOf
  <2>2. Found(stem) = FlattenSeq([i \in DOMAIN texts |->
          IF JsonPath(stem, FileName(Parse(texts[i], FALSE))) \in DOMAIN disk
          THEN <<Parse(texts[i], FALSE)>> ELSE <<>>])
    BY <1>3, <2>1 DEF Found
  <2>3. [i \in DOMAIN texts |->
          IF JsonPath(stem, FileName(Parse(texts[i], FALSE))) \in DOMAIN disk
          THEN <<Parse(texts[i], FALSE)>> ELSE <<>>] = list
    BY <1>4
  <2> QED BY <2>2, <2>3
<1>6. \A i \in 1..n : e[i] = Table(g, i).name /\ JsonPath(stem, FileName(e[i])) = TP(g, i)
  <2> TAKE i \in 1..n
  <2>1. g \in Mates(g)
    BY DEF Mates
  <2>2. Parse(LabelText(Table(g, i).name), FALSE) = Table(g, i).name
    BY <1>1, <2>1 DEF TablesSeparate, Tabs
  <2>3. i \in 1..(n + 1)
    OBVIOUS
  <2>4. e[i] = Parse(texts[i], FALSE)
    BY <2>3
  <2>5. e[i] = Table(g, i).name
    BY <1>4, <2>2, <2>4
  <2> HIDE DEF e
  <2> QED BY <1>2, <2>5 DEF TP
<1>7. n + 1 \notin P
  <2>1. SUFFICES ASSUME n + 1 \in P PROVE FALSE
    OBVIOUS
  <2>2. JsonPath(stem, FileName(Parse(stem, FALSE))) \in DOMAIN disk
    BY <1>4, <2>1
  <2>8. PICK name : name = FileName(Parse(stem, FALSE))
    OBVIOUS
  <2>7. JsonPath(stem, name) \in DOMAIN disk
    BY <2>2, <2>8
  <2>9. \E h \in Files : \E j \in Tabs(h) :
          dump[h].stem = stem /\ FileName(Table(h, j).name) = name
    <3> HIDE DEF P, e, list
    <3> QED BY <2>7, AtPath
  <2>6. PICK h \in Files : \E j \in Tabs(h) :
          dump[h].stem = stem /\ FileName(Table(h, j).name) = FileName(Parse(stem, FALSE))
    BY <2>8, <2>9
  <2>3. PICK j \in Tabs(h) :
          dump[h].stem = stem /\ FileName(Table(h, j).name) = FileName(Parse(stem, FALSE))
    BY <2>6
  <2>4. h \in Mates(g)
    BY <1>2, <2>3 DEF Mates
  <2>5. FileName(Table(h, j).name) # FileName(Parse(dump[h].stem, FALSE))
    BY <2>4 DEF TablesSeparate, Tabs
  <2> QED BY <2>3, <2>5
<1>8. P \subseteq 1..n
  <2>1. \A i \in P : i \in 1..(n + 1) /\ i # n + 1
    BY <1>7
  <2>2. \A i \in 1..(n + 1) : i # n + 1 => i \in 1..n
    OBVIOUS
  <2> HIDE DEF P
  <2> QED BY <2>1, <2>2
<1>9. PICK found : found = Found(stem)
  OBVIOUS
<1>91. list = [i \in 1..(n + 1) |-> IF i \in P THEN <<e[i]>> ELSE <<>>] /\ n + 1 \in Nat
  OBVIOUS
<1>12. \A i \in 1..n : i \in P <=> TP(g, i) \in DOMAIN disk
  <2>1. \A i \in 1..n : i \in 1..(n + 1)
    OBVIOUS
  <2>2. \A i \in 1..n : i \in P <=> JsonPath(stem, FileName(e[i])) \in DOMAIN disk
    BY <2>1
  <2> HIDE DEF P, e
  <2> QED BY <1>6, <2>2
<1> HIDE DEF P, e, list
<1>10. PICK V : found \in Seq(V)
  <2>1. \E V : FlattenSeq(list) \in Seq(V)
    BY <1>91, FlattenSome
  <2> QED BY <1>5, <1>9, <2>1
<1>11. PICK pos : Selects(pos, found, P, e, n + 1)
  BY <1>5, <1>9, <1>91, FlattenSome
<1> HIDE DEF P, e, list
<1>13. /\ pos \in [1..Len(found) -> P \cap (1..(n + 1))]
       /\ \A q \in 1..Len(found) : found[q] = e[pos[q]]
       /\ \A q, r \in 1..Len(found) : q < r => pos[q] < pos[r]
       /\ \A i \in P \cap (1..(n + 1)) : \E q \in 1..Len(found) : pos[q] = i
  BY <1>11 DEF Selects
<1>14. DOMAIN found = 1..Len(found) /\ Len(found) \in Nat
  BY <1>10
<1>15. ASSUME NEW q \in 1..Len(found)
       PROVE  /\ pos[q] \in Tabs(g) /\ found[q] = Table(g, pos[q]).name
              /\ TP(g, pos[q]) \in DOMAIN disk
  <2>1. pos[q] \in P /\ pos[q] \in 1..n
    BY <1>8, <1>13
  <2> QED BY <1>1, <1>6, <1>12, <1>13, <2>1
<1>16. ASSUME NEW q \in 1..Len(found), NEW r \in 1..Len(found), q # r
       PROVE  pos[q] # pos[r]
  <2>1. q < r \/ r < q
    BY <1>14, <1>16
  <2>2. pos[q] \in Int /\ pos[r] \in Int
    BY <1>1, <1>15
  <2> QED BY <1>13, <2>1, <2>2
<1>17. ASSUME NEW i \in Tabs(g), TP(g, i) \in DOMAIN disk
       PROVE  \E q \in 1..Len(found) : pos[q] = i
  <2>1. i \in P \cap (1..(n + 1))
    BY <1>1, <1>12, <1>17
  <2> QED BY <1>13, <2>1
<1>18. FoundBy(pos, g, found)
  BY <1>14, <1>15, <1>16, <1>17 DEF FoundBy
<1> QED BY <1>2, <1>9, <1>18

(* A file with a stem of its own is of one version with itself.            *)
LEMMA SeparateMates ==
  ASSUME Control, NEW f \in Files, Separate(f)
  PROVE  MatesSeparate(f) /\ Mates(f) = {f} /\ TablesSeparate(f)
<1>1. Mates(f) = {f} /\ TablesSeparate(f)
  BY DEF Separate, Alone
<1>2. ASSUME NEW i \in DOMAIN dump[f].tables, NEW j \in DOMAIN dump[f].tables,
             FileName(Table(f, i).name) = FileName(Table(f, j).name)
      PROVE  Table(f, i).name = Table(f, j).name
  BY <1>1, <1>2 DEF TablesSeparate
<1> QED BY <1>1, <1>2 DEF MatesSeparate

(* What pack reads of each table it finds, as it is written.               *)
Read(g, i) ==
  LET label == IntoHash(Table(g, i).name, dump[g].version)
      file == disk[TP(g, i)]
  IN  Written(IF file = Mixed THEN Nobodys(label)
              ELSE FromJson(file.json, label, dump[g].version))
ReadOK(g, i) ==
  LET file == disk[TP(g, i)]
  IN  /\ ~Broken(file)
      /\ file.kind = "json" =>
           ~Refused(file.json, IntoHash(Table(g, i).name, dump[g].version), dump[g].version)
PackedBy(pos, g, n, packed) ==
  /\ n \in Nat /\ packed \in Seq(Range(packed)) /\ Len(packed) = n
  /\ \A q \in 1..n : /\ pos[q] \in Tabs(g) /\ TP(g, pos[q]) \in DOMAIN disk
                     /\ packed[q] = Read(g, pos[q]) /\ ReadOK(g, pos[q])
  /\ \A q, r \in 1..n : q # r => pos[q] # pos[r]
  /\ \A i \in Tabs(g) : TP(g, i) \in DOMAIN disk => \E q \in 1..n : pos[q] = i

(* A schema that pack reports as an error.                                 *)
Refusal(s) == disk[SchemaPath(s)].kind # "schema" \/ Unreadable(s, Found(s))

(* What pack makes of a schema: what it reads of each table it finds.      *)
LEMMA PackedIs ==
  ASSUME Control, DiskInv, NEW f \in Files, SP(f) \in DOMAIN disk, MatesSeparate(f),
         ~Refusal(dump[f].stem)
  PROVE  \E g \in Mates(f) : \E pos, n :
           PackedBy(pos, g, n, AsWritten(Packed(dump[f].stem, Found(dump[f].stem))))
<1>1. PICK stem : stem = dump[f].stem
  OBVIOUS
<1>2. disk[SchemaPath(stem)].kind = "schema"
  BY <1>1 DEF Refusal
<1>3. SchemaPath(stem) \in DOMAIN disk
  BY <1>1 DEF SP
<1>4. PICK g \in Files : dump[g].stem = stem /\ disk[SchemaPath(stem)] = SchemaOf(g)
  BY <1>2, <1>3, SchemaIs
<1>5. g \in Mates(f) /\ Mates(g) = Mates(f)
  BY <1>1, <1>4 DEF Mates
<1>6. \A h \in Mates(g) : TablesSeparate(h)
  BY <1>5 DEF MatesSeparate
<1>7. PICK found : found = Found(stem)
  OBVIOUS
<1>8. PICK pos : FoundBy(pos, g, found)
  BY <1>4, <1>6, <1>7, FoundTables DEF SP
<1>9. PICK n : n = Len(found)
  OBVIOUS
<1>10. PICK version : version = dump[g].version
  OBVIOUS
<1>11. disk[SchemaPath(stem)].version = version
  <2>1. PICK a, b : SchemaOf(g) = [kind |-> a, version |-> version, tables |-> b]
    BY <1>10 DEF SchemaOf, Schema
  <2>2. SchemaOf(g).version = version
    BY ONLY <2>1
  <2> QED BY <1>4, <2>2
<1>12. PICK packed : packed = AsWritten(Packed(stem, Found(stem)))
  OBVIOUS
<1> DEFINE file(i) == disk[JsonPath(stem, FileName(found[i]))]
           label(i) == IntoHash(found[i], version)
           one(i) == IF file(i) = Mixed THEN Nobodys(label(i))
                     ELSE FromJson(file(i).json, label(i), version)
<1>13. packed = [i \in DOMAIN found |-> Written(one(i))]
  <2>1. Packed(stem, Found(stem)) = [i \in DOMAIN found |-> one(i)]
    BY <1>7, <1>11 DEF Packed
  <2>2. PICK p : p = [i \in DOMAIN found |-> one(i)]
    OBVIOUS
  <2>3. packed = [i \in DOMAIN p |-> Written(p[i])]
    BY <1>12, <2>1, <2>2 DEF AsWritten
  <2> HIDE DEF one
  <2> QED BY <2>2, <2>3
<1>14. n \in Nat /\ DOMAIN found = 1..n
  BY <1>8, <1>9 DEF FoundBy
<1>15. packed \in Seq(Range(packed)) /\ Len(packed) = n
  <2>1. DOMAIN packed = 1..n /\ packed = [q \in 1..n |-> packed[q]]
    BY <1>13, <1>14
  <2>2. \A q \in 1..n : packed[q] \in Range(packed)
    BY <2>1 DEF Range
  <2> QED BY <1>14, <2>1, <2>2
<1>16. ASSUME NEW q \in 1..n
       PROVE  /\ pos[q] \in Tabs(g) /\ TP(g, pos[q]) \in DOMAIN disk
              /\ packed[q] = Read(g, pos[q]) /\ ReadOK(g, pos[q])
  <2>1. PICK i : i = pos[q]
    OBVIOUS
  <2>2. i \in Tabs(g) /\ found[q] = Table(g, i).name /\ TP(g, i) \in DOMAIN disk
    BY <1>8, <1>9, <2>1 DEF FoundBy
  <2>3. JsonPath(stem, FileName(found[q])) = TP(g, i)
    BY <1>4, <2>2 DEF TP
  <2>4. packed[q] = Read(g, i)
    <3>1. packed[q] = Written(one(q))
      <4> HIDE DEF one
      <4> QED BY <1>13, <1>14
    <3> QED BY <1>10, <2>2, <2>3, <3>1 DEF Read
  <2>5. ReadOK(g, i)
    <3>1. \A k \in DOMAIN found :
            ~Broken(file(k)) /\ (file(k).kind = "json" => ~Refused(file(k).json, label(k), version))
      BY <1>1, <1>7, <1>11 DEF Refusal, Unreadable
    <3>2. q \in DOMAIN found
      BY <1>14
    <3>3. file(q) = disk[TP(g, i)] /\ label(q) = IntoHash(Table(g, i).name, version)
      BY <2>2, <2>3
    <3> HIDE DEF file, label
    <3> QED BY <1>10, <3>1, <3>2, <3>3 DEF ReadOK
  <2> QED BY <2>1, <2>2, <2>4, <2>5
<1> HIDE DEF one, file, label
<1>17. PackedBy(pos, g, n, packed)
  BY <1>8, <1>9, <1>14, <1>15, <1>16 DEF PackedBy, FoundBy
<1> QED BY <1>1, <1>5, <1>12, <1>17

(* A table is asked for or not, whether its label has a name or not.       *)
LEMMA TableIs ==
  ASSUME Control, NEW f \in Files, NEW i \in Tabs(f)
  PROVE  /\ Table(f, i).name = ConvertLabel(dump[f].tables[i].name)
         /\ Selected(dump[f].tables[i]) <=> Asked(f, i)
<1>1. PICK t, version : t = dump[f].tables[i] /\ version = dump[f].version
  OBVIOUS
<1>2. version \in Versions /\ IsTable(t, version)
  BY <1>1, DumpIs
<1>3. PICK u : u = ConvertAll(t, version)
  OBVIOUS
<1>4. u.name = ConvertLabel(t.name)
  BY <1>2, <1>3, Converted
<1>5. LabelHash(ConvertLabel(t.name)) = LabelHash(t.name)
  BY <1>2, LabelsKept DEF IsTable
<1>6. Table(f, i) = u
  BY <1>1, <1>3 DEF Table
<1> QED BY <1>1, <1>4, <1>5, <1>6 DEF Selected, Asked

(* Its label is read again from the name it is listed with.                *)
LEMMA LabelRead ==
  ASSUME Control, NEW f \in Files, NEW i \in Tabs(f)
  PROVE  IntoHash(Table(f, i).name, dump[f].version) = dump[f].tables[i].name
<1>1. PICK t, version : t = dump[f].tables[i] /\ version = dump[f].version
  OBVIOUS
<1>2. version \in Versions /\ IsLabel(t.name, version)
  BY <1>1, DumpIs DEF IsTable
<1>3. IntoHash(ConvertLabel(t.name), version) = t.name
  BY <1>2, LabelsKept
<1> QED BY <1>1, <1>3, TableIs

(* A JSON file that is read, and was not edited, gives a table of a file   *)
(* of that stem, or one of a file that two of them wrote, one in several   *)
(* writes.                                                                 *)
LEMMA ReadIs ==
  ASSUME Control, DiskInv, NEW f \in Files, MatesSeparate(f), NEW g \in Mates(f),
         NEW i \in Tabs(g), TP(g, i) \in DOMAIN disk, TP(g, i) # edit.path, ReadOK(g, i)
  PROVE  \/ \E h \in Mates(f) : \E j \in Tabs(h) :
              TP(h, j) = TP(g, i) /\ Read(g, i) = Kept(dump[h].tables[j])
         \/ SpoiltTable(f, Read(g, i))
<1>1. g \in Files /\ dump[g].stem = dump[f].stem
  BY DEF Mates
<1>2. PICK s, n : s = dump[g].stem /\ n = FileName(Table(g, i).name)
  OBVIOUS
<1>3. PICK p : p = TP(g, i) /\ p = JsonPath(s, n)
  BY <1>2 DEF TP
<1> DEFINE here(h, j) ==
             /\ dump[h].stem = s /\ FileName(Table(h, j).name) = n /\ p = TP(h, j)
             /\ p = edit.path \/ JsonIn(h, j, disk[p])
<1>4. PICK h \in Files : \E j \in Tabs(h) : here(h, j)
  BY <1>3, AtPath
<1>5. PICK j \in Tabs(h) : here(h, j)
  BY <1>4
<1>6. h \in Mates(f)
  BY <1>1, <1>2, <1>5 DEF Mates
<1>7. dump[g].version = dump[h].version /\ Table(g, i).name = Table(h, j).name
  BY <1>2, <1>5, <1>6 DEF MatesSeparate, Tabs
<1>8. PICK version, t, file : version = dump[h].version /\ t = dump[h].tables[j] /\ file = disk[p]
  OBVIOUS
<1>9. ~Broken(file) /\ (file.kind = "json" => ~Refused(file.json, IntoHash(Table(h, j).name, version), version))
  BY <1>3, <1>7, <1>8 DEF ReadOK
<1>10. Read(g, i) = Written(IF file = Mixed THEN Nobodys(IntoHash(Table(h, j).name, version))
                            ELSE FromJson(file.json, IntoHash(Table(h, j).name, version), version))
  BY <1>3, <1>7, <1>8 DEF Read
<1>11. (file = Mixed /\ SpoiltAt(h, j)) \/ \E typed \in BOOLEAN : file = JsonOf(h, j, typed)
  BY <1>3, <1>5, <1>8, <1>9 DEF JsonIn
<1>12. ASSUME NEW typed \in BOOLEAN, file = JsonOf(h, j, typed)
       PROVE  Read(g, i) = Kept(t)
  <2>1. PICK json : json = ToJson(Table(h, j), typed)
    OBVIOUS
  <2>2. file = [kind |-> "json", json |-> json]
    BY <1>12, <2>1 DEF JsonOf, Json
  <2>3. file.kind = "json" /\ file.json = json
    BY ONLY <2>2
  <2>4. ~Refused(json, IntoHash(Table(h, j).name, version), version) /\ file # Mixed
    BY <1>9, <2>3 DEF Mixed
  <2>5. typed = TRUE
    <3>1. json.typed
      BY <2>4 DEF Refused
    <3>2. PICK a, b : json = [typed |-> typed, schema |-> a, rows |-> b]
      BY <2>1 DEF ToJson
    <3>3. json.typed = typed
      BY ONLY <3>2
    <3> QED BY <3>1, <3>3
  <2>6. version \in Versions /\ IsTable(t, version) /\ Plain(t, version)
    BY <1>6, <1>8, DumpIs DEF MatesSeparate, Tabs
  <2>7. Table(h, j) = ConvertAll(t, version)
    BY <1>8 DEF Table
  <2>8. FromJson(ToJson(ConvertAll(t, version), TRUE),
                 IntoHash(ConvertAll(t, version).name, version), version) = Kept(t)
    BY <2>6, RoundTrip
  <2>9. Written(Kept(t)) = Kept(t)
    BY <2>6, KeptWritten
  <2> QED BY <1>10, <2>1, <2>3, <2>4, <2>5, <2>7, <2>8, <2>9
<1>13. ASSUME file = Mixed, SpoiltAt(h, j)
       PROVE  SpoiltTable(f, Read(g, i))
  <2>1. PICK k \in Files : \E l \in Tabs(k) :
          Shares(k, l, h, j) /\ (LargeTable(h, j) \/ LargeTable(k, l))
    BY <1>13 DEF SpoiltAt
  <2>2. PICK l \in Tabs(k) : Shares(k, l, h, j) /\ (LargeTable(h, j) \/ LargeTable(k, l))
    BY <2>1
  <2>3. dump[k].stem = dump[h].stem /\ FileName(Table(k, l).name) = FileName(Table(h, j).name)
    <3>1. JsonPath(dump[k].stem, FileName(Table(k, l).name))
          = JsonPath(dump[h].stem, FileName(Table(h, j).name))
      BY <2>2 DEF Shares, TP
    <3> QED BY ONLY <3>1, Paths
  <2>4. k \in Mates(f) /\ k # h
    BY <1>6, <2>2, <2>3 DEF Mates, Shares
  <2>5. Read(g, i).name = t.name
    <3>1. PICK label : label = IntoHash(Table(h, j).name, version)
      OBVIOUS
    <3>2. PICK q : q = Nobodys(label)
      OBVIOUS
    <3>3. IsRecord(q) /\ q.name = label
      <4>1. q = [name |-> label, base |-> 0, cols |-> <<>>, rows |-> <<>>]
        BY <3>2 DEF Nobodys
      <4> QED BY ONLY <4>1 DEF IsRecord
    <3>4. Written(q).name = label
      BY <3>3, WrittenIs
    <3>5. label = t.name
      BY <1>8, <3>1, LabelRead
    <3> QED BY <1>10, <1>13, <3>1, <3>2, <3>4, <3>5
  <2> QED BY <1>6, <1>8, <2>2, <2>3, <2>4, <2>5 DEF SpoiltTable, Tabs
<1> QED BY <1>3, <1>5, <1>6, <1>8, <1>11, <1>12, <1>13

(* A kept table has its name.                                              *)
LEMMA KeptNamed == \A t : Kept(t).name = t.name
<1> TAKE t
<1>1. PICK k : k = Kept(t)
  OBVIOUS
<1>2. PICK a, b, c : k = [name |-> t.name, base |-> a, cols |-> b, rows |-> c]
  BY <1>1 DEF Kept
<1>3. k.name = t.name
  BY ONLY <1>2
<1> QED BY <1>1, <1>3

(* Tables of different file names are kept as different ones.              *)
LEMMA KeptApart ==
  ASSUME Control, NEW f \in Files, TablesSeparate(f), NEW i \in Tabs(f), NEW j \in Tabs(f),
         Kept(dump[f].tables[i]) = Kept(dump[f].tables[j])
  PROVE  i = j
<1>1. dump[f].tables[i].name = dump[f].tables[j].name
  <2>1. Kept(dump[f].tables[i]).name = Kept(dump[f].tables[j]).name
    OBVIOUS
  <2> QED BY <2>1, KeptNamed
<1>2. Table(f, i).name = Table(f, j).name
  BY <1>1, TableIs
<1> QED BY <1>2 DEF TablesSeparate, Tabs

(* A sequence without repetition is as long as its range is large.         *)
LEMMA LenIs ==
  ASSUME NEW n \in Nat, NEW S, NEW s \in Seq(S), Len(s) = n,
         \A q, r \in 1..n : s[q] = s[r] => q = r
  PROVE  Len(s) = Cardinality(Range(s))
<1>1. DOMAIN s = 1..n /\ s = [q \in 1..n |-> s[q]]
  OBVIOUS
<1>2. Range(s) = {s[q] : q \in 1..n}
  BY <1>1 DEF Range
<1>3. s \in [1..n -> Range(s)]
  BY <1>1, <1>2
<1>4. s \in Bijection(1..n, Range(s))
  <2>1. \A t \in Range(s) : \E q \in 1..n : s[q] = t
    BY <1>2
  <2>2. s \in Injection(1..n, Range(s))
    BY <1>3 DEF Injection, IsInjective
  <2>3. s \in Surjection(1..n, Range(s))
    BY <1>3, <2>1 DEF Surjection
  <2> QED BY <2>2, <2>3 DEF Bijection
<1>5. ExistsBijection(1..n, Range(s))
  BY <1>4 DEF ExistsBijection
<1> QED BY <1>5, FS_CountingElements

(* What pack has found is genuine.                                         *)
LEMMA ReadGenuine ==
  ASSUME Control, DiskInv, NEW f \in Files, MatesSeparate(f), edit = NoEdit,
         NEW g \in Mates(f), NEW pos, NEW n, NEW packed, PackedBy(pos, g, n, packed)
  PROVE  /\ \A q \in 1..n :
              \/ \E h \in Mates(f) : \E j \in Tabs(h) :
                   TP(h, j) = TP(g, pos[q]) /\ packed[q] = Kept(dump[h].tables[j])
              \/ SpoiltTable(f, packed[q])
         /\ Genuine(f, packed)
<1>1. ASSUME NEW q \in 1..n
      PROVE  \/ \E h \in Mates(f) : \E j \in Tabs(h) :
                  TP(h, j) = TP(g, pos[q]) /\ packed[q] = Kept(dump[h].tables[j])
             \/ SpoiltTable(f, packed[q])
  <2>1. PICK i : i = pos[q]
    OBVIOUS
  <2>2. /\ i \in Tabs(g) /\ TP(g, i) \in DOMAIN disk
        /\ packed[q] = Read(g, i) /\ ReadOK(g, i)
    BY <2>1 DEF PackedBy
  <2>3. TP(g, i) # edit.path
    BY Paths DEF TP
  <2>4. \/ \E h \in Mates(f) : \E j \in Tabs(h) :
             TP(h, j) = TP(g, i) /\ Read(g, i) = Kept(dump[h].tables[j])
        \/ SpoiltTable(f, Read(g, i))
    BY <2>2, <2>3, ReadIs
  <2> QED BY <2>1, <2>2, <2>4
<1>2. ASSUME NEW q \in 1..n
      PROVE  packed[q] \in KeptOfMates(f) \/ SpoiltTable(f, packed[q])
  <2>1. ASSUME NEW h \in Mates(f), NEW j \in Tabs(h), packed[q] = Kept(dump[h].tables[j])
        PROVE  packed[q] \in KeptOfMates(f)
    <3>1. dump[h].tables[j] \in Range(dump[h].tables)
      BY DEF Range, Tabs
    <3>2. packed[q] \in KeptOf(h)
      BY <2>1, <3>1 DEF KeptOf
    <3> QED BY <3>2 DEF KeptOfMates
  <2> QED BY <1>1, <2>1
<1>3. Range(packed) = {packed[q] : q \in 1..n}
  BY DEF PackedBy, Range
<1>4. ASSUME NEW t \in Range(packed) PROVE t \in KeptOfMates(f) \/ SpoiltTable(f, t)
  BY <1>2, <1>3
<1> QED BY <1>1, <1>4 DEF Genuine

(* Of a file that is separate every table asked for is there, once.        *)
LEMMA ReadWhole ==
  ASSUME Control, DiskInv, NEW f \in Files, Separate(f), edit = NoEdit,
         NEW pos, NEW n, NEW packed, PackedBy(pos, f, n, packed),
         \A i \in Tabs(f) : There(f, i)
  PROVE  WholeIn(f, packed)
<1>1. /\ MatesSeparate(f) /\ Mates(f) = {f} /\ TablesSeparate(f) /\ f \in Mates(f)
  BY SeparateMates
<1>2. /\ n \in Nat /\ packed \in Seq(Range(packed)) /\ Len(packed) = n
      /\ \A q \in 1..n : pos[q] \in Tabs(f)
      /\ \A q, r \in 1..n : q # r => pos[q] # pos[r]
      /\ \A i \in Tabs(f) : TP(f, i) \in DOMAIN disk => \E q \in 1..n : pos[q] = i
  BY DEF PackedBy
<1>3. ASSUME NEW q \in 1..n PROVE packed[q] = Kept(dump[f].tables[pos[q]])
  <2>0. ~SpoiltTable(f, packed[q])
    BY <1>1 DEF SpoiltTable
  <2>1. PICK h \in Mates(f) : \E j \in Tabs(h) :
          TP(h, j) = TP(f, pos[q]) /\ packed[q] = Kept(dump[h].tables[j])
    BY <1>1, <2>0, ReadGenuine
  <2>2. PICK j \in Tabs(h) :
          TP(h, j) = TP(f, pos[q]) /\ packed[q] = Kept(dump[h].tables[j])
    BY <2>1
  <2>3. h = f
    BY <1>1
  <2>4. FileName(Table(f, j).name) = FileName(Table(f, pos[q]).name)
    BY <2>2, <2>3, Paths DEF TP
  <2>5. j = pos[q]
    BY <1>1, <1>2, <2>2, <2>3, <2>4 DEF TablesSeparate, Tabs
  <2> QED BY <2>2, <2>3, <2>5
<1>4. Range(packed) = {packed[q] : q \in 1..n}
  BY <1>2 DEF Range
<1>5. KeptOfAsked(f) \subseteq Range(packed)
  <2> SUFFICES ASSUME NEW k \in KeptOfAsked(f) PROVE k \in Range(packed)
    OBVIOUS
  <2>1. PICK t \in Range(dump[f].tables) : Selected(t) /\ k = Kept(t)
    BY DEF KeptOfAsked
  <2>2. PICK i \in Tabs(f) : t = dump[f].tables[i]
    BY DEF Range, Tabs
  <2>3. TP(f, i) \in DOMAIN disk
    BY <2>1, <2>2, TableIs DEF There
  <2>4. PICK q \in 1..n : pos[q] = i
    BY <1>2, <2>3
  <2> QED BY <1>3, <1>4, <2>1, <2>2, <2>4
<1>6. Range(packed) \subseteq KeptOf(f)
  <2>1. \A q \in 1..n : dump[f].tables[pos[q]] \in Range(dump[f].tables)
    BY <1>2 DEF Range, Tabs
  <2>2. \A q \in 1..n : packed[q] \in KeptOf(f)
    BY <1>3, <2>1 DEF KeptOf
  <2> QED BY <1>4, <2>2
<1>7. \A q, r \in 1..n : packed[q] = packed[r] => q = r
  <2> TAKE q, r \in 1..n
  <2> HAVE packed[q] = packed[r]
  <2>1. PICK i, j : i = pos[q] /\ j = pos[r]
    OBVIOUS
  <2>2. i \in Tabs(f) /\ j \in Tabs(f) /\ Kept(dump[f].tables[i]) = Kept(dump[f].tables[j])
    BY <1>2, <1>3, <2>1
  <2>3. i = j
    BY <1>1, <2>2, KeptApart
  <2> QED BY <1>2, <2>1, <2>3
<1>8. Len(packed) = Cardinality(Range(packed))
  BY <1>2, <1>7, LenIs
<1> QED BY <1>5, <1>6, <1>8 DEF WholeIn

(* A table that was edited is read as edited.                              *)
LEMMA ReadEdited ==
  ASSUME Control, DiskInv, EditInv, NEW f \in Files, NEW pos, NEW n, NEW packed,
         MatesSeparate(f) => \E g \in Mates(f) : PackedBy(pos, g, n, packed)
  PROVE  EditKept(f, packed)
<1> SUFFICES ASSUME NEW i \in Tabs(f), Separate(f), edit.path = TP(f, i)
             PROVE  \E p \in Range(packed) :
                      KeptIn(p, Kept(dump[f].tables[i]), disk[edit.path].json)
  BY DEF EditKept
<1>1. MatesSeparate(f) /\ Mates(f) = {f} /\ TablesSeparate(f)
  BY SeparateMates
<1>2. PackedBy(pos, f, n, packed)
  BY <1>1
<1>3. edit # NoEdit
  BY Paths DEF TP
<1> DEFINE here(h, j, e) ==
             /\ edit = [path |-> TP(h, j), row |-> e.row, name |-> e.name]
             /\ TP(h, j) \in DOMAIN disk /\ disk[TP(h, j)] = [kind |-> "json", json |-> e.json]
<1>4. PICK h \in Files : \E j \in Tabs(h) : \E e \in Edits(ToJson(Table(h, j), TRUE)) : here(h, j, e)
  BY <1>3 DEF EditInv
<1>5. PICK j \in Tabs(h) : \E e \in Edits(ToJson(Table(h, j), TRUE)) : here(h, j, e)
  BY <1>4
<1>6. PICK e \in Edits(ToJson(Table(h, j), TRUE)) : here(h, j, e)
  BY <1>5
<1>7. edit.path = TP(h, j) /\ edit.row = e.row /\ edit.name = e.name
  <2>1. edit = [path |-> TP(h, j), row |-> e.row, name |-> e.name]
    BY <1>6
  <2> QED BY ONLY <2>1
<1>8. dump[h].stem = dump[f].stem /\ FileName(Table(h, j).name) = FileName(Table(f, i).name)
  <2>1. JsonPath(dump[h].stem, FileName(Table(h, j).name))
        = JsonPath(dump[f].stem, FileName(Table(f, i).name))
    BY <1>7 DEF TP
  <2> QED BY ONLY <2>1, Paths
<1>9. h = f
  BY <1>1, <1>8 DEF Mates
<1>10. j = i
  BY <1>1, <1>8, <1>9 DEF TablesSeparate, Tabs
<1>11. PICK json : json = e.json
  OBVIOUS
<1>12. TP(f, i) \in DOMAIN disk /\ disk[TP(f, i)].json = json /\ disk[TP(f, i)].kind = "json"
  <2>1. disk[TP(h, j)] = [kind |-> "json", json |-> e.json]
    BY <1>6
  <2>2. disk[TP(h, j)].json = e.json /\ disk[TP(h, j)].kind = "json"
    BY ONLY <2>1
  <2> QED BY <1>6, <1>9, <1>10, <1>11, <2>2
<1>13. PICK q \in 1..n : pos[q] = i
  BY <1>2, <1>12 DEF PackedBy
<1>14. packed[q] = Read(f, i) /\ ReadOK(f, i) /\ packed[q] \in Range(packed)
  BY <1>2, <1>13 DEF PackedBy, Range
<1>15. PICK t, version : t = dump[f].tables[i] /\ version = dump[f].version
  OBVIOUS
<1>16. PICK u : u = ConvertAll(t, version) /\ u = Table(f, i)
  BY <1>15 DEF Table
<1>17. /\ version \in Versions /\ IsTable(t, version) /\ Plain(t, version)
       /\ \A c \in DOMAIN u.cols : Name(u, c) \notin {NoName, Unknown}
  BY <1>1, <1>15, <1>16, DumpIs
<1>18. \A r \in DOMAIN json.rows : ~RowRefused(json, json.rows[r], version)
  <2>1. ~Refused(json, IntoHash(u.name, version), version)
    BY <1>12, <1>14, <1>15, <1>16 DEF ReadOK
  <2> QED BY <2>1 DEF Refused
<1>19. KeptIn(Written(FromJson(json, IntoHash(u.name, version), version)), Kept(t), json)
  <2>1. e \in Edits(ToJson(u, TRUE))
    BY <1>6, <1>9, <1>10, <1>16
  <2> QED BY <1>7, <1>11, <1>16, <1>17, <1>18, <2>1, EditRead
<1>20. packed[q] = Written(FromJson(json, IntoHash(u.name, version), version))
  <2>1. disk[TP(f, i)] # Mixed
    BY <1>12, Kinds
  <2> QED BY <1>12, <1>14, <1>15, <1>16, <2>1 DEF Read
<1> QED BY <1>12, <1>14, <1>15, <1>19, <1>20

(* So is what a worker of pack makes of a schema that it can read.         *)
LEMMA PackedGood ==
  ASSUME Control, DiskInv, EditInv, Extracted, TablesFirst,
         NEW s \in Schemas, ~Refusal(s)
  PROVE  ~Broken(disk[SchemaPath(s)]) /\ GoodFor(s, AsWritten(Packed(s, Found(s))))
<1>1. ~Broken(disk[SchemaPath(s)])
  BY DEF Refusal, Broken
<1>2. PICK packed : packed = AsWritten(Packed(s, Found(s)))
  OBVIOUS
<1>3. SchemaPath(s) \in DOMAIN disk
  BY DEF Schemas
<1>4. ASSUME NEW f \in Files, dump[f].stem = s
      PROVE  Good(f, packed)
  <2>1. /\ SP(f) \in DOMAIN disk /\ ~Refusal(dump[f].stem)
        /\ packed = AsWritten(Packed(dump[f].stem, Found(dump[f].stem)))
    BY <1>2, <1>3, <1>4 DEF SP
  <2>2. MatesSeparate(f) => \E g \in Mates(f) : \E pos, n : PackedBy(pos, g, n, packed)
    BY <2>1, PackedIs
  <2>3. CASE ~MatesSeparate(f)
    <3>1. ~Separate(f)
      BY <2>3, SeparateMates
    <3> QED BY <2>3, <3>1 DEF Good, Genuine, EditKept
  <2>4. CASE MatesSeparate(f)
    <3>1. PICK g \in Mates(f) : \E pos, n : PackedBy(pos, g, n, packed)
      BY <2>2, <2>4
    <3>2. PICK pos, n : PackedBy(pos, g, n, packed)
      BY <3>1
    <3>3. edit = NoEdit => Genuine(f, packed)
      BY <2>4, <3>2, ReadGenuine
    <3>4. EditKept(f, packed)
      BY <2>4, <3>2, ReadEdited
    <3>5. ASSUME edit = NoEdit, Separate(f), extracts = 1 \/ extracted = "ok"
          PROVE  WholeIn(f, packed)
      <4>1. Mates(f) = {f} /\ Alone(f)
        BY <3>5, SeparateMates DEF Separate
      <4>2. \A i \in Tabs(f) : There(f, i)
        BY <2>1, <3>5, <4>1 DEF Extracted, TablesFirst
      <4>3. PackedBy(pos, f, n, packed)
        BY <3>2, <4>1
      <4> QED BY <3>5, <4>2, <4>3, ReadWhole
    <3> QED BY <3>3, <3>4, <3>5 DEF Good
  <2> QED BY <2>3, <2>4
<1> QED BY <1>1, <1>2, <1>4 DEF GoodFor

(* Of a mixed schema nothing is said.                                      *)
LEMMA MixedGood ==
  ASSUME Control, DiskInv, NEW s \in Schemas, disk[SchemaPath(s)] = Mixed, NEW tables
  PROVE  ~Broken(disk[SchemaPath(s)]) /\ GoodFor(s, tables)
<1>1. SchemaPath(s) \in DOMAIN disk
  BY DEF Schemas
<1>2. ASSUME NEW f \in Files, dump[f].stem = s PROVE Good(f, tables)
  <2>1. ~Alone(f) /\ SpoiltSchema(f)
    BY <1>1, <1>2, SchemaIs
  <2> QED BY <2>1 DEF Good, Genuine, EditKept, Separate
<1> QED BY <1>2, Kinds DEF GoodFor

(* A step that leaves the dump as it is.                                   *)
LEMMA DumpStays ==
  ASSUME dump' = dump
  PROVE  /\ Files' = Files
         /\ \A f : Tabs(f)' = Tabs(f) /\ SP(f)' = SP(f) /\ BP(f)' = BP(f)
         /\ \A f, i : Table(f, i)' = Table(f, i) /\ TP(f, i)' = TP(f, i)
         /\ \A f, i, typed : JsonOf(f, i, typed)' = JsonOf(f, i, typed)
         /\ \A f : Mates(f)' = Mates(f) /\ (Alone(f)' <=> Alone(f))
         /\ \A f : KeptOf(f)' = KeptOf(f)
<1>1. Files' = Files
  BY DEF Files
<1>2. \A f : Tabs(f)' = Tabs(f) /\ SP(f)' = SP(f) /\ BP(f)' = BP(f)
  BY DEF Tabs, SP, BP
<1>3. \A f, i : Table(f, i)' = Table(f, i)
  BY DEF Table
<1>4. \A f, i : TP(f, i)' = TP(f, i)
  BY <1>3 DEF TP, Table
<1>5. \A f, i, typed : JsonOf(f, i, typed)' = JsonOf(f, i, typed)
  BY DEF JsonOf, Table
<1>6. \A f : Mates(f)' = Mates(f)
  BY <1>1 DEF Mates, Files
<1>7. \A f : Alone(f)' <=> Alone(f)
  BY <1>6 DEF Alone
<1>8. \A f : KeptOf(f)' = KeptOf(f)
  BY DEF KeptOf
<1> QED BY <1>1, <1>2, <1>3, <1>4, <1>5, <1>6, <1>7, <1>8

(* Nor does such a step change what the schemas are to list, and which     *)
(* tables and schemas are large.                                           *)
LEMMA ListingStays ==
  ASSUME dump' = dump
  PROVE  /\ \A f, n : Listing(f, n)' = Listing(f, n)
         /\ \A g : SchemaOf(g)' = SchemaOf(g)
         /\ \A f, i : LargeTable(f, i)' <=> LargeTable(f, i)
         /\ \A f : Large(SchemaOf(f))' <=> Large(SchemaOf(f))
<1>1. \A f, n : Listing(f, n)' = Listing(f, n)
  BY DEF Listing, Table
<1>2. \A g : SchemaOf(g)' = SchemaOf(g)
  <2> TAKE g
  <2>1. Listing(g, Len(dump[g].tables))' = Listing(g, Len(dump[g].tables))
    BY DEF Listing, Table
  <2> QED BY <2>1 DEF SchemaOf, Schema
<1>3. \A f, i : LargeTable(f, i)' <=> LargeTable(f, i)
  BY DEF LargeTable, Json, Table
<1>4. \A f : Large(SchemaOf(f))' <=> Large(SchemaOf(f))
  BY <1>2
<1> QED BY <1>1, <1>2, <1>3, <1>4

(* Nor which files write over one another, and what may come of it.        *)
LEMMA SharingStays ==
  ASSUME dump' = dump
  PROVE  /\ \A f, i : Shared(f, i)' <=> Shared(f, i)
         /\ \A f, i : SpoiltAt(f, i)' <=> SpoiltAt(f, i)
         /\ \A f, t : SpoiltTable(f, t)' <=> SpoiltTable(f, t)
         /\ \A f : SpoiltSchema(f)' <=> SpoiltSchema(f)
         /\ \A f : KeptOfMates(f)' = KeptOfMates(f)
<1>1. \A h, j, f, i : Shares(h, j, f, i)' <=> Shares(h, j, f, i)
  BY DumpStays DEF Shares
<1>2. \A f, i : Shared(f, i)' <=> Shared(f, i)
  BY <1>1, DumpStays DEF Shared
<1>3. \A f, i : SpoiltAt(f, i)' <=> SpoiltAt(f, i)
  BY <1>1, DumpStays, ListingStays DEF SpoiltAt
<1>4. \A f, t : SpoiltTable(f, t)' <=> SpoiltTable(f, t)
  BY DumpStays, ListingStays DEF SpoiltTable
<1>5. \A f : SpoiltSchema(f)' <=> SpoiltSchema(f)
  BY DumpStays DEF SpoiltSchema, Schema, Table
<1>6. \A f : KeptOfMates(f)' = KeptOfMates(f)
  <2> TAKE f
  <2>1. UNION {KeptOf(g)' : g \in Mates(f)'} = UNION {KeptOf(g) : g \in Mates(f)}
    BY DumpStays
  <2> QED BY <2>1 DEF KeptOfMates
<1> QED BY <1>2, <1>3, <1>4, <1>5, <1>6

(* Nor what may be in the files.                                           *)
LEMMA ContentsStay ==
  ASSUME dump' = dump
  PROVE  /\ \A f, i, c : JsonIn(f, i, c)' <=> JsonIn(f, i, c)
         /\ \A f, c : SchemaIn(f, c)' <=> SchemaIn(f, c)
<1>1. \A c : (Broken(c)' <=> Broken(c)) /\ Mixed' = Mixed
  BY DEF Broken, Mixed
<1>2. \A f, i, c : JsonIn(f, i, c)' <=> JsonIn(f, i, c)
  BY <1>1, DumpStays, SharingStays DEF JsonIn
<1>3. \A f, c : SchemaIn(f, c)' <=> SchemaIn(f, c)
  BY <1>1, DumpStays, ListingStays, SharingStays DEF SchemaIn
<1> QED BY <1>2, <1>3

(* Nor which files are separate.                                           *)
LEMMA SeparateStays ==
  ASSUME dump' = dump
  PROVE  \A f : /\ TablesSeparate(f)' <=> TablesSeparate(f)
                /\ Separate(f)' <=> Separate(f)
                /\ MatesSeparate(f)' <=> MatesSeparate(f)
<1> TAKE f
<1>1. \A g : TablesSeparate(g)' <=> TablesSeparate(g)
  BY DEF TablesSeparate, Table
<1>2. Separate(f)' <=> Separate(f)
  BY <1>1, DumpStays DEF Separate
<1>3. MatesSeparate(f)' <=> MatesSeparate(f)
  BY <1>1, DumpStays DEF MatesSeparate
<1> QED BY <1>1, <1>2, <1>3

(* Nor, with the same options, which tables are asked for.                 *)
LEMMA OptionsStay ==
  ASSUME dump' = dump, options' = options
  PROVE  /\ \A t : Selected(t)' <=> Selected(t)
         /\ \A f, i : Asked(f, i)' <=> Asked(f, i)
         /\ \A f : KeptOfAsked(f)' = KeptOfAsked(f)
         /\ \A f, tables : WholeIn(f, tables)' <=> WholeIn(f, tables)
         /\ \A f, tables : Genuine(f, tables)' <=> Genuine(f, tables)
<1>1. \A t : Selected(t)' <=> Selected(t)
  BY DEF Selected
<1>2. \A f, i : Asked(f, i)' <=> Asked(f, i)
  BY DEF Asked, Selected, Table
<1>3. \A f : KeptOfAsked(f)' = KeptOfAsked(f)
  BY DEF KeptOfAsked, Selected
<1>4. \A f, tables : WholeIn(f, tables)' <=> WholeIn(f, tables)
  BY <1>3, DumpStays DEF WholeIn
<1>5. \A f, tables : Genuine(f, tables)' <=> Genuine(f, tables)
  BY SharingStays, SeparateStays DEF Genuine
<1> QED BY <1>1, <1>2, <1>3, <1>4, <1>5

(* Nor, with the same edit, what is to be kept of it.                      *)
LEMMA KeptInStays ==
  ASSUME edit' = edit
  PROVE  \A p, t, json : KeptIn(p, t, json)' <=> KeptIn(p, t, json)
BY DEF KeptIn, HasRoom, InFront

(* What pack made stays good as long as nothing is edited or extracted.    *)
LEMMA GoodStays ==
  ASSUME dump' = dump, options' = options, edit' = edit,
         edit # NoEdit => disk'[edit.path] = disk[edit.path],
         \/ extracts' = extracts /\ extracted' = extracted
         \/ extracts = 1 /\ extracts' = 1
  PROVE  /\ \A f, tables : Good(f, tables) => Good(f, tables)'
         /\ \A s, tables : GoodFor(s, tables) => GoodFor(s, tables)'
<1>1. ASSUME NEW f, NEW tables, EditKept(f, tables) PROVE EditKept(f, tables)'
  <2> SUFFICES ASSUME NEW i \in Tabs(f), NEW t, NEW json,
                      Separate(f), edit.path = TP(f, i), t = Kept(dump[f].tables[i]),
                      json = disk'[edit.path].json
               PROVE  \E packed \in Range(tables) : KeptIn(packed, t, json)'
    BY DumpStays, SeparateStays DEF EditKept
  <2>1. edit # NoEdit
    BY Paths DEF TP
  <2>2. \E packed \in Range(tables) : KeptIn(packed, t, json)
    BY <1>1, <2>1 DEF EditKept
  <2> QED BY <2>2, KeptInStays
<1>2. ASSUME NEW f, NEW tables, Good(f, tables) PROVE Good(f, tables)'
  BY <1>1, <1>2, OptionsStay, SeparateStays DEF Good
<1>3. ASSUME NEW s, NEW tables, GoodFor(s, tables) PROVE GoodFor(s, tables)'
  BY <1>2, <1>3, DumpStays DEF GoodFor
<1> QED BY <1>2, <1>3

(* What a step does to the files and to the work.                          *)
OnlyAt(path, val) ==
  /\ DOMAIN disk' = DOMAIN disk \cup {path} /\ disk'[path] = val
  /\ \A p \in DOMAIN disk : p # path => disk'[p] = disk[p]

(* One file is written.                                                    *)
LEMMA WriteDone ==
  ASSUME NEW path, NEW val, Write(path, val)
  PROVE  OnlyAt(path, val)
BY DEF Write, With, OnlyAt

(* One worker goes on.                                                     *)
LEMMA WorkSet ==
  ASSUME NEW u, NEW rec, Set(u, rec)
  PROVE  /\ DOMAIN work' = DOMAIN work \cup {u} /\ work'[u] = rec
         /\ \A v \in DOMAIN work : v # u => work'[v] = work[v]
BY DEF Set, With

(* One worker is done.                                                     *)
LEMMA WorkDone ==
  ASSUME NEW u, Done(u)
  PROVE  /\ DOMAIN work' = DOMAIN work \ {u}
         /\ \A v \in DOMAIN work : v # u => work'[v] = work[v]
BY DEF Done, Restrict

Fits(path, val) ==
  \/ \E f \in Files : \E i \in Tabs(f) :
       path = TP(f, i) /\ (path = edit'.path \/ JsonIn(f, i, val))
  \/ \E f \in Files : path = SP(f) /\ SchemaIn(f, val)
  \/ \E f \in Files : path = BP(f) /\ SP(f) \in DOMAIN disk /\ val.kind # "json"

(* A file that fits is written.                                            *)
LEMMA DiskStep ==
  ASSUME DiskInv, dump' = dump, NEW path, NEW val,
         OnlyAt(path, val) /\ Fits(path, val),
         edit' = edit \/ edit = NoEdit \/ edit.path = path
  PROVE  DiskInv'
<1> SUFFICES ASSUME NEW p \in DOMAIN disk' PROVE JsonFile(p)' \/ SchemaFile(p)' \/ BdatFile(p)'
  BY DEF DiskInv
<1>1. CASE p = path
  <2>1. disk'[p] = val /\ DOMAIN disk \subseteq DOMAIN disk'
    BY <1>1 DEF OnlyAt
  <2>2. ASSUME NEW f \in Files, NEW i \in Tabs(f), path = TP(f, i),
               path = edit'.path \/ JsonIn(f, i, val)
        PROVE  JsonFile(p)'
    BY <1>1, <2>1, <2>2, DumpStays, ContentsStay DEF JsonFile
  <2>3. ASSUME NEW f \in Files, path = SP(f), SchemaIn(f, val)
        PROVE  SchemaFile(p)'
    BY <1>1, <2>1, <2>3, DumpStays, ContentsStay DEF SchemaFile
  <2>4. ASSUME NEW f \in Files, path = BP(f), SP(f) \in DOMAIN disk, val.kind # "json"
        PROVE  BdatFile(p)'
    BY <1>1, <2>1, <2>4, DumpStays DEF BdatFile
  <2> QED BY <2>2, <2>3, <2>4 DEF Fits
<1>2. CASE p # path
  <2>1. p \in DOMAIN disk /\ disk'[p] = disk[p] /\ DOMAIN disk \subseteq DOMAIN disk'
    BY <1>2 DEF OnlyAt
  <2>2. CASE JsonFile(p)
    <3> DEFINE here(f, i) == p = TP(f, i) /\ (p = edit.path \/ JsonIn(f, i, disk[p]))
    <3>1. PICK f \in Files : \E i \in Tabs(f) : here(f, i)
      BY <2>2 DEF JsonFile
    <3>2. PICK i \in Tabs(f) : here(f, i)
      BY <3>1
    <3>3. p = edit.path => p = edit'.path
      <4>1. p # NoEdit.path
        BY <3>2, Paths DEF TP
      <4> QED BY <1>2, <4>1
    <3> QED BY <2>1, <3>2, <3>3, DumpStays, ContentsStay DEF JsonFile
  <2>3. CASE SchemaFile(p)
    BY <2>1, <2>3, DumpStays, ContentsStay DEF SchemaFile
  <2>4. CASE BdatFile(p)
    BY <2>1, <2>4, DumpStays DEF BdatFile
  <2> QED BY <2>1, <2>2, <2>3, <2>4 DEF DiskInv
<1> QED BY <1>1, <1>2

(* No file is written.                                                     *)
LEMMA DiskStays ==
  ASSUME DiskInv, dump' = dump, disk' = disk, edit' = edit
  PROVE  DiskInv'
<1>1. \A p : JsonFile(p) => JsonFile(p)'
  BY DumpStays, ContentsStay DEF JsonFile
<1>2. \A p : SchemaFile(p) => SchemaFile(p)'
  BY DumpStays, ContentsStay DEF SchemaFile
<1>3. \A p : BdatFile(p) => BdatFile(p)'
  BY DumpStays DEF BdatFile
<1> QED BY <1>1, <1>2, <1>3 DEF DiskInv

(* The edit is still there, unless its file is written.                    *)
LEMMA EditStays ==
  ASSUME EditInv, dump' = dump, edit' = edit,
         disk' = disk \/ \E path, val : OnlyAt(path, val) /\ path # edit.path
  PROVE  EditInv'
<1>1. CASE edit = NoEdit
  BY <1>1 DEF EditInv, NoEdit
<1>2. CASE edit # NoEdit
  <2> DEFINE here(f, i, e) ==
               /\ edit = [path |-> TP(f, i), row |-> e.row, name |-> e.name]
               /\ TP(f, i) \in DOMAIN disk /\ disk[TP(f, i)] = [kind |-> "json", json |-> e.json]
  <2>1. PICK f \in Files : \E i \in Tabs(f) : \E e \in Edits(ToJson(Table(f, i), TRUE)) : here(f, i, e)
    BY <1>2 DEF EditInv
  <2>2. PICK i \in Tabs(f) : \E e \in Edits(ToJson(Table(f, i), TRUE)) : here(f, i, e)
    BY <2>1
  <2>3. PICK e \in Edits(ToJson(Table(f, i), TRUE)) : here(f, i, e)
    BY <2>2
  <2>4. PICK path : path = TP(f, i)
    OBVIOUS
  <2>5. edit.path = path
    <3>1. edit = [path |-> path, row |-> e.row, name |-> e.name]
      BY <2>3, <2>4
    <3> QED BY ONLY <3>1
  <2>6. path \in DOMAIN disk' /\ disk'[path] = disk[path]
    BY <2>3, <2>4, <2>5 DEF OnlyAt
  <2>7. /\ f \in Files' /\ i \in Tabs(f)' /\ TP(f, i)' = path
        /\ Table(f, i)' = Table(f, i)
    BY <2>4, DumpStays
  <2>8. e \in Edits(ToJson(Table(f, i), TRUE))'
    BY <2>7
  <2>9. /\ edit' = [path |-> TP(f, i)', row |-> e.row, name |-> e.name]
        /\ TP(f, i)' \in DOMAIN disk' /\ disk'[TP(f, i)'] = [kind |-> "json", json |-> e.json]
    BY <2>3, <2>4, <2>6, <2>7
  <2> QED BY <2>7, <2>8, <2>9 DEF EditInv
<1> QED BY <1>1, <1>2

(* An edit is of a JSON file.                                              *)
LEMMA EditPath ==
  ASSUME EditInv
  PROVE  \A f : edit.path # SP(f) /\ edit.path # BP(f)
<1>1. CASE edit = NoEdit
  BY <1>1 DEF NoEdit, SP, BP, SchemaPath, BdatPath
<1>2. CASE edit # NoEdit
  <2>1. PICK h \in Files : \E i \in Tabs(h) :
          \E e : edit = [path |-> TP(h, i), row |-> e.row, name |-> e.name]
    BY <1>2 DEF EditInv
  <2>2. PICK i, a, b : edit = [path |-> TP(h, i), row |-> a, name |-> b]
    BY <2>1
  <2>3. edit.path = TP(h, i)
    BY ONLY <2>2
  <2> QED BY <2>3, Paths DEF TP, SP, BP
<1> QED BY <1>1, <1>2

(* A worker of extract writes a table, or a schema.                        *)
LEMMA TableFits ==
  ASSUME DiskInv, EditInv, dump' = dump, NEW f \in Files, NEW i \in Tabs(f), NEW val,
         OnlyAt(TP(f, i), val), JsonIn(f, i, val),
         edit' = IF edit.path = TP(f, i) THEN NoEdit ELSE edit
  PROVE  DiskInv' /\ EditInv'
<1>1. Fits(TP(f, i), val)
  BY DEF Fits
<1>2. DiskInv'
  BY <1>1, DiskStep
<1>3. EditInv'
  <2>1. CASE edit.path = TP(f, i)
    BY <2>1 DEF EditInv, NoEdit
  <2>2. CASE edit.path # TP(f, i)
    BY <2>2, EditStays
  <2> QED BY <2>1, <2>2
<1> QED BY <1>2, <1>3

LEMMA SchemaFits ==
  ASSUME DiskInv, EditInv, dump' = dump, NEW f \in Files, NEW val,
         OnlyAt(SP(f), val), SchemaIn(f, val), edit' = edit
  PROVE  DiskInv' /\ EditInv'
<1>1. Fits(SP(f), val)
  BY DEF Fits
<1>2. DiskInv'
  BY <1>1, DiskStep
<1>3. EditInv'
  BY EditPath, EditStays
<1> QED BY <1>2, <1>3

(* What does not touch the tables of a file that is alone, and what does   *)
(* not touch what is a file's own.                                         *)
Apart(f) ==
  \/ disk' = disk
  \/ \E path, val : OnlyAt(path, val) /\ (Alone(f) => \A i \in Tabs(f) : path # TP(f, i))
Away(f) ==
  \/ disk' = disk
  \/ \E path, val :
       /\ OnlyAt(path, val)
       /\ \A i \in Tabs(f) : ~Shared(f, i) => path # TP(f, i)
       /\ Alone(f) => path # SP(f)

(* The tables of a file that is alone are its own.                         *)
LEMMA AloneIs == \A f \in Files : Alone(f) => \A i : ~Shared(f, i)
<1> TAKE f \in Files
<1> SUFFICES ASSUME NEW i, NEW h \in Files, NEW j \in Tabs(h), Shares(h, j, f, i)
             PROVE  ~Alone(f)
  BY DEF Shared
<1>1. JsonPath(dump[h].stem, FileName(Table(h, j).name))
      = JsonPath(dump[f].stem, FileName(Table(f, i).name))
  BY DEF Shares, TP
<1>2. dump[h].stem = dump[f].stem
  BY ONLY <1>1, Paths
<1> QED BY <1>2 DEF Alone, Mates, Shares

(* Schemas and packed files are apart from a file's tables, and what       *)
(* another worker writes is away from it.                                  *)
LEMMA ApartIs ==
  /\ \A f \in Files : Away(f) => Apart(f)
  /\ \A f, g, val : OnlyAt(SP(g), val) => Apart(f)
  /\ \A f \in Files, g \in Files : \A i \in Tabs(g) : \A val :
       f # g /\ OnlyAt(TP(g, i), val) => Away(f)
  /\ \A f \in Files, g \in Files : \A val : f # g /\ OnlyAt(SP(g), val) => Away(f)
<1>1. \A f \in Files : Away(f) => Apart(f)
  BY AloneIs DEF Away, Apart
<1>2. \A f, g, val : OnlyAt(SP(g), val) => Apart(f)
  <2> TAKE f, g, val
  <2>1. \A i : SP(g) # TP(f, i)
    BY Paths DEF SP, TP
  <2> QED BY <2>1 DEF Apart
<1>3. ASSUME NEW f \in Files, NEW g \in Files, NEW i \in Tabs(g), NEW val, f # g,
             OnlyAt(TP(g, i), val)
      PROVE  Away(f)
  <2>1. \A j \in Tabs(f) : ~Shared(f, j) => TP(g, i) # TP(f, j)
    BY <1>3 DEF Shared, Shares
  <2>2. TP(g, i) # SP(f)
    BY Paths DEF SP, TP
  <2> QED BY <1>3, <2>1, <2>2 DEF Away
<1>4. ASSUME NEW f \in Files, NEW g \in Files, NEW val, f # g, OnlyAt(SP(g), val)
      PROVE  Away(f)
  <2>1. \A j : SP(g) # TP(f, j)
    BY Paths DEF SP, TP
  <2>2. ASSUME SP(g) = SP(f) PROVE ~Alone(f)
    <3>1. dump[g].stem = dump[f].stem
      BY <2>2, Paths DEF SP
    <3> QED BY <1>4, <3>1 DEF Alone, Mates
  <2> QED BY <1>4, <2>1, <2>2 DEF Away
<1> QED BY <1>1, <1>2, <1>3, <1>4

(* What is there stays so.                                                 *)
LEMMA TablesStay ==
  ASSUME dump' = dump, options' = options, NEW f, Apart(f)
  PROVE  /\ DOMAIN disk \subseteq DOMAIN disk'
         /\ \A i : There(f, i) => There(f, i)'
         /\ \A i \in Tabs(f) : There(f, i) /\ Sound(f, i) => Sound(f, i)'
         /\ Alone(f) => \A i \in Tabs(f) :
              TP(f, i) \in DOMAIN disk => disk'[TP(f, i)] = disk[TP(f, i)]
         /\ AllWritten(f) => AllWritten(f)'
<1>1. DOMAIN disk \subseteq DOMAIN disk'
  BY DEF Apart, OnlyAt
<1>2. \A i : There(f, i) => There(f, i)'
  BY <1>1, DumpStays, OptionsStay DEF There
<1>3. Alone(f) => \A i \in Tabs(f) :
        TP(f, i) \in DOMAIN disk => disk'[TP(f, i)] = disk[TP(f, i)]
  BY DEF Apart, OnlyAt
<1>4. \A i \in Tabs(f) : There(f, i) /\ Sound(f, i) => Sound(f, i)'
  <2> TAKE i \in Tabs(f)
  <2> HAVE There(f, i) /\ Sound(f, i)
  <2>1. CASE ~(Asked(f, i) /\ Alone(f))
    BY <2>1, DumpStays, OptionsStay DEF Sound
  <2>2. CASE Asked(f, i) /\ Alone(f)
    <3>1. TP(f, i) \in DOMAIN disk /\ disk[TP(f, i)].kind = "json"
      BY <2>2 DEF There, Sound
    <3>2. disk'[TP(f, i)].kind = "json"
      BY <1>3, <2>2, <3>1
    <3> QED BY <3>2, DumpStays DEF Sound
  <2> QED BY <2>1, <2>2
<1>5. AllWritten(f) => AllWritten(f)'
  BY <1>1, <1>2, <1>4, DumpStays DEF AllWritten
<1> QED BY <1>1, <1>2, <1>3, <1>4, <1>5

(* Nor what is a file's own.                                               *)
LEMMA OwnStays ==
  ASSUME NEW f, Away(f)
  PROVE  /\ DOMAIN disk \subseteq DOMAIN disk'
         /\ \A i \in Tabs(f) : TP(f, i) \in DOMAIN disk /\ ~Shared(f, i) =>
              disk'[TP(f, i)] = disk[TP(f, i)]
         /\ SP(f) \in DOMAIN disk /\ Alone(f) => disk'[SP(f)] = disk[SP(f)]
BY DEF Away, OnlyAt

(* A worker is not disturbed by the others.                                *)
LEMMA WorkerStays ==
  ASSUME Control, dump' = dump, options' = options, edit' = edit \/ edit' = NoEdit,
         NEW f \in Files, Away(f), NEW w, WorkerOK(f, w)
  PROVE  WorkerOK(f, w)'
<1>1. PICK len \in Nat : len = Len(dump[f].tables) /\ Tabs(f) = 1..len
  BY Numbered
<1>2. /\ w = [pc |-> w.pc, n |-> w.n, listed |-> w.listed, begun |-> w.begun]
      /\ w.pc \in {"create", "write", "schema"} /\ w.n \in 1..(len + 1) /\ w.begun \in BOOLEAN
      /\ w.listed = Listing(f, IF w.pc = "write" THEN w.n ELSE w.n - 1)
      /\ \A i \in 1..(w.n - 1) :
           There(f, i) /\ (Sound(f, i) \/ (w.pc = "write" /\ TP(f, i) = TP(f, w.n)))
      /\ w.pc = "write" => w.n <= len /\ AtWrite(f, w)
      /\ w.pc = "schema" => w.n = len + 1 /\ AtSchema(f, w)
  BY <1>1 DEF WorkerOK
<1>3. Len(dump'[f].tables) = len
  BY <1>1
<1>4. (Listing(f, IF w.pc = "write" THEN w.n ELSE w.n - 1))'
      = Listing(f, IF w.pc = "write" THEN w.n ELSE w.n - 1)
  BY ListingStays
<1>5. ASSUME NEW i \in 1..(w.n - 1)
      PROVE  There(f, i)' /\ (Sound(f, i)' \/ (w.pc = "write" /\ TP(f, i)' = TP(f, w.n)'))
  <2>1. i \in Tabs(f)
    BY <1>1, <1>2
  <2>2. Apart(f)
    BY ApartIs
  <2> QED BY <1>2, <2>1, <2>2, TablesStay, DumpStays
<1>6. w.pc = "write" => w.n <= len /\ AtWrite(f, w)'
  <2> HAVE w.pc = "write"
  <2>1. w.n \in Tabs(f)
    BY <1>1, <1>2
  <2>2. TP(f, w.n) # NoEdit.path
    BY Paths DEF TP
  <2>3. /\ TP(f, w.n) \in DOMAIN disk' /\ TP(f, w.n) # edit'.path
        /\ ~Shared(f, w.n) => disk'[TP(f, w.n)] = IF w.begun THEN Part(f) ELSE Torn
    BY <1>2, <2>1, <2>2, OwnStays DEF AtWrite
  <2> QED BY <1>2, <2>3, DumpStays, ListingStays, SharingStays DEF AtWrite, Part, Torn
<1>7. w.pc = "schema" => w.n = len + 1 /\ AtSchema(f, w)'
  <2> HAVE w.pc = "schema"
  <2>1. /\ SP(f) \in DOMAIN disk'
        /\ Alone(f) => disk'[SP(f)] = IF w.begun THEN Part(f) ELSE Torn
    BY <1>2, OwnStays DEF AtSchema
  <2> QED BY <1>2, <2>1, DumpStays, ListingStays DEF AtSchema, Part, Torn
<1> QED BY <1>1, <1>2, <1>3, <1>4, <1>5, <1>6, <1>7 DEF WorkerOK

(* What pack has made stays, whatever is written elsewhere.                *)
LEMMA PackedStays ==
  ASSUME PackedOnce, dump' = dump, options' = options, extracts' = extracts,
         extracts = 1 /\ edit' = NoEdit => edit = NoEdit,
         \/ disk' = disk
         \/ \E path, val : OnlyAt(path, val) /\ \A f \in Files : path # BP(f)
  PROVE  PackedOnce'
<1> SUFFICES ASSUME extracts = 1, edit' = NoEdit, NEW f \in Files, NEW tables,
                    BP(f) \in DOMAIN disk', disk'[BP(f)] # Torn, tables = disk'[BP(f)].tables
             PROVE  Good(f, tables)'
  <2>1. NoEdit' = NoEdit /\ Torn' = Torn
    BY DEF NoEdit, Torn
  <2> QED BY <2>1, DumpStays DEF PackedOnce, PackedFile, PackedTables, BP
<1>1. edit = NoEdit /\ edit' = edit
  OBVIOUS
<1>2. BP(f) \in DOMAIN disk /\ disk'[BP(f)] = disk[BP(f)]
  BY DEF OnlyAt
<1>3. Good(f, tables)
  BY <1>1, <1>2 DEF PackedOnce, PackedFile, PackedTables, BP
<1> QED BY <1>1, <1>3, GoodStays

(* A step of a worker of extract.                                          *)
Frame == dump' = dump /\ options' = options /\ extracts' = extracts /\ extracted' = extracted
Rest(f) ==
  /\ DOMAIN work' \subseteq DOMAIN work \cup {f}
  /\ \A g \in DOMAIN work : g # f => work'[g] = work[g]

(* Such a step keeps the invariant, if it keeps what it says of the        *)
(* worker.                                                                 *)
LEMMA ExtractStep ==
  ASSUME IInv, Control', DiskInv', EditInv', Frame, cmd = "extract", cmd' = "extract",
         edit' = edit \/ edit' = NoEdit, error' = FALSE => error = FALSE,
         NEW f \in Files, Rest(f),
         \/ disk' = disk
         \/ \E i \in Tabs(f) : \E val : OnlyAt(TP(f, i), val)
         \/ (\E val : OnlyAt(SP(f), val)) /\ \A i \in Tabs(f) : There(f, i),
         f \in DOMAIN work' => \A w : w = work'[f] => WorkerOK(f, w)',
         (Files \ todo') \ DOMAIN work' \subseteq ((Files \ todo) \ DOMAIN work) \cup {f},
         (f \notin todo' /\ f \notin DOMAIN work' /\ error' = FALSE) => AllWritten(f)'
  PROVE  IInv'
<1> USE DEF Frame
<1>1. /\ Control /\ DiskInv /\ ExtractWork /\ ExtractDone /\ TablesFirst /\ PackedOnce
  BY DEF IInv, DirInv
<1>2. extracted = "none" /\ extracted' = "none" /\ DOMAIN work \subseteq Files /\ error \in BOOLEAN
      /\ error' \in BOOLEAN
  BY <1>1 DEF Control
<1>3. ASSUME NEW g \in Files, g # f PROVE Away(g) /\ Apart(g)
  <2>1. Away(g)
    BY <1>3, ApartIs DEF Away
  <2> QED BY <2>1, ApartIs
<1>4. ExtractWork'
  <2> SUFFICES ASSUME NEW g \in DOMAIN work', NEW w, w = work'[g] PROVE WorkerOK(g, w)'
    BY DEF ExtractWork
  <2>1. CASE g = f
    BY <2>1
  <2>2. CASE g # f
    <3>1. g \in DOMAIN work /\ w = work[g] /\ g \in Files
      BY <1>2, <2>2 DEF Rest
    <3>2. WorkerOK(g, w)
      BY <1>1, <3>1 DEF ExtractWork
    <3> QED BY <1>1, <1>3, <2>2, <3>1, <3>2, WorkerStays
  <2> QED BY <2>1, <2>2
<1>5. ExtractDone'
  <2> SUFFICES ASSUME error' = FALSE, NEW g \in (Files \ todo') \ DOMAIN work'
               PROVE  AllWritten(g)'
    BY <1>2, DumpStays DEF ExtractDone, Extracting
  <2>1. CASE g = f
    BY <2>1
  <2>2. CASE g # f
    <3>1. g \in (Files \ todo) \ DOMAIN work
      BY <2>2
    <3>2. AllWritten(g)
      BY <1>1, <3>1 DEF ExtractDone, Extracting
    <3> QED BY <1>3, <2>2, <3>1, <3>2, TablesStay
  <2> QED BY <2>1, <2>2
<1>6. Extracted'
  BY <1>2 DEF Extracted
<1>7. TablesFirst'
  <2> SUFFICES ASSUME extracts = 1, NEW g \in Files, Alone(g), SP(g) \in DOMAIN disk',
                      NEW i \in Tabs(g)
               PROVE  There(g, i)'
    BY DumpStays DEF TablesFirst
  <2>1. DOMAIN disk \subseteq DOMAIN disk'
    BY DEF OnlyAt
  <2>2. There(g, i)
    <3>1. CASE SP(g) \in DOMAIN disk
      BY <1>1, <3>1 DEF TablesFirst
    <3>2. CASE SP(g) \notin DOMAIN disk
      <4>1. ~(\E j \in Tabs(f) : \E val : OnlyAt(TP(f, j), val))
        <5>1. \A j : TP(f, j) # SP(g)
          BY Paths DEF TP, SP
        <5> QED BY <3>2, <5>1 DEF OnlyAt
      <4>2. SP(g) = SP(f) /\ \A j \in Tabs(f) : There(f, j)
        BY <3>2, <4>1 DEF OnlyAt
      <4>3. dump[g].stem = dump[f].stem
        BY <4>2, Paths DEF SP
      <4>4. g = f
        BY <4>3 DEF Alone, Mates
      <4> QED BY <4>2, <4>4
    <3> QED BY <3>1, <3>2
  <2> QED BY <2>1, <2>2, DumpStays, OptionsStay DEF There
<1>8. PackWork' /\ PackDone'
  BY DEF PackWork, PackDone, Packing
<1>9. PackedOnce'
  <2>1. extracts = 1 => edit = NoEdit
    BY <1>1 DEF Control
  <2>2. \A g \in Files : SP(f) # BP(g) /\ \A i : TP(f, i) # BP(g)
    BY Paths DEF SP, TP, BP
  <2>3. disk' = disk \/ \E path, val : OnlyAt(path, val) /\ \A g \in Files : path # BP(g)
    BY <2>2
  <2> QED BY <1>1, <2>1, <2>3, PackedStays
<1> QED BY <1>4, <1>5, <1>6, <1>7, <1>8, <1>9 DEF IInv, DirInv

(* A step of a worker of pack.                                             *)
LEMMA PackStep ==
  ASSUME IInv, Frame, UNCHANGED <<edit, last, result>>,
         cmd = "pack", cmd' = "pack", error' \in BOOLEAN, error' = FALSE => error = FALSE,
         NEW s \in Schemas, Rest(s), todo' \subseteq todo,
         DOMAIN work' \cap todo' = {},
         (Schemas \ todo') \ DOMAIN work' \subseteq ((Schemas \ todo) \ DOMAIN work) \cup {s},
         s \in DOMAIN work' => \A w : w = work'[s] => PackerOK(s, w),
         \/ disk' = disk
         \/ OnlyAt(BdatPath(s), Torn)
         \/ \E tables : OnlyAt(BdatPath(s), Bdat(tables)) /\ GoodFor(s, tables),
         (s \notin todo' /\ s \notin DOMAIN work' /\ error' = FALSE) =>
           /\ ~Broken(disk[SchemaPath(s)])
           /\ \E tables : OnlyAt(BdatPath(s), Bdat(tables)) /\ GoodFor(s, tables)
  PROVE  IInv'
<1> USE DEF Frame
<1>1. /\ Control /\ DiskInv /\ EditInv /\ Extracted /\ TablesFirst
      /\ PackWork /\ PackDone /\ PackedOnce
  BY DEF IInv, DirInv
<1>2. /\ DOMAIN disk \subseteq DOMAIN disk' /\ DOMAIN disk' \subseteq DOMAIN disk \cup {BdatPath(s)}
      /\ \A p \in DOMAIN disk : p # BdatPath(s) => disk'[p] = disk[p]
  BY DEF OnlyAt
<1>3. Schemas' = Schemas
  <2>1. \A x : SchemaPath(x) \in DOMAIN disk' <=> SchemaPath(x) \in DOMAIN disk
    BY <1>2, Paths
  <2> QED BY <2>1 DEF Schemas, Files
<1>4. PICK f \in Files : dump[f].stem = s /\ SP(f) \in DOMAIN disk /\ BP(f) = BdatPath(s)
  BY DEF Schemas, SP, BP
<1>5. Control'
  <2>1. extracts = 0 => DOMAIN disk = {}
    BY <1>1 DEF Control
  <2>2. extracts # 0
    BY <1>4, <2>1
  <2>3. DOMAIN work' \subseteq Schemas' \ todo'
    BY <1>1, <1>3 DEF Control, Rest
  <2>4. todo' \subseteq Schemas'
    BY <1>1, <1>3 DEF Control
  <2> QED BY <1>1, <2>2, <2>3, <2>4 DEF Control
<1>6. DiskInv'
  <2>1. CASE disk' = disk
    BY <1>1, <2>1, DiskStays
  <2>2. ASSUME NEW val, OnlyAt(BdatPath(s), val), val.kind # "json" PROVE DiskInv'
    <3>1. Fits(BdatPath(s), val)
      BY <1>4, <2>2 DEF Fits
    <3> QED BY <1>1, <2>2, <3>1, DiskStep
  <2>3. Torn.kind # "json" /\ \A tables : Bdat(tables).kind # "json"
    BY DEF Torn, Bdat
  <2> QED BY <2>1, <2>2, <2>3
<1>7. edit # NoEdit => edit.path # BdatPath(s) /\ edit.path \in DOMAIN disk
  <2> HAVE edit # NoEdit
  <2>1. edit.path # BdatPath(s)
    BY <1>1, <1>4, EditPath
  <2>2. PICK h \in Files : \E i \in Tabs(h) : \E e :
          /\ edit = [path |-> TP(h, i), row |-> e.row, name |-> e.name]
          /\ TP(h, i) \in DOMAIN disk
    BY <1>1 DEF EditInv
  <2>3. PICK i, x, y : /\ edit = [path |-> TP(h, i), row |-> x, name |-> y]
                       /\ TP(h, i) \in DOMAIN disk
    BY <2>2
  <2>4. edit.path = TP(h, i)
    <3>1. edit = [path |-> TP(h, i), row |-> x, name |-> y]
      BY <2>3
    <3> QED BY ONLY <3>1
  <2> QED BY <2>1, <2>3, <2>4
<1>8. EditInv'
  <2>1. CASE edit = NoEdit
    BY <2>1 DEF EditInv, NoEdit
  <2>2. CASE edit # NoEdit
    <3>1. disk' = disk \/ \E path, val : OnlyAt(path, val) /\ path # edit.path
      BY <1>7, <2>2
    <3> QED BY <1>1, <3>1, EditStays
  <2> QED BY <2>1, <2>2
<1>9. ExtractWork' /\ ExtractDone'
  BY DEF ExtractWork, ExtractDone, Extracting
<1>10. Extracted'
  BY <1>1, <1>2, DumpStays, OptionsStay DEF Extracted, There
<1>11. TablesFirst'
  <2>1. \A g : SP(g) \in DOMAIN disk' => SP(g) \in DOMAIN disk
    BY <1>2, Paths DEF SP
  <2> QED BY <1>1, <1>2, <2>1, DumpStays, OptionsStay DEF TablesFirst, There
<1>12. \A x, tables : GoodFor(x, tables) => GoodFor(x, tables)'
  BY <1>2, <1>7, GoodStays
<1>13. \A x \in Schemas : disk'[SchemaPath(x)] = disk[SchemaPath(x)] /\ SchemaPath(x) \in DOMAIN disk
  <2>1. \A x \in Schemas : SchemaPath(x) \in DOMAIN disk
    BY DEF Schemas
  <2> QED BY <1>2, <2>1, Paths
<1>14. ASSUME NEW x \in Schemas, NEW w, PackerOK(x, w) PROVE PackerOK(x, w)'
  <2>1. GoodFor(x, AsWritten(w.tables)) => GoodFor(x, AsWritten(w.tables))'
    BY <1>12 DEF AsWritten
  <2> QED BY <1>13, <1>14, <2>1 DEF PackerOK, Broken
<1>15. PackWork'
  <2> SUFFICES ASSUME NEW x \in DOMAIN work', NEW w, w = work'[x] PROVE PackerOK(x, w)'
    BY DEF PackWork
  <2>1. CASE x = s
    BY <1>14, <2>1
  <2>2. CASE x # s
    <3>1. x \in DOMAIN work /\ w = work[x] /\ x \in Schemas
      BY <1>1, <2>2 DEF Rest, Control
    <3>2. PackerOK(x, w)
      BY <1>1, <3>1 DEF PackWork
    <3> QED BY <1>14, <3>1, <3>2
  <2> QED BY <2>1, <2>2
<1>16. \A tables : ~Broken(Bdat(tables)) /\ Bdat(tables).tables = tables
  BY Kinds
<1>17. PackDone'
  <2> SUFFICES ASSUME error' = FALSE, NEW x \in (Schemas \ todo') \ DOMAIN work'
               PROVE  PackedOK(x)'
    BY <1>3 DEF PackDone, Packing
  <2>1. CASE x = s
    <3>1. PICK tables : OnlyAt(BdatPath(s), Bdat(tables)) /\ GoodFor(s, tables)
      BY <2>1
    <3>2. disk'[BdatPath(s)] = Bdat(tables) /\ BdatPath(s) \in DOMAIN disk'
      BY <3>1 DEF OnlyAt
    <3>3. ~Broken(disk'[SchemaPath(s)])
      BY <1>13, <2>1
    <3>4. ~Broken(disk'[BdatPath(s)]) /\ disk'[BdatPath(s)].tables = tables
      BY <1>16, <3>2
    <3>5. GoodFor(s, tables)'
      BY <1>12, <3>1
    <3> QED BY <2>1, <3>2, <3>3, <3>4, <3>5 DEF PackedOK, Broken
  <2>2. CASE x # s
    <3>1. x \in (Schemas \ todo) \ DOMAIN work
      BY <2>2
    <3>2. PackedOK(x)
      BY <1>1, <3>1 DEF PackDone, Packing
    <3>3. BdatPath(x) \in DOMAIN disk /\ disk'[BdatPath(x)] = disk[BdatPath(x)]
          /\ BdatPath(x) \in DOMAIN disk'
      BY <1>2, <2>2, <3>2, Paths DEF PackedOK
    <3> QED BY <1>12, <1>13, <3>1, <3>2, <3>3 DEF PackedOK, Broken
  <2> QED BY <2>1, <2>2
<1>18. PackedOnce'
  <2> SUFFICES ASSUME extracts = 1, edit = NoEdit, NEW g \in Files, NEW tables,
                      BP(g) \in DOMAIN disk', disk'[BP(g)] # Torn,
                      tables = disk'[BP(g)].tables
               PROVE  Good(g, tables)'
    <3>1. NoEdit' = NoEdit /\ Torn' = Torn
      BY DEF NoEdit, Torn
    <3> QED BY <3>1, DumpStays DEF PackedOnce, PackedFile, PackedTables, BP
  <2>1. Good(g, tables)
    <3>1. CASE BP(g) \in DOMAIN disk /\ disk'[BP(g)] = disk[BP(g)]
      BY <1>1, <3>1 DEF PackedOnce, PackedFile, PackedTables, BP
    <3>2. CASE ~(BP(g) \in DOMAIN disk /\ disk'[BP(g)] = disk[BP(g)])
      <4>1. BP(g) = BdatPath(s)
        BY <1>2, <3>2
      <4>2. dump[g].stem = s
        BY <4>1, Paths DEF BP
      <4>3. ~OnlyAt(BdatPath(s), Torn) /\ disk' # disk
        BY <3>2, <4>1 DEF OnlyAt
      <4>4. PICK new : OnlyAt(BdatPath(s), Bdat(new)) /\ GoodFor(s, new)
        BY <4>3
      <4>5. tables = new
        BY <1>16, <4>1, <4>4 DEF OnlyAt
      <4> QED BY <4>2, <4>4, <4>5 DEF GoodFor
    <3> QED BY <3>1, <3>2
  <2> QED BY <1>2, <1>7, <2>1, GoodStays
<1> QED BY <1>5, <1>6, <1>8, <1>9, <1>10, <1>11, <1>15, <1>17, <1>18 DEF IInv, DirInv

(* The commands, while a worker of extract is at work.                     *)
LEMMA ExtractControl ==
  ASSUME Control, Frame, cmd = "extract", cmd' = "extract", UNCHANGED <<last, result>>,
         error' \in BOOLEAN, edit' = edit \/ edit' = NoEdit,
         todo' \subseteq Files, DOMAIN work' \subseteq Files \ todo'
  PROVE  Control'
<1>1. NoEdit' = NoEdit /\ Files' = Files
  BY DumpStays DEF NoEdit, Frame
<1> QED BY <1>1 DEF Control, Frame

(* What a worker of extract has at hand.                                   *)
IsWork(w) == w = [pc |-> w.pc, n |-> w.n, listed |-> w.listed, begun |-> w.begun]
LEMMA WorkerIs ==
  ASSUME IInv, cmd = "extract", NEW f \in DOMAIN work, NEW w, w = work[f],
         NEW len, len = Len(dump[f].tables)
  PROVE  /\ f \in Files /\ f \notin todo /\ len \in Nat /\ Tabs(f) = 1..len
         /\ IsWork(w) /\ w.begun \in BOOLEAN
         /\ w.pc \in {"create", "write", "schema"} /\ w.n \in 1..(len + 1)
         /\ w.listed = Listing(f, IF w.pc = "write" THEN w.n ELSE w.n - 1)
         /\ \A i \in 1..(w.n - 1) :
              There(f, i) /\ (Sound(f, i) \/ (w.pc = "write" /\ TP(f, i) = TP(f, w.n)))
         /\ w.pc = "write" => w.n <= len /\ AtWrite(f, w)
         /\ w.pc = "schema" => w.n = len + 1 /\ AtSchema(f, w)
<1>1. f \in Files /\ f \notin todo
  BY DEF IInv, DirInv, Control
<1>2. len \in Nat /\ Tabs(f) = 1..len
  BY <1>1, Numbered DEF IInv, DirInv
<1>3. WorkerOK(f, w)
  BY DEF IInv, ExtractWork
<1> QED BY <1>1, <1>2, <1>3 DEF WorkerOK, IsWork

(* What it has done.                                                       *)
LEMMA WorkIs ==
  ASSUME NEW w, NEW pc, NEW n, NEW listed, NEW begun,
         w = [pc |-> pc, n |-> n, listed |-> listed, begun |-> begun]
  PROVE  IsWork(w) /\ w.pc = pc /\ w.n = n /\ w.listed = listed /\ w.begun = begun
BY DEF IsWork

(* A step of its writing.                                                  *)
LEMMA Marked ==
  ASSUME NEW w, IsWork(w)
  PROVE  LET v == [w EXCEPT !.begun = TRUE]
         IN  /\ IsWork(v) /\ v.begun = TRUE
             /\ v.pc = w.pc /\ v.n = w.n /\ v.listed = w.listed
<1>1. PICK a, b, c, d : w = [pc |-> a, n |-> b, listed |-> c, begun |-> d]
  BY DEF IsWork
<1>2. PICK v : v = [w EXCEPT !.begun = TRUE]
  OBVIOUS
<1>3. v = [pc |-> a, n |-> b, listed |-> c, begun |-> TRUE]
  BY <1>1, <1>2
<1>4. w.pc = a /\ w.n = b /\ w.listed = c
  BY <1>1, WorkIs
<1>5. IsWork(v) /\ v.pc = a /\ v.n = b /\ v.listed = c /\ v.begun = TRUE
  BY <1>3, WorkIs
<1> QED BY <1>2, <1>4, <1>5

(* A file of its own is created.                                           *)
Begin(w, to) == [w EXCEPT !.pc = to, !.begun = FALSE]
Begun(to, n, listed) == [pc |-> to, n |-> n, listed |-> listed, begun |-> FALSE]
LEMMA Created ==
  ASSUME NEW w, NEW to, NEW pc, NEW n, NEW listed, NEW begun,
         w = [pc |-> pc, n |-> n, listed |-> listed, begun |-> begun]
  PROVE  Begin(w, to) = Begun(to, n, listed)
<1> USE DEF Begin, Begun
<1>1. PICK x, no : x = [w EXCEPT !.pc = to] /\ no = FALSE
  OBVIOUS
<1>2. x = [pc |-> to, n |-> n, listed |-> listed, begun |-> begun]
  BY <1>1
<1>3. [x EXCEPT !.begun = no] = [pc |-> to, n |-> n, listed |-> listed, begun |-> no]
  BY ONLY <1>2
<1> QED BY <1>1, <1>3

(* What there is of a file after a write of its worker, if it is its own   *)
(* and if it is not.                                                       *)
LEMMA AfterIs ==
  ASSUME NEW f, NEW old, NEW content, NEW begun \in BOOLEAN, NEW own \in BOOLEAN,
         own => old = IF begun THEN Part(f) ELSE Torn
  PROVE  /\ \A new \in AfterPart(f, old, ~begun) : new = Part(f) \/ (~own /\ new = Mixed)
         /\ \A new \in (IF begun THEN AfterRest(f, old, content) ELSE AfterOnly(old, content)) :
              \/ new = content
              \/ ~own /\ (new = Trailing \/ (begun /\ new = Mixed))
<1>1. \A new \in AfterPart(f, old, ~begun) : new = Part(f) \/ (~own /\ new = Mixed)
  BY DEF AfterPart
<1>2. \A new \in AfterRest(f, old, content) :
        begun => new = content \/ (~own /\ new = Mixed)
  BY DEF AfterRest
<1>3. \A new \in AfterOnly(old, content) :
        ~begun => new = content \/ (~own /\ new = Trailing)
  BY DEF AfterOnly
<1> QED BY <1>1, <1>2, <1>3

(* What two files share may be spoilt if it is large.                      *)
LEMMA SpoiltIs ==
  ASSUME Control, NEW f \in Files
  PROVE  /\ \A i : Shared(f, i) /\ LargeTable(f, i) => SpoiltAt(f, i)
         /\ Large(SchemaOf(f)) => SpoiltSchema(f)
<1>1. \A i : Shared(f, i) /\ LargeTable(f, i) => SpoiltAt(f, i)
  BY DEF Shared, SpoiltAt
<1>2. ASSUME Large(SchemaOf(f)) PROVE SpoiltSchema(f)
  <2>1. [i \in DOMAIN dump[f].tables |-> LabelText(Table(f, i).name)]
        = Listing(f, Len(dump[f].tables))
    BY Numbered DEF Listing, Tabs
  <2>2. f \in Mates(f)
    BY DEF Mates
  <2> QED BY <1>2, <2>1, <2>2 DEF SpoiltSchema, SchemaOf
<1> QED BY <1>1, <1>2

(* The worker writes its table, the first part or the rest of it.          *)
TableNow(f, new) ==
  LET n == work[f].n
  IN  OnlyAt(TP(f, n), new) /\ JsonIn(f, n, new) /\ n \in Tabs(f) /\ TP(f, n) # edit.path
LEMMA TableWrites ==
  ASSUME IInv, NEW f, At(f, "write")
  PROVE  /\ \A new \in AfterPart(f, disk[Target(f)], ~work[f].begun) :
              Large(Content(f)) /\ Write(Target(f), new) =>
                /\ TableNow(f, new) /\ LargeTable(f, work[f].n)
                /\ ~Shared(f, work[f].n) => new = Part(f)
         /\ WriteRest(f) =>
              \E new : /\ TableNow(f, new)
                       /\ ~Shared(f, work[f].n) => new.kind = "json"
<1>1. cmd = "extract" /\ f \in DOMAIN work /\ work[f].pc = "write" /\ Control
  BY DEF At, IInv, DirInv
<1>2. PICK w, len : w = work[f] /\ len = Len(dump[f].tables)
  OBVIOUS
<1>3. /\ f \in Files /\ len \in Nat /\ Tabs(f) = 1..len /\ w.begun \in BOOLEAN
      /\ w.n \in 1..len /\ AtWrite(f, w)
  <2>1. w.pc = "write"
    BY <1>1, <1>2
  <2> QED BY <1>1, <1>2, <2>1, WorkerIs
<1>4. PICK n \in Tabs(f) : n = w.n
  BY <1>3
<1>5. Target(f) = TP(f, n)
  BY <1>1, <1>2, <1>4 DEF Target, TablePath, TP
<1>6. PICK typed \in BOOLEAN : typed = ~options.untyped
  OBVIOUS
<1>7. PICK content : content = JsonOf(f, n, typed)
  OBVIOUS
<1>8. Content(f) = content
  BY <1>1, <1>2, <1>4, <1>6, <1>7 DEF Content, JsonOf
<1>9. Large(content) => LargeTable(f, n)
  BY <1>6, <1>7 DEF LargeTable, JsonOf
<1>10. PICK old : old = disk[TP(f, n)]
  OBVIOUS
<1>15. PICK own \in BOOLEAN : own <=> ~Shared(f, n)
  OBVIOUS
<1>11. own => old = IF w.begun THEN Part(f) ELSE Torn
  BY <1>3, <1>4, <1>10, <1>15 DEF AtWrite
<1>12. (w.begun => LargeTable(f, n)) /\ TP(f, n) # edit.path
  BY <1>3, <1>4 DEF AtWrite
<1>13. ASSUME NEW new \in AfterPart(f, disk[Target(f)], ~work[f].begun), Large(Content(f)),
              Write(Target(f), new)
       PROVE  /\ TableNow(f, new) /\ LargeTable(f, work[f].n)
              /\ ~Shared(f, work[f].n) => new = Part(f)
  <2>1. new = Part(f) \/ (~own /\ new = Mixed)
    <3>1. new \in AfterPart(f, old, ~w.begun)
      BY <1>2, <1>5, <1>10
    <3>2. w.begun \in BOOLEAN
      BY <1>3
    <3> QED BY ONLY <1>11, <3>1, <3>2, AfterIs
  <2>2. OnlyAt(TP(f, n), new) /\ LargeTable(f, n)
    BY <1>5, <1>8, <1>9, <1>13, WriteDone
  <2>3. JsonIn(f, n, new)
    BY <1>1, <1>3, <1>15, <2>1, <2>2, SpoiltIs, Kinds DEF JsonIn
  <2> QED BY <1>2, <1>4, <1>12, <1>15, <2>1, <2>2, <2>3 DEF TableNow
<1>14. ASSUME WriteRest(f)
       PROVE  \E new : TableNow(f, new) /\ (~Shared(f, work[f].n) => new.kind = "json")
  <2>1. PICK new \in (IF w.begun THEN AfterRest(f, old, content) ELSE AfterOnly(old, content)) :
          Write(TP(f, n), new)
    BY <1>2, <1>5, <1>8, <1>10, <1>14 DEF WriteRest
  <2>2. new = content \/ (~own /\ (new = Trailing \/ (w.begun /\ new = Mixed)))
    <3>1. PICK begun \in BOOLEAN : begun = w.begun
      BY <1>3
    <3>2. own => old = IF begun THEN Part(f) ELSE Torn
      BY <1>11, <3>1
    <3>3. \A x \in (IF begun THEN AfterRest(f, old, content) ELSE AfterOnly(old, content)) :
            x = content \/ (~own /\ (x = Trailing \/ (begun /\ x = Mixed)))
      BY ONLY <3>2, AfterIs
    <3> QED BY <3>1, <3>3
  <2>3. OnlyAt(TP(f, n), new)
    BY <2>1, WriteDone
  <2>4. JsonIn(f, n, new)
    BY <1>1, <1>3, <1>7, <1>12, <1>15, <2>2, SpoiltIs, Kinds DEF JsonIn
  <2>5. own => new.kind = "json"
    BY <1>7, <2>2, Kinds
  <2> QED BY <1>2, <1>4, <1>12, <1>15, <2>3, <2>4, <2>5 DEF TableNow
<1> QED BY <1>13, <1>14

(* So it does with the schema.                                             *)
LEMMA SchemaWrites ==
  ASSUME IInv, NEW f, At(f, "schema")
  PROVE  /\ \A new \in AfterPart(f, disk[Target(f)], ~work[f].begun) :
              Large(Content(f)) /\ Write(Target(f), new) =>
                /\ OnlyAt(SP(f), new) /\ SchemaIn(f, new) /\ Large(SchemaOf(f))
                /\ Alone(f) => new = Part(f)
         /\ WriteRest(f) => \E new : OnlyAt(SP(f), new) /\ SchemaIn(f, new)
<1>1. cmd = "extract" /\ f \in DOMAIN work /\ work[f].pc = "schema" /\ Control
  BY DEF At, IInv, DirInv
<1>2. PICK w, len : w = work[f] /\ len = Len(dump[f].tables)
  OBVIOUS
<1>3. /\ f \in Files /\ len \in Nat /\ w.begun \in BOOLEAN
      /\ w.listed = Listing(f, len) /\ AtSchema(f, w)
  <2>1. w.pc = "schema"
    BY <1>1, <1>2
  <2>2. /\ f \in Files /\ len \in Nat /\ w.begun \in BOOLEAN /\ w.n = len + 1
        /\ w.listed = Listing(f, w.n - 1) /\ AtSchema(f, w)
    BY <1>1, <1>2, <2>1, WorkerIs
  <2>3. w.n - 1 = len
    BY <2>2
  <2> QED BY <2>2, <2>3
<1>4. Target(f) = SP(f)
  BY <1>1 DEF Target, SP
<1>5. PICK content : content = SchemaOf(f)
  OBVIOUS
<1>6. Content(f) = content
  BY <1>1, <1>2, <1>3, <1>5 DEF Content, SchemaOf
<1>7. PICK old, own : old = disk[SP(f)] /\ own = Alone(f)
  OBVIOUS
<1>8. own \in BOOLEAN /\ (own => old = IF w.begun THEN Part(f) ELSE Torn)
  <2>1. own = (Mates(f) = {f})
    BY <1>7 DEF Alone
  <2>2. own \in BOOLEAN
    BY <2>1
  <2> QED BY <1>3, <1>7, <2>2 DEF AtSchema
<1>9. w.begun => Large(content)
  BY <1>3, <1>5 DEF AtSchema
<1>10. f \in Mates(f)
  BY <1>3 DEF Mates
<1>11. ASSUME NEW new \in AfterPart(f, disk[Target(f)], ~work[f].begun), Large(Content(f)),
              Write(Target(f), new)
       PROVE  /\ OnlyAt(SP(f), new) /\ SchemaIn(f, new) /\ Large(SchemaOf(f))
              /\ Alone(f) => new = Part(f)
  <2>1. new = Part(f) \/ (~own /\ new = Mixed)
    <3>1. new \in AfterPart(f, old, ~w.begun)
      BY <1>2, <1>4, <1>7
    <3> QED BY <1>3, <1>8, <3>1, AfterIs
  <2>2. OnlyAt(SP(f), new) /\ Large(SchemaOf(f))
    BY <1>4, <1>5, <1>6, <1>11, WriteDone
  <2>3. SchemaIn(f, new)
    BY <1>1, <1>3, <1>7, <2>1, <2>2, SpoiltIs, Kinds DEF SchemaIn
  <2> QED BY <1>7, <2>1, <2>2, <2>3
<1>12. ASSUME WriteRest(f)
       PROVE  \E new : OnlyAt(SP(f), new) /\ SchemaIn(f, new)
  <2>1. PICK new \in (IF w.begun THEN AfterRest(f, old, content) ELSE AfterOnly(old, content)) :
          Write(SP(f), new)
    BY <1>2, <1>4, <1>6, <1>7, <1>12 DEF WriteRest
  <2>2. new = content \/ (~own /\ (new = Trailing \/ (w.begun /\ new = Mixed)))
    BY <1>3, <1>8, AfterIs
  <2>3. OnlyAt(SP(f), new)
    BY <2>1, WriteDone
  <2>4. SchemaIn(f, new)
    BY <1>1, <1>3, <1>5, <1>7, <1>9, <1>10, <2>2, SpoiltIs, Kinds DEF SchemaIn
  <2> QED BY <2>3, <2>4
<1> QED BY <1>11, <1>12

(* The tables before the one that is being written.                        *)
LEMMA EarlierStay ==
  ASSUME dump' = dump, options' = options, NEW f, NEW path, NEW val, OnlyAt(path, val),
         NEW i, There(f, i), Sound(f, i) \/ TP(f, i) = path
  PROVE  There(f, i)' /\ (Sound(f, i)' \/ TP(f, i)' = path)
<1>1. There(f, i)'
  BY DumpStays, OptionsStay DEF There, OnlyAt
<1>2. CASE TP(f, i) = path
  BY <1>1, <1>2, DumpStays
<1>3. CASE TP(f, i) # path
  <2>1. Asked(f, i) /\ Alone(f) => disk'[TP(f, i)].kind = "json"
    BY <1>3 DEF There, Sound, OnlyAt
  <2> QED BY <1>1, <2>1, DumpStays, OptionsStay DEF Sound
<1> QED BY <1>2, <1>3

(* A table is listed.                                                      *)
LEMMA ListingGrows ==
  ASSUME NEW f, NEW n \in Nat \ {0}
  PROVE  Listing(f, n) = Append(Listing(f, n - 1), LabelText(Table(f, n).name))
<1> DEFINE text(i) == LabelText(Table(f, i).name)
           V == {text(i) : i \in 1..n}
<1>1. PICK list : list = Listing(f, n - 1)
  OBVIOUS
<1>2. Listing(f, n) = [i \in 1..n |-> text(i)] /\ list = [i \in 1..(n - 1) |-> text(i)]
  BY <1>1 DEF Listing
<1>3. \A i \in 1..n : text(i) \in V
  OBVIOUS
<1> HIDE DEF text, V
<1>4. list \in Seq(V) /\ Len(list) = n - 1
  BY <1>2, <1>3
<1>5. Append(list, text(n)) = [i \in 1..n |-> text(i)]
  BY <1>2, <1>3, <1>4
<1> QED BY <1>1, <1>2, <1>5 DEF text

(* Each step of a worker of extract keeps the invariant.                   *)
LEMMA TakeFileKeeps ==
  ASSUME IInv, NEW f \in Files, TakeFile(f)
  PROVE  IInv'
<1>1. /\ cmd = "extract" /\ cmd' = "extract" /\ f \in todo /\ error = FALSE
      /\ todo' = todo \ {f} /\ Frame /\ disk' = disk /\ edit' = edit
      /\ UNCHANGED <<last, result>>
  BY DEF TakeFile, Take, Frame, IInv, DirInv, Control
<1>2. Control /\ DiskInv /\ EditInv /\ todo \subseteq Files /\ DOMAIN work \subseteq Files \ todo
  BY <1>1 DEF IInv, DirInv, Control
<1>3. DiskInv' /\ EditInv'
  BY <1>1, <1>2, DiskStays, EditStays DEF Frame
<1>4. CASE Set(f, Opened) /\ error' = error
  <2>1. DOMAIN work' = DOMAIN work \cup {f} /\ work'[f] = Opened /\ Rest(f)
    BY <1>4, WorkSet DEF Rest
  <2>2. Control'
    BY <1>1, <1>2, <1>4, <2>1, ExtractControl
  <2>3. PICK len \in Nat : len = Len(dump[f].tables)
    BY <1>2, Numbered
  <2>4. \A w : w = work'[f] => WorkerOK(f, w)'
    <3> TAKE w
    <3> HAVE w = work'[f]
    <3>1. w = [pc |-> "create", n |-> 1, listed |-> <<>>, begun |-> FALSE]
      BY <2>1 DEF Opened
    <3>2. IsWork(w) /\ w.pc = "create" /\ w.n = 1 /\ w.listed = <<>> /\ w.begun = FALSE
      BY ONLY <3>1, WorkIs
    <3>3. Listing(f, 0)' = <<>>
      BY DEF Listing
    <3>4. 1..(w.n - 1) = {} /\ w.n \in 1..(len + 1) /\ w.n - 1 = 0
      BY <3>2
    <3>5. Len(dump'[f].tables) = len
      BY <1>1, <2>3 DEF Frame
    <3> QED BY <3>2, <3>3, <3>4, <3>5 DEF WorkerOK, IsWork
  <2> QED BY <1>1, <1>3, <1>4, <2>1, <2>2, <2>4, ExtractStep
<1>5. CASE error' = TRUE /\ UNCHANGED work
  <2>1. Control'
    BY <1>1, <1>2, <1>5, ExtractControl
  <2>2. \A w : w = work'[f] => (f \in DOMAIN work' => WorkerOK(f, w)')
    BY <1>1, <1>2, <1>5
  <2> QED BY <1>1, <1>3, <1>5, <2>1, <2>2, ExtractStep DEF Rest
<1> QED BY <1>4, <1>5 DEF TakeFile

(* The table's file is torn, or it was not asked for.                      *)
LEMMA CreateTableKeeps ==
  ASSUME IInv, NEW f \in Files, CreateTable(f)
  PROVE  IInv'
<1>1. /\ cmd = "extract" /\ cmd' = "extract" /\ f \in DOMAIN work /\ work[f].pc = "create"
      /\ todo' = todo /\ Frame /\ error' = error
      /\ UNCHANGED <<last, result>>
  BY DEF CreateTable, At, Frame
<1>2. Control /\ DiskInv /\ EditInv /\ todo \subseteq Files /\ DOMAIN work \subseteq Files \ todo
      /\ error \in BOOLEAN
  BY <1>1 DEF IInv, DirInv, Control
<1>3. PICK w, len : w = work[f] /\ len = Len(dump[f].tables)
  OBVIOUS
<1>4. /\ f \in Files /\ f \notin todo /\ len \in Nat /\ Tabs(f) = 1..len
      /\ w = [pc |-> "create", n |-> w.n, listed |-> w.listed, begun |-> w.begun]
      /\ w.n \in 1..len /\ w.listed = Listing(f, w.n - 1) /\ w.begun \in BOOLEAN
      /\ \A i \in 1..(w.n - 1) : There(f, i) /\ Sound(f, i)
  <2>1. w.n <= len /\ w.pc = "create"
    BY <1>1, <1>3 DEF CreateTable
  <2> QED BY <1>1, <1>3, <2>1, WorkerIs DEF IsWork
<1>5. PICK n \in 1..len : n = w.n
  BY <1>4
<1>6. PICK list : list = Listing(f, n)
  OBVIOUS
<1>7. list = Append(w.listed, LabelText(Table(f, n).name))
  BY <1>4, <1>5, <1>6, ListingGrows
<1>8. [work[f] EXCEPT !.listed = Append(@, LabelText(Table(f, n).name))]
      = [pc |-> "create", n |-> n, listed |-> list, begun |-> w.begun]
  <2>1. PICK a, text : /\ w = [pc |-> "create", n |-> n, listed |-> a, begun |-> w.begun]
                       /\ text = LabelText(Table(f, n).name) /\ list = Append(a, text)
    BY <1>4, <1>5, <1>7
  <2>5. PICK b : b = w.begun
    OBVIOUS
  <2>2. w = [pc |-> "create", n |-> n, listed |-> a, begun |-> b]
    BY <2>1, <2>5
  <2>3. w.listed = a
    BY ONLY <2>2
  <2>4. [w EXCEPT !.listed = list] = [pc |-> "create", n |-> n, listed |-> list, begun |-> b]
    BY ONLY <2>2
  <2> QED BY <1>3, <2>1, <2>3, <2>4, <2>5
<1>9. PICK path : path = TP(f, n) /\ path = TablePath(f)
  BY <1>3, <1>5 DEF TP, TablePath
<1>10. Len(dump'[f].tables) = len /\ list = Listing(f, n)' /\ TP(f, n)' = path
       /\ n \in Tabs(f)
  BY <1>1, <1>3, <1>4, <1>6, <1>9, DumpStays, ListingStays DEF Frame
<1>11. CASE Selected(Table(f, n))
  <2>1. /\ Write(path, Torn)
        /\ edit' = IF edit.path = path THEN NoEdit ELSE edit
        /\ Set(f, [[work[f] EXCEPT !.listed = Append(@, LabelText(Table(f, n).name))]
                     EXCEPT !.pc = "write", !.begun = FALSE])
    BY <1>3, <1>5, <1>9, <1>11 DEF CreateTable
  <2>2. PICK v : v = [pc |-> "write", n |-> n, listed |-> list, begun |-> FALSE]
    OBVIOUS
  <2>3. Set(f, v)
    <3>1. PICK x : x = [pc |-> "create", n |-> n, listed |-> list, begun |-> w.begun]
      OBVIOUS
    <3>2. [x EXCEPT !.pc = "write", !.begun = FALSE] = v
      <4>1. PICK b : x = [pc |-> "create", n |-> n, listed |-> list, begun |-> b]
        BY <3>1
      <4>2. Begin(x, "write") = Begun("write", n, list)
        BY ONLY <4>1, Created
      <4> QED BY <2>2, <4>2 DEF Begin, Begun
    <3> QED BY <1>8, <2>1, <3>1, <3>2
  <2>4. DOMAIN work' = DOMAIN work \cup {f} /\ work'[f] = v /\ Rest(f)
    BY <2>3, WorkSet DEF Rest
  <2>5. OnlyAt(path, Torn)
    BY <2>1, WriteDone
  <2>6. edit' = edit \/ edit' = NoEdit
    BY <2>1
  <2>7. Control'
    BY <1>1, <1>2, <2>4, <2>6, ExtractControl
  <2>8. DiskInv' /\ EditInv'
    <3>1. JsonIn(f, n, Torn)
      BY Kinds DEF JsonIn
    <3>2. OnlyAt(TP(f, n), Torn) /\ edit' = IF edit.path = TP(f, n) THEN NoEdit ELSE edit
      BY <1>9, <2>1, <2>5
    <3> QED BY <1>1, <1>2, <1>4, <1>10, <3>1, <3>2, TableFits DEF Frame
  <2>10. /\ v.pc = "write" /\ v.n = n /\ v.listed = list /\ v.begun = FALSE /\ IsWork(v)
    BY <2>2, WorkIs
  <2>11. path \in DOMAIN disk' /\ disk'[path] = Torn /\ path # edit'.path
    <3>2. TP(f, n) # NoEdit.path
      BY Paths DEF TP
    <3>1. path # NoEdit.path
      BY <1>9, <3>2
    <3> QED BY <2>1, <2>5, <3>1 DEF OnlyAt
  <2>12. ASSUME NEW i \in 1..(n - 1)
         PROVE  There(f, i)' /\ (Sound(f, i)' \/ TP(f, i)' = path)
    <3>1. There(f, i) /\ Sound(f, i)
      BY <1>4, <1>5
    <3> QED BY <1>1, <2>5, <3>1, EarlierStay DEF Frame
  <2>9. AtWrite(f, v)'
    <3>1. Torn' = Torn
      BY DEF Torn
    <3> QED BY <1>10, <2>10, <2>11, <3>1 DEF AtWrite
  <2>13. WorkerOK(f, v)'
    <3>1. n \in 1..(len + 1) /\ n <= len
      BY <1>4, <1>5
    <3> QED BY <1>10, <2>9, <2>10, <2>12, <3>1 DEF WorkerOK, IsWork
  <2>14. \E i \in Tabs(f) : \E val : OnlyAt(TP(f, i), val)
    BY <1>9, <1>10, <2>5
  <2> QED BY <1>1, <2>4, <2>6, <2>7, <2>8, <2>13, <2>14, ExtractStep
<1>12. CASE ~Selected(Table(f, n))
  <2>1. /\ disk' = disk /\ edit' = edit
        /\ Set(f, [[work[f] EXCEPT !.listed = Append(@, LabelText(Table(f, n).name))]
                     EXCEPT !.n = @ + 1])
    BY <1>3, <1>5, <1>9, <1>12 DEF CreateTable
  <2>2. PICK v : v = [pc |-> "create", n |-> n + 1, listed |-> list, begun |-> w.begun]
    OBVIOUS
  <2>3. Set(f, v)
    <3>1. [[pc |-> "create", n |-> n, listed |-> list, begun |-> w.begun] EXCEPT !.n = @ + 1] = v
      BY <2>2
    <3> QED BY <1>8, <2>1, <3>1
  <2>4. DOMAIN work' = DOMAIN work \cup {f} /\ work'[f] = v /\ Rest(f)
    BY <2>3, WorkSet DEF Rest
  <2>5. Control' /\ DiskInv' /\ EditInv'
    BY <1>1, <1>2, <2>1, <2>4, ExtractControl, DiskStays, EditStays DEF Frame
  <2>6. /\ v.pc = "create" /\ v.n = n + 1 /\ v.listed = list /\ IsWork(v)
        /\ v.begun = w.begun
    BY <2>2, WorkIs
  <2>7. ASSUME NEW i \in 1..n PROVE There(f, i)' /\ Sound(f, i)'
    <3>1. There(f, i) /\ Sound(f, i)
      <4>1. CASE i = n
        BY <1>12, <4>1 DEF There, Sound, Asked
      <4>2. CASE i # n
        <5>1. i \in 1..(w.n - 1)
          BY <1>5, <4>2
        <5> QED BY <1>4, <5>1
      <4> QED BY <4>1, <4>2
    <3>2. Apart(f) /\ i \in Tabs(f)
      BY <1>4, <1>5, <2>1 DEF Apart
    <3> QED BY <1>1, <3>1, <3>2, TablesStay DEF Frame
  <2>8. WorkerOK(f, v)'
    <3>1. n + 1 \in 1..(len + 1) /\ (n + 1) - 1 = n
      BY <1>4, <1>5
    <3> QED BY <1>4, <1>10, <2>6, <2>7, <3>1 DEF WorkerOK, IsWork
  <2> QED BY <1>1, <2>1, <2>4, <2>5, <2>8, ExtractStep
<1> QED BY <1>11, <1>12

(* A part of what is too large for the buffer is written.                  *)
LEMMA WritePartKeeps ==
  ASSUME IInv, NEW f \in Files, WritePart(f)
  PROVE  IInv'
<1>1. /\ cmd = "extract" /\ cmd' = "extract" /\ f \in DOMAIN work
      /\ todo' = todo /\ Frame /\ edit' = edit /\ error' = error
      /\ UNCHANGED <<last, result>>
  BY DEF WritePart, At, Frame
<1>2. Control /\ DiskInv /\ EditInv /\ todo \subseteq Files /\ DOMAIN work \subseteq Files \ todo
      /\ error \in BOOLEAN
  BY <1>1 DEF IInv, DirInv, Control
<1>3. PICK w, len : w = work[f] /\ len = Len(dump[f].tables)
  OBVIOUS
<1>4. /\ f \in Files /\ f \notin todo /\ len \in Nat /\ Tabs(f) = 1..len
      /\ IsWork(w) /\ w.n \in 1..(len + 1)
      /\ w.listed = Listing(f, IF w.pc = "write" THEN w.n ELSE w.n - 1)
      /\ \A i \in 1..(w.n - 1) :
           There(f, i) /\ (Sound(f, i) \/ (w.pc = "write" /\ TP(f, i) = TP(f, w.n)))
      /\ w.pc = "write" => w.n <= len
      /\ w.pc = "schema" => w.n = len + 1
  BY <1>1, <1>3, WorkerIs
<1>5. PICK v : v = [w EXCEPT !.begun = TRUE]
  OBVIOUS
<1>6. /\ IsWork(v) /\ v.begun = TRUE
      /\ v.pc = w.pc /\ v.n = w.n /\ v.listed = w.listed
  BY <1>4, <1>5, Marked
<1>7. DOMAIN work' = DOMAIN work \cup {f} /\ work'[f] = v /\ Rest(f)
  <2>1. Set(f, v)
    BY <1>3, <1>5 DEF WritePart
  <2> QED BY <2>1, WorkSet DEF Rest
<1>8. Control'
  BY <1>1, <1>2, <1>7, ExtractControl
<1>9. /\ Large(Content(f))
      /\ \E new \in AfterPart(f, disk[Target(f)], ~work[f].begun) : Write(Target(f), new)
  BY DEF WritePart
<1>10. Len(dump'[f].tables) = len
       /\ v.listed = Listing(f, IF v.pc = "write" THEN v.n ELSE v.n - 1)'
       /\ Part(f)' = Part(f)
  BY <1>1, <1>3, <1>4, <1>6, ListingStays DEF Frame, Part
<1>11. CASE At(f, "write")
  <2>1. w.pc = "write" /\ v.pc = "write"
    BY <1>3, <1>6, <1>11 DEF At
  <2>2. PICK n \in Tabs(f) : n = w.n
    BY <1>4, <2>1
  <2>3. PICK new : /\ TableNow(f, new) /\ LargeTable(f, work[f].n)
                   /\ ~Shared(f, work[f].n) => new = Part(f)
    BY <1>9, <1>11, TableWrites
  <2>4. /\ OnlyAt(TP(f, n), new) /\ JsonIn(f, n, new) /\ TP(f, n) # edit.path
        /\ LargeTable(f, n) /\ (~Shared(f, n) => new = Part(f))
    BY <1>3, <2>2, <2>3 DEF TableNow
  <2>5. DiskInv' /\ EditInv'
    BY <1>1, <1>2, <2>2, <2>4, TableFits DEF Frame
  <2>6. ASSUME NEW i \in 1..(n - 1)
        PROVE  There(f, i)' /\ (Sound(f, i)' \/ TP(f, i)' = TP(f, n)')
    <3>1. There(f, i) /\ (Sound(f, i) \/ TP(f, i) = TP(f, n))
      BY <1>4, <2>1, <2>2
    <3>2. There(f, i)' /\ (Sound(f, i)' \/ TP(f, i)' = TP(f, n))
      BY <1>1, <2>4, <3>1, EarlierStay DEF Frame
    <3> QED BY <1>1, <3>2, DumpStays DEF Frame
  <2>7. AtWrite(f, v)'
    <3>1. /\ TP(f, n) \in DOMAIN disk' /\ TP(f, n) # edit'.path
          /\ ~Shared(f, n) => disk'[TP(f, n)] = Part(f)
      BY <1>1, <2>4 DEF OnlyAt
    <3> QED BY <1>1, <1>6, <1>10, <2>2, <2>4, <3>1, DumpStays, ListingStays, SharingStays
            DEF Frame, AtWrite
  <2>8. WorkerOK(f, v)'
    <3>1. n \in 1..(len + 1) /\ n <= len
      BY <1>4, <2>2
    <3>2. IsWork(v) /\ v.pc = "write" /\ v.n = n /\ v.begun \in BOOLEAN
      BY <1>6, <2>1, <2>2
    <3>3. v.listed = Listing(f, n)' /\ Len(dump'[f].tables) = len
      BY <1>10, <3>2
    <3> QED BY ONLY <2>6, <2>7, <3>1, <3>2, <3>3 DEF WorkerOK, IsWork
  <2>9. \E i \in Tabs(f) : \E x : OnlyAt(TP(f, i), x)
    BY <2>2, <2>4
  <2> QED BY <1>1, <1>7, <1>8, <2>5, <2>8, <2>9, ExtractStep
<1>12. CASE At(f, "schema")
  <2>1. w.pc = "schema" /\ v.pc = "schema" /\ w.n = len + 1 /\ w.n - 1 = len
    <3>1. w.pc = "schema"
      BY <1>3, <1>12 DEF At
    <3> QED BY <1>4, <1>6, <3>1
  <2>2. PICK new : /\ OnlyAt(SP(f), new) /\ SchemaIn(f, new) /\ Large(SchemaOf(f))
                   /\ Alone(f) => new = Part(f)
    BY <1>9, <1>12, SchemaWrites
  <2>3. DiskInv' /\ EditInv'
    BY <1>1, <1>2, <2>2, SchemaFits DEF Frame
  <2>4. \A i \in 1..len : There(f, i) /\ Sound(f, i)
    BY <1>4, <2>1
  <2>5. ASSUME NEW i \in 1..len PROVE There(f, i)' /\ Sound(f, i)'
    <3>1. Apart(f) /\ i \in Tabs(f)
      BY <1>4, <2>2, ApartIs
    <3> QED BY <1>1, <2>4, <3>1, TablesStay DEF Frame
  <2>6. AtSchema(f, v)'
    <3>1. SP(f) \in DOMAIN disk' /\ (Alone(f) => disk'[SP(f)] = Part(f))
      BY <2>2 DEF OnlyAt
    <3> QED BY <1>1, <1>6, <1>10, <2>2, <3>1, DumpStays, ListingStays DEF Frame, AtSchema
  <2>7. WorkerOK(f, v)'
    <3>1. len + 1 \in 1..(len + 1)
      BY <1>4
    <3> QED BY <1>6, <1>10, <2>1, <2>5, <2>6, <3>1 DEF WorkerOK, IsWork
  <2>8. (\E x : OnlyAt(SP(f), x)) /\ \A i \in Tabs(f) : There(f, i)
    BY <1>4, <2>2, <2>4
  <2> QED BY <1>1, <1>7, <1>8, <2>3, <2>7, <2>8, ExtractStep
<1> QED BY <1>11, <1>12 DEF WritePart

(* The table is written; of a file that is alone it is whole.              *)
LEMMA WriteTableKeeps ==
  ASSUME IInv, NEW f \in Files, WriteTable(f)
  PROVE  IInv'
<1>1. /\ cmd = "extract" /\ cmd' = "extract" /\ f \in DOMAIN work /\ work[f].pc = "write"
      /\ todo' = todo /\ Frame /\ edit' = edit /\ error' = error
      /\ UNCHANGED <<last, result>> /\ At(f, "write") /\ WriteRest(f)
  BY DEF WriteTable, At, Frame
<1>2. Control /\ DiskInv /\ EditInv /\ todo \subseteq Files /\ DOMAIN work \subseteq Files \ todo
      /\ error \in BOOLEAN
  BY <1>1 DEF IInv, DirInv, Control
<1>3. PICK w, len : w = work[f] /\ len = Len(dump[f].tables)
  OBVIOUS
<1>4. /\ f \in Files /\ f \notin todo /\ len \in Nat /\ Tabs(f) = 1..len
      /\ w = [pc |-> "write", n |-> w.n, listed |-> w.listed, begun |-> w.begun]
      /\ w.n \in 1..len /\ w.listed = Listing(f, w.n) /\ w.begun \in BOOLEAN
      /\ \A i \in 1..(w.n - 1) : There(f, i) /\ (Sound(f, i) \/ TP(f, i) = TP(f, w.n))
  <2>1. w.pc = "write"
    BY <1>1, <1>3
  <2> QED BY <1>1, <1>3, <2>1, WorkerIs DEF IsWork
<1>5. PICK n \in 1..len : n = w.n
  BY <1>4
<1>6. PICK list, begun : /\ list = Listing(f, n) /\ begun \in BOOLEAN
                         /\ w = [pc |-> "write", n |-> n, listed |-> list, begun |-> begun]
  BY <1>4, <1>5
<1>7. PICK path : path = TP(f, n)
  OBVIOUS
<1>8. Len(dump'[f].tables) = len /\ list = Listing(f, n)' /\ TP(f, n)' = path /\ n \in Tabs(f)
  BY <1>1, <1>3, <1>4, <1>6, <1>7, DumpStays, ListingStays DEF Frame
<1>9. PICK new : TableNow(f, new) /\ (~Shared(f, work[f].n) => new.kind = "json")
  BY <1>1, TableWrites
<1>10. /\ OnlyAt(path, new) /\ JsonIn(f, n, new) /\ path # edit.path
       /\ ~Shared(f, n) => new.kind = "json"
  BY <1>3, <1>5, <1>7, <1>9 DEF TableNow
<1>11. PICK v : v = [pc |-> "create", n |-> n + 1, listed |-> list, begun |-> begun]
  OBVIOUS
<1>12. Set(f, v)
  <2>1. w = [pc |-> "write", n |-> n, listed |-> list, begun |-> begun]
    BY <1>6
  <2>2. PICK m : m = n + 1
    OBVIOUS
  <2>3. PICK x : x = [w EXCEPT !.pc = "create"]
    OBVIOUS
  <2>4. x = [pc |-> "create", n |-> n, listed |-> list, begun |-> begun]
    BY ONLY <2>1, <2>3
  <2>5. [x EXCEPT !.n = m] = [pc |-> "create", n |-> m, listed |-> list, begun |-> begun]
    BY ONLY <2>4
  <2>6. [w EXCEPT !.pc = "create", !.n = m] = [x EXCEPT !.n = m]
    BY ONLY <2>1, <2>3
  <2>7. w.n + 1 = m
    BY <1>5, <2>2
  <2>8. Set(f, [w EXCEPT !.pc = "create", !.n = m])
    BY <1>3, <2>7 DEF WriteTable
  <2> QED BY <1>11, <2>2, <2>5, <2>6, <2>8
<1>13. DOMAIN work' = DOMAIN work \cup {f} /\ work'[f] = v /\ Rest(f)
  BY <1>12, WorkSet DEF Rest
<1>14. Control'
  BY <1>1, <1>2, <1>13, ExtractControl
<1>15. DiskInv' /\ EditInv'
  BY <1>1, <1>2, <1>7, <1>8, <1>10, TableFits DEF Frame
<1>16. v.pc = "create" /\ v.n = n + 1 /\ v.listed = list /\ v.begun = begun /\ IsWork(v)
  BY <1>11, WorkIs
<1>17. ASSUME NEW i \in 1..n PROVE There(f, i)' /\ Sound(f, i)'
  <2>1. ASSUME TP(f, i) = path PROVE There(f, i)' /\ Sound(f, i)'
    <3>1. path \in DOMAIN disk' /\ (Alone(f) => disk'[path].kind = "json")
      BY <1>4, <1>10, AloneIs DEF OnlyAt
    <3> QED BY <1>1, <2>1, <3>1, DumpStays DEF Frame, There, Sound
  <2>2. CASE TP(f, i) # path
    <3>1. i # n
      BY <1>7, <2>2
    <3>2. i \in 1..(n - 1)
      BY <1>4, <3>1
    <3>3. There(f, i) /\ Sound(f, i)
      BY <1>4, <1>5, <1>7, <2>2, <3>2
    <3>4. There(f, i)' /\ (Sound(f, i)' \/ TP(f, i)' = path)
      BY <1>1, <1>10, <3>3, EarlierStay DEF Frame
    <3> QED BY <1>1, <2>2, <3>4, DumpStays DEF Frame
  <2> QED BY <2>1, <2>2
<1>18. WorkerOK(f, v)'
  <2>1. n + 1 \in 1..(len + 1) /\ (n + 1) - 1 = n
    BY <1>4, <1>5
  <2> QED BY <1>6, <1>8, <1>16, <1>17, <2>1 DEF WorkerOK, IsWork
<1>19. \E i \in Tabs(f) : \E x : OnlyAt(TP(f, i), x)
  BY <1>7, <1>8, <1>10
<1> QED BY <1>1, <1>13, <1>14, <1>15, <1>18, <1>19, ExtractStep

(* All tables are there when the schema is created.                        *)
LEMMA TablesThere ==
  ASSUME IInv, cmd = "extract", NEW f \in DOMAIN work,
         work[f].pc = "schema" \/ (work[f].pc = "create" /\ TablesWritten(f))
  PROVE  /\ f \in Files /\ f \notin todo /\ Len(dump[f].tables) \in Nat
         /\ Tabs(f) = 1..Len(dump[f].tables)
         /\ work[f].n = Len(dump[f].tables) + 1 /\ work[f].n - 1 = Len(dump[f].tables)
         /\ work[f].listed = Listing(f, Len(dump[f].tables))
         /\ IsWork(work[f]) /\ work[f].begun \in BOOLEAN
         /\ \A i \in Tabs(f) : There(f, i) /\ Sound(f, i)
<1>1. PICK w, len : w = work[f] /\ len = Len(dump[f].tables)
  OBVIOUS
<1>2. /\ f \in Files /\ f \notin todo /\ len \in Nat /\ Tabs(f) = 1..len
      /\ IsWork(w) /\ w.begun \in BOOLEAN /\ w.n \in 1..(len + 1)
      /\ w.listed = Listing(f, IF w.pc = "write" THEN w.n ELSE w.n - 1)
      /\ \A i \in 1..(w.n - 1) :
           There(f, i) /\ (Sound(f, i) \/ (w.pc = "write" /\ TP(f, i) = TP(f, w.n)))
      /\ w.pc = "schema" => w.n = len + 1
  BY <1>1, WorkerIs
<1>3. w.n = len + 1 /\ w.n - 1 = len /\ w.pc # "write"
  <2>1. w.pc # "write" /\ (w.pc = "schema" \/ w.n > len)
    BY <1>1 DEF TablesWritten
  <2> QED BY <1>2, <2>1
<1> QED BY <1>1, <1>2, <1>3

LEMMA CreateSchemaKeeps ==
  ASSUME IInv, NEW f \in Files, CreateSchema(f)
  PROVE  IInv'
<1>1. /\ cmd = "extract" /\ cmd' = "extract" /\ f \in DOMAIN work /\ work[f].pc = "create"
      /\ todo' = todo /\ Frame /\ edit' = edit /\ error' = error
      /\ UNCHANGED <<last, result>> /\ TablesWritten(f)
  BY DEF CreateSchema, At, Frame
<1>2. Control /\ DiskInv /\ EditInv /\ todo \subseteq Files /\ DOMAIN work \subseteq Files \ todo
      /\ error \in BOOLEAN
  BY <1>1 DEF IInv, DirInv, Control
<1>3. PICK w, len : w = work[f] /\ len = Len(dump[f].tables)
  OBVIOUS
<1>4. /\ f \in Files /\ f \notin todo /\ len \in Nat /\ Tabs(f) = 1..len
      /\ w.n = len + 1 /\ w.listed = Listing(f, len) /\ IsWork(w) /\ w.begun \in BOOLEAN
      /\ \A i \in 1..len : There(f, i) /\ Sound(f, i)
  BY <1>1, <1>3, TablesThere
<1>5. CASE options.noSchema
  <2>1. Done(f) /\ disk' = disk
    BY <1>5 DEF CreateSchema
  <2>2. DOMAIN work' = DOMAIN work \ {f} /\ Rest(f)
    BY <2>1, WorkDone DEF Rest
  <2>3. Control' /\ DiskInv' /\ EditInv'
    BY <1>1, <1>2, <2>1, <2>2, ExtractControl, DiskStays, EditStays DEF Frame
  <2>4. AllWritten(f)'
    <3>1. AllWritten(f) /\ Apart(f)
      BY <1>4, <1>5, <2>1 DEF AllWritten, Apart
    <3> QED BY <1>1, <3>1, TablesStay DEF Frame
  <2> QED BY <1>1, <2>1, <2>2, <2>3, <2>4, ExtractStep
<1>6. CASE ~options.noSchema
  <2>1. Write(SP(f), Torn) /\ Set(f, [work[f] EXCEPT !.pc = "schema", !.begun = FALSE])
    BY <1>6 DEF CreateSchema, SP
  <2>2. PICK n, list, begun :
          /\ w = [pc |-> "create", n |-> n, listed |-> list, begun |-> begun]
          /\ n = len + 1 /\ list = Listing(f, len)
    BY <1>1, <1>3, <1>4 DEF IsWork
  <2>12. PICK v : v = [pc |-> "schema", n |-> n, listed |-> list, begun |-> FALSE]
    OBVIOUS
  <2>3. Set(f, v)
    <3>1. w = [pc |-> "create", n |-> n, listed |-> list, begun |-> begun]
      BY <2>2
    <3>2. Begin(w, "schema") = Begun("schema", n, list)
      BY ONLY <3>1, Created
    <3>3. Set(f, Begin(w, "schema"))
      BY <1>3, <2>1 DEF Begin
    <3> QED BY <2>12, <3>2, <3>3 DEF Begun
  <2>4. DOMAIN work' = DOMAIN work \cup {f} /\ work'[f] = v /\ Rest(f)
    BY <2>3, WorkSet DEF Rest
  <2>5. OnlyAt(SP(f), Torn)
    BY <2>1, WriteDone
  <2>6. Control'
    BY <1>1, <1>2, <2>4, ExtractControl
  <2>7. DiskInv' /\ EditInv'
    <3>1. SchemaIn(f, Torn)
      BY Kinds DEF SchemaIn
    <3> QED BY <1>1, <1>2, <2>5, <3>1, SchemaFits DEF Frame
  <2>9. v.pc = "schema" /\ v.n = len + 1 /\ v.listed = list /\ v.begun = FALSE /\ IsWork(v)
    <3>1. v.pc = "schema" /\ v.n = n /\ v.listed = list /\ v.begun = FALSE /\ IsWork(v)
      BY <2>12, WorkIs
    <3> QED BY <2>2, <3>1
  <2>10. WorkerOK(f, v)'
    <3>1. Apart(f) /\ \A i \in 1..len : i \in Tabs(f)
      BY <1>4, <2>5, ApartIs
    <3>2. \A i \in 1..len : There(f, i)' /\ Sound(f, i)'
      BY <1>1, <1>4, <3>1, TablesStay DEF Frame
    <3>3. len + 1 \in 1..(len + 1) /\ (len + 1) - 1 = len
      BY <1>4
    <3>4. Listing(f, len)' = list /\ SP(f)' \in DOMAIN disk' /\ Len(dump'[f].tables) = len
      BY <1>1, <1>3, <2>2, <2>5, DumpStays, ListingStays DEF Frame, OnlyAt
    <3>5. AtSchema(f, v)'
      <4>1. disk'[SP(f)] = Torn /\ Torn' = Torn
        BY <2>5 DEF OnlyAt, Torn
      <4> QED BY <1>1, <2>9, <3>4, <4>1, DumpStays DEF Frame, AtSchema
    <3> QED BY <2>9, <3>2, <3>3, <3>4, <3>5 DEF WorkerOK, IsWork
  <2>11. \A i \in Tabs(f) : There(f, i)
    BY <1>4
  <2> QED BY <1>1, <2>4, <2>5, <2>6, <2>7, <2>10, <2>11, ExtractStep
<1> QED BY <1>5, <1>6

(* An error here passes unnoticed: the schema is torn, its tables are      *)
(* there.                                                                  *)
LEMMA WriteSchemaKeeps ==
  ASSUME IInv, NEW f \in Files, WriteSchema(f)
  PROVE  IInv'
<1>1. /\ cmd = "extract" /\ cmd' = "extract" /\ f \in DOMAIN work /\ work[f].pc = "schema"
      /\ todo' = todo /\ Frame /\ edit' = edit /\ error' = error /\ At(f, "schema")
      /\ UNCHANGED <<last, result>> /\ Done(f) /\ (WriteRest(f) \/ disk' = disk)
  BY DEF WriteSchema, At, Frame
<1>2. Control /\ DiskInv /\ EditInv /\ todo \subseteq Files /\ DOMAIN work \subseteq Files \ todo
      /\ error \in BOOLEAN
  BY <1>1 DEF IInv, DirInv, Control
<1>3. /\ f \in Files /\ f \notin todo
      /\ \A i \in Tabs(f) : There(f, i) /\ Sound(f, i)
  BY <1>1, TablesThere
<1>4. SP(f) \in DOMAIN disk
  <2>1. PICK w : w = work[f]
    OBVIOUS
  <2>2. AtSchema(f, w)
    BY <1>1, <2>1, WorkerIs
  <2> QED BY <2>2 DEF AtSchema
<1>5. DOMAIN work' = DOMAIN work \ {f} /\ Rest(f)
  BY <1>1, WorkDone DEF Rest
<1>6. Control'
  BY <1>1, <1>2, <1>5, ExtractControl
<1>7. disk' = disk \/ \E val : OnlyAt(SP(f), val) /\ SchemaIn(f, val)
  BY <1>1, SchemaWrites
<1>8. DiskInv' /\ EditInv'
  <2>1. CASE disk' = disk
    BY <1>1, <1>2, <2>1, DiskStays, EditStays DEF Frame
  <2>2. ASSUME NEW val, OnlyAt(SP(f), val), SchemaIn(f, val) PROVE DiskInv' /\ EditInv'
    BY <1>1, <1>2, <2>2, SchemaFits DEF Frame
  <2> QED BY <1>7, <2>1, <2>2
<1>10. AllWritten(f)'
  <2>1. AllWritten(f)
    BY <1>3, <1>4 DEF AllWritten
  <2>2. Apart(f)
    BY <1>7, ApartIs DEF Apart
  <2> QED BY <1>1, <2>1, <2>2, TablesStay DEF Frame
<1>11. \A i \in Tabs(f) : There(f, i)
  BY <1>3
<1>12. disk' = disk \/ \E val : OnlyAt(SP(f), val)
  BY <1>7
<1> QED BY <1>1, <1>5, <1>6, <1>8, <1>10, <1>11, <1>12, ExtractStep

(* A worker fails, and what it was at may still be written.                *)
LEMMA ExtractFailsKeeps ==
  ASSUME IInv, NEW f \in Files, ExtractFails(f)
  PROVE  IInv'
<1>1. /\ cmd = "extract" /\ cmd' = "extract" /\ f \in DOMAIN work
      /\ todo' = todo /\ Frame /\ edit' = edit /\ error' = TRUE
      /\ UNCHANGED <<last, result>> /\ Done(f)
      /\ (At(f, "write") /\ WriteRest(f)) \/ disk' = disk
  BY DEF ExtractFails, At, Frame, Fail
<1>2. Control /\ DiskInv /\ EditInv /\ todo \subseteq Files /\ DOMAIN work \subseteq Files \ todo
  BY <1>1 DEF IInv, DirInv, Control
<1>3. DOMAIN work' = DOMAIN work \ {f} /\ Rest(f)
  BY <1>1, WorkDone DEF Rest
<1>4. Control'
  BY <1>1, <1>2, <1>3, ExtractControl
<1>5. CASE disk' = disk
  <2>1. DiskInv' /\ EditInv'
    BY <1>1, <1>2, <1>5, DiskStays, EditStays DEF Frame
  <2> QED BY <1>1, <1>3, <1>4, <1>5, <2>1, ExtractStep
<1>6. CASE At(f, "write") /\ WriteRest(f)
  <2>1. PICK new : TableNow(f, new)
    BY <1>6, TableWrites
  <2>2. PICK n \in Tabs(f) : OnlyAt(TP(f, n), new) /\ JsonIn(f, n, new) /\ TP(f, n) # edit.path
    BY <2>1 DEF TableNow
  <2>3. DiskInv' /\ EditInv'
    BY <1>1, <1>2, <2>2, TableFits DEF Frame
  <2>4. \E i \in Tabs(f) : \E x : OnlyAt(TP(f, i), x)
    BY <2>2
  <2> QED BY <1>1, <1>3, <1>4, <2>3, <2>4, ExtractStep
<1> QED BY <1>1, <1>5, <1>6

(* What the workers of pack have at hand.                                  *)
LEMMA PackRunning ==
  ASSUME IInv, cmd = "pack"
  PROVE  /\ todo \subseteq Schemas /\ DOMAIN work \subseteq Schemas \ todo /\ error \in BOOLEAN
         /\ \A s \in DOMAIN work : \A w : w = work[s] => PackerOK(s, w)
BY DEF IInv, DirInv, Control, PackWork

(* What is taken from the schemas that are left, or set to work on.        *)
Left(s) ==
  /\ DOMAIN work' \cap todo' = {}
  /\ (Schemas \ todo') \ DOMAIN work' \subseteq ((Schemas \ todo) \ DOMAIN work) \cup {s}

(* Each step of a worker of pack keeps the invariant.                      *)
LEMMA TakeSchemaKeeps ==
  ASSUME IInv, NEW s, TakeSchema(s)
  PROVE  IInv'
<1>1. /\ cmd = "pack" /\ cmd' = "pack" /\ s \in todo /\ error = FALSE
      /\ todo' = todo \ {s} /\ Frame /\ disk' = disk /\ UNCHANGED <<edit, last, result>>
  BY DEF TakeSchema, Take, Frame, IInv, DirInv, Control
<1>2. todo \subseteq Schemas /\ DOMAIN work \subseteq Schemas \ todo /\ s \in Schemas
  BY <1>1, PackRunning
<1>3. CASE error' = TRUE /\ work' = work
  <2>1. Rest(s) /\ s \notin DOMAIN work' /\ Left(s)
    BY <1>1, <1>2, <1>3 DEF Rest, Left
  <2> QED BY <1>1, <1>2, <1>3, <2>1, PackStep DEF Left
<1>4. ASSUME NEW tables, Set(s, [pc |-> "create", tables |-> tables]), error' = error,
             ~Broken(disk[SchemaPath(s)]), GoodFor(s, AsWritten(tables))
      PROVE  IInv'
  <2>1. PICK v : v = [pc |-> "create", tables |-> tables]
    OBVIOUS
  <2>2. DOMAIN work' = DOMAIN work \cup {s} /\ work'[s] = v /\ Rest(s)
    BY <1>4, <2>1, WorkSet DEF Rest
  <2>3. PackerOK(s, v)
    <3>1. v = [pc |-> v.pc, tables |-> v.tables] /\ v.tables = tables
      BY ONLY <2>1
    <3> QED BY <1>4, <3>1 DEF PackerOK
  <2>4. Left(s)
    BY <1>1, <1>2, <2>2 DEF Left
  <2>5. error' \in BOOLEAN
    BY <1>1, <1>4
  <2> QED BY <1>1, <1>2, <2>2, <2>3, <2>4, <2>5, PackStep DEF Left
<1>5. CASE disk[SchemaPath(s)] = Mixed /\ ReadByMixed(s)
  <2>1. \A tables : ~Broken(disk[SchemaPath(s)]) /\ GoodFor(s, AsWritten(tables))
    BY <1>2, <1>5, MixedGood DEF IInv, DirInv
  <2>2. \/ error' = TRUE /\ work' = work
        \/ \E tables : Set(s, [pc |-> "create", tables |-> tables]) /\ error' = error
    BY <1>5 DEF ReadByMixed
  <2> QED BY <1>3, <1>4, <2>1, <2>2
<1>6. CASE disk[SchemaPath(s)].kind = "schema" /\ ReadTables(s, Found(s))
  <2>1. \/ error' = TRUE /\ work' = work
        \/ /\ ~Refusal(s) /\ error' = error
           /\ Set(s, [pc |-> "create", tables |-> Packed(s, Found(s))])
    BY <1>6 DEF ReadTables, Refusal
  <2>2. PICK tables : tables = Packed(s, Found(s))
    OBVIOUS
  <2>3. ~Refusal(s) => ~Broken(disk[SchemaPath(s)]) /\ GoodFor(s, AsWritten(tables))
    BY <1>2, <2>2, PackedGood DEF IInv, DirInv
  <2> QED BY <1>3, <1>4, <2>1, <2>2, <2>3
<1> QED BY <1>3, <1>5, <1>6 DEF TakeSchema

(* The packed file is torn while its worker has the tables.                *)
LEMMA CreateBdatKeeps ==
  ASSUME IInv, NEW s, CreateBdat(s)
  PROVE  IInv'
<1>1. /\ cmd = "pack" /\ cmd' = "pack" /\ s \in DOMAIN work /\ error' = error
      /\ todo' = todo /\ Frame /\ UNCHANGED <<edit, last, result>>
  BY DEF CreateBdat, AtPack, Frame
<1>2. todo \subseteq Schemas /\ DOMAIN work \subseteq Schemas \ todo /\ error \in BOOLEAN
  BY <1>1, PackRunning
<1>3. OnlyAt(BdatPath(s), Torn)
  BY WriteDone DEF CreateBdat
<1>4. PICK w : w = work[s]
  OBVIOUS
<1>5. PackerOK(s, w)
  BY <1>1, <1>4, PackRunning
<1>6. PICK a, tables : w = [pc |-> a, tables |-> tables]
  BY <1>5 DEF PackerOK
<1>7. PICK v : v = [pc |-> "write", tables |-> tables]
  OBVIOUS
<1>8. [w EXCEPT !.pc = "write"] = [pc |-> "write", tables |-> tables]
  BY ONLY <1>6
<1>9. DOMAIN work' = DOMAIN work \cup {s} /\ work'[s] = v /\ Rest(s)
  BY <1>4, <1>7, <1>8, WorkSet DEF CreateBdat, Rest
<1>10. PackerOK(s, v)
  <2>1. v.tables = tables /\ v = [pc |-> v.pc, tables |-> v.tables]
    BY ONLY <1>7
  <2>2. w.tables = tables
    BY ONLY <1>6
  <2> QED BY <1>5, <2>1, <2>2 DEF PackerOK
<1>11. s \in Schemas /\ Left(s)
  BY <1>1, <1>2, <1>9 DEF Left
<1> QED BY <1>1, <1>2, <1>3, <1>9, <1>10, <1>11, PackStep DEF Left

(* It is whole when the worker is done, or there is an error.              *)
LEMMA WriteBdatKeeps ==
  ASSUME IInv, NEW s, WriteBdat(s) \/ PackFails(s)
  PROVE  IInv'
<1>1. /\ cmd = "pack" /\ cmd' = "pack" /\ s \in DOMAIN work
      /\ todo' = todo /\ Frame /\ UNCHANGED <<edit, last, result>>
      /\ \/ Write(BdatPath(s), BdatOf(work[s].tables)) /\ error' = error
         \/ error' = TRUE /\ disk' = disk
      /\ Done(s)
  BY DEF WriteBdat, PackFails, AtPack, Frame, Fail
<1>2. todo \subseteq Schemas /\ DOMAIN work \subseteq Schemas \ todo /\ error \in BOOLEAN
  BY <1>1, PackRunning
<1>3. DOMAIN work' = DOMAIN work \ {s} /\ Rest(s)
  BY <1>1, WorkDone DEF Rest
<1>4. PICK w : w = work[s]
  OBVIOUS
<1>5. PackerOK(s, w)
  BY <1>1, <1>4, PackRunning
<1>6. PICK tables : tables = AsWritten(w.tables)
  OBVIOUS
<1>7. GoodFor(s, tables) /\ ~Broken(disk[SchemaPath(s)])
  BY <1>5, <1>6 DEF PackerOK
<1>8. BdatOf(w.tables) = Bdat(tables)
  BY <1>6 DEF BdatOf, AsWritten
<1>9. \/ OnlyAt(BdatPath(s), Bdat(tables)) /\ error' = error
      \/ error' = TRUE /\ disk' = disk
  BY <1>1, <1>4, <1>8, WriteDone
<1>10. /\ s \in Schemas /\ s \notin DOMAIN work' /\ Left(s)
       /\ error' \in BOOLEAN /\ (error' = FALSE => error = FALSE)
  BY <1>1, <1>2, <1>3, <1>9 DEF Left
<1> QED BY <1>1, <1>3, <1>7, <1>9, <1>10, PackStep DEF Left
-----------------------------------------------------------------------------
(* Steps that change no file.                                              *)
LEMMA Quiet ==
  ASSUME IInv, dump' = dump, disk' = disk, options' = options, edit' = edit,
         extracts' = extracts
  PROVE  /\ DiskInv' /\ EditInv' /\ TablesFirst' /\ PackedOnce' /\ Schemas' = Schemas
         /\ \A f : AllWritten(f) => AllWritten(f)'
         /\ extracted' = extracted =>
              Extracted' /\ \A s : PackedOK(s) => PackedOK(s)'
<1>1. DiskInv' /\ EditInv'
  BY DiskStays, EditStays DEF IInv, DirInv
<1>2. TablesFirst'
  BY DumpStays, OptionsStay DEF IInv, TablesFirst, There
<1>3. PackedOnce'
  BY PackedStays DEF IInv
<1>4. Schemas' = Schemas
  BY DEF Schemas, Files
<1>5. \A f : AllWritten(f) => AllWritten(f)'
  BY TablesStay DEF Apart
<1>6. ASSUME extracted' = extracted PROVE Extracted'
  BY <1>6, DumpStays, OptionsStay DEF IInv, Extracted, There
<1>7. ASSUME extracted' = extracted, NEW s, PackedOK(s) PROVE PackedOK(s)'
  BY <1>7, GoodStays DEF PackedOK, Broken
<1> QED BY <1>1, <1>2, <1>3, <1>4, <1>5, <1>6, <1>7

(* Pack begins, or fails for lack of schemas.                              *)
LEMMA StartPackKeeps == IInv /\ StartPack => IInv'
<1> SUFFICES ASSUME IInv, StartPack PROVE IInv'
  OBVIOUS
<1>1. /\ cmd = "idle" /\ todo' = Schemas /\ error' = FALSE
      /\ UNCHANGED <<dump, disk, options, work, edit, extracted, extracts>>
      /\ \/ Schemas = {} /\ last' = "pack" /\ result' = "error" /\ cmd' = "idle"
         \/ Schemas # {} /\ cmd' = "pack" /\ UNCHANGED <<last, result>>
  BY DEF StartPack
<1>2. Control /\ DOMAIN work = {}
  BY <1>1 DEF IInv, DirInv, Control
<1>3. Control'
  BY <1>1, <1>2, Quiet DEF Control
<1>4. ExtractWork' /\ ExtractDone' /\ PackWork' /\ PackDone'
  BY <1>1, <1>2, Quiet DEF ExtractWork, ExtractDone, Extracting, PackWork, PackDone, Packing
<1> QED BY <1>1, <1>3, <1>4, Quiet DEF IInv, DirInv

(* Before the first extract there are no files, and no edits.              *)
LEMMA NoFiles ==
  ASSUME IInv, extracts = 0
  PROVE  DOMAIN disk = {} /\ edit = NoEdit
BY DEF IInv, DirInv, Control, EditInv

(* Extract begins: nothing is asked of what it is about to replace.        *)
LEMMA StartExtractKeeps == IInv /\ StartExtract => IInv'
<1> SUFFICES ASSUME IInv, StartExtract PROVE IInv'
  OBVIOUS
<1>1. /\ cmd = "idle" /\ cmd' = "extract" /\ todo' = Files /\ error' = FALSE
      /\ extracted' = "none" /\ extracts' = extracts + 1
      /\ UNCHANGED <<dump, disk, work, last, result, edit>>
  BY DEF StartExtract
<1>2. Control /\ DOMAIN work = {} /\ extracts \in Nat
  BY <1>1 DEF IInv, DirInv, Control
<1>3. extracts' = 1 => DOMAIN disk' = {} /\ edit' = NoEdit
  BY <1>1, <1>2, NoFiles
<1>4. extracts' \in Nat /\ extracts' # 0
  BY <1>1, <1>2
<1>5. Files' = Files /\ NoEdit' = NoEdit
  BY <1>1, DumpStays DEF NoEdit
<1>6. Control'
  BY <1>1, <1>2, <1>3, <1>4, <1>5 DEF Control
<1>7. DiskInv' /\ EditInv'
  BY <1>1, DiskStays, EditStays DEF IInv, DirInv
<1>8. ExtractWork' /\ ExtractDone' /\ PackWork' /\ PackDone' /\ Extracted'
  BY <1>1, <1>2, <1>5 DEF ExtractWork, ExtractDone, PackWork, PackDone, Packing, Extracted
<1>9. TablesFirst' /\ PackedOnce'
  BY <1>3 DEF TablesFirst, PackedOnce, PackedFile
<1> QED BY <1>6, <1>7, <1>8, <1>9 DEF IInv, DirInv

(* A command ends: with success only if all is done.                       *)
LEMMA FinishKeeps == IInv /\ Finish => IInv'
<1> SUFFICES ASSUME IInv, Finish PROVE IInv'
  OBVIOUS
<1>1. /\ cmd # "idle" /\ work = Empty /\ cmd' = "idle" /\ last' = cmd /\ todo' = {}
      /\ result' = IF error THEN "error" ELSE "ok"
      /\ extracted' = IF cmd = "extract" THEN result' ELSE extracted
      /\ UNCHANGED <<dump, disk, options, work, error, edit, extracts>>
      /\ todo = {} \/ error
  BY DEF Finish, Over
<1>2. Control /\ DOMAIN work = {} /\ error \in BOOLEAN /\ cmd \in {"extract", "pack"}
  BY <1>1 DEF IInv, DirInv, Control, Empty
<1>3. Control'
  BY <1>1, <1>2 DEF Control
<1>4. ASSUME cmd = "extract", result' = "ok" PROVE \A f \in Files : AllWritten(f)'
  <2>1. error = FALSE /\ todo = {}
    BY <1>1, <1>2, <1>4
  <2>2. \A f \in Files : AllWritten(f)
    BY <1>2, <1>4, <2>1 DEF IInv, ExtractDone, Extracting
  <2> QED BY <1>1, <2>2, Quiet
<1>5. ExtractDone'
  <2>1. Files' = Files
    BY <1>1, DumpStays
  <2> QED BY <1>1, <1>4, <2>1 DEF ExtractDone, Extracting
<1>6. Extracted'
  <2>1. CASE cmd = "extract"
    <3> SUFFICES ASSUME result' = "ok", NEW f \in Files'
                 PROVE  /\ \A i \in Tabs(f)' : There(f, i)'
                        /\ ~options'.noSchema => SP(f)' \in DOMAIN disk'
      BY <1>1, <2>1 DEF Extracted
    <3>1. f \in Files
      BY <1>1, DumpStays
    <3> QED BY <1>4, <2>1, <3>1 DEF AllWritten
  <2>2. CASE cmd # "extract"
    BY <1>1, <2>2, Quiet
  <2> QED BY <2>1, <2>2
<1>7. PackDone'
  <2> SUFFICES ASSUME cmd = "pack", result' = "ok", NEW s \in Schemas' PROVE PackedOK(s)'
    BY <1>1 DEF PackDone, Packing
  <2>1. error = FALSE /\ todo = {} /\ s \in Schemas /\ extracted' = extracted
    BY <1>1, <1>2, Quiet
  <2>2. PackedOK(s)
    BY <1>2, <2>1 DEF IInv, PackDone, Packing
  <2> QED BY <1>1, <2>1, <2>2, Quiet
<1>8. ExtractWork' /\ PackWork'
  BY <1>1 DEF ExtractWork, PackWork
<1> QED BY <1>1, <1>3, <1>5, <1>6, <1>7, <1>8, Quiet DEF IInv, DirInv

(* A command is killed.                                                    *)
LEMMA CrashKeeps == IInv /\ Crash => IInv'
<1> SUFFICES ASSUME IInv, Crash PROVE IInv'
  OBVIOUS
<1>1. /\ cmd' = "idle" /\ result' = "killed" /\ work' = Empty /\ todo' = {}
      /\ UNCHANGED <<dump, disk, options, error, edit, extracted, extracts>>
  BY DEF Crash
<1>2. Control /\ DOMAIN work' = {}
  BY <1>1 DEF IInv, DirInv, Empty
<1>3. Control'
  BY <1>1, <1>2 DEF Control
<1>4. ExtractWork' /\ ExtractDone' /\ PackWork' /\ PackDone'
  BY <1>1 DEF ExtractWork, ExtractDone, Extracting, PackWork, PackDone, Packing
<1> QED BY <1>1, <1>3, <1>4, Quiet DEF IInv, DirInv

(* Nothing happens.                                                        *)
LEMMA StutterKeeps == IInv /\ UNCHANGED vars => IInv'
<1> SUFFICES ASSUME IInv, UNCHANGED vars PROVE IInv'
  OBVIOUS
<1> USE DEF vars
<1>1. Control /\ Control'
  BY Quiet, DumpStays DEF IInv, DirInv, Control, NoEdit
<1>2. ExtractWork'
  <2> SUFFICES ASSUME cmd = "extract", NEW f \in DOMAIN work, NEW w, w = work[f]
               PROVE  WorkerOK(f, w)'
    BY DEF ExtractWork
  <2>1. WorkerOK(f, w) /\ f \in Files
    BY <1>1 DEF IInv, ExtractWork, Control
  <2> QED BY <1>1, <2>1, WorkerStays DEF Away
<1>3. ExtractDone'
  BY Quiet, DumpStays DEF IInv, ExtractDone, Extracting
<1>4. PackWork'
  <2> SUFFICES ASSUME cmd = "pack", NEW s \in DOMAIN work, NEW w, w = work[s]
               PROVE  PackerOK(s, w)'
    BY DEF PackWork
  <2>1. PackerOK(s, w)
    BY DEF IInv, PackWork
  <2>2. PICK tables : tables = AsWritten(w.tables)
    OBVIOUS
  <2>3. AsWritten(w.tables)' = tables
    BY <2>2 DEF AsWritten
  <2>4. GoodFor(s, tables)'
    BY <2>1, <2>2, GoodStays DEF PackerOK
  <2> QED BY <2>1, <2>3, <2>4 DEF PackerOK, Broken
<1>5. PackDone'
  BY Quiet DEF IInv, PackDone, Packing
<1> QED BY <1>1, <1>2, <1>3, <1>4, <1>5, Quiet DEF IInv, DirInv

(* The user edits a table.                                                 *)
LEMMA EditKeeps ==
  ASSUME IInv, NEW path \in DOMAIN disk, Edit(path)
  PROVE  IInv'
<1>1. /\ cmd = "idle" /\ edit = NoEdit /\ disk[path].kind = "json"
      /\ disk[path].json.typed /\ last' = "edit" /\ result' = "none"
      /\ UNCHANGED <<dump, cmd, options, todo, work, error, extracted, extracts>>
  BY DEF Edit
<1>2. Control /\ DiskInv /\ EditInv /\ DOMAIN work = {}
  BY <1>1 DEF IInv, DirInv, Control
<1>3. PICK e \in Edits(disk[path].json) :
        /\ Write(path, [disk[path] EXCEPT !.json = e.json])
        /\ edit' = [path |-> path, row |-> e.row, name |-> e.name]
  BY DEF Edit
<1> DEFINE here(f, i) == path = TP(f, i) /\ (path = edit.path \/ JsonIn(f, i, disk[path]))
<1>4. PICK f \in Files : \E i \in Tabs(f) : here(f, i)
  <2>1. \A g : ~SchemaIn(g, disk[path])
    BY <1>1, Kinds DEF SchemaIn, Broken
  <2>2. JsonFile(path)
    BY <1>1, <1>2, <2>1 DEF DiskInv, SchemaFile, BdatFile
  <2> QED BY <2>2 DEF JsonFile
<1>5. PICK i \in Tabs(f) : here(f, i)
  BY <1>4
<1>6. PICK typed \in BOOLEAN : disk[path] = JsonOf(f, i, typed)
  <2>1. TP(f, i) # NoEdit.path
    BY Paths DEF TP
  <2>2. JsonIn(f, i, disk[path])
    BY <1>1, <1>5, <2>1
  <2> QED BY <1>1, <2>2, Kinds DEF JsonIn, Broken
<1>7. PICK json, new : json = ToJson(Table(f, i), typed) /\ new = e.json
  OBVIOUS
<1>8. disk[path] = [kind |-> "json", json |-> json]
  BY <1>6, <1>7 DEF JsonOf, Json
<1>9. disk[path].json = json /\ [disk[path] EXCEPT !.json = new] = [kind |-> "json", json |-> new]
  <2>1. PICK file : file = disk[path]
    OBVIOUS
  <2>2. file = [kind |-> "json", json |-> json]
    BY <1>8, <2>1
  <2>3. file.json = json /\ [file EXCEPT !.json = new] = [kind |-> "json", json |-> new]
    BY ONLY <2>2
  <2> QED BY <2>1, <2>3
<1>10. typed = TRUE
  <2>1. PICK a, b : json = [typed |-> typed, schema |-> a, rows |-> b]
    BY <1>7 DEF ToJson
  <2>2. json.typed = typed
    BY ONLY <2>1
  <2> QED BY <1>1, <1>9, <2>2
<1>11. PICK val : val = [kind |-> "json", json |-> new]
  OBVIOUS
<1>12. OnlyAt(path, val)
  BY <1>3, <1>7, <1>9, <1>11, WriteDone
<1>13. edit'.path = path
  <2>1. PICK a, b : edit' = [path |-> path, row |-> a, name |-> b]
    BY <1>3
  <2>2. PICK now : now = edit' /\ now = [path |-> path, row |-> a, name |-> b]
    BY <2>1
  <2>3. now.path = path
    BY ONLY <2>2
  <2> QED BY <2>2, <2>3
<1>14. Control'
  <2>1. extracts # 0
    BY <1>2 DEF Control
  <2> QED BY <1>1, <1>2, <2>1 DEF Control
<1>15. DiskInv'
  <2>1. Fits(path, val)
    BY <1>5, <1>13 DEF Fits
  <2> QED BY <1>1, <1>2, <1>12, <2>1, DiskStep
<1>16. EditInv'
  <2>1. f \in Files' /\ i \in Tabs(f)' /\ TP(f, i)' = path /\ Table(f, i)' = Table(f, i)
    BY <1>1, <1>5, DumpStays
  <2>2. e \in Edits(ToJson(Table(f, i), TRUE))'
    BY <1>3, <1>7, <1>9, <1>10, <2>1
  <2>3. /\ edit' = [path |-> TP(f, i)', row |-> e.row, name |-> e.name]
        /\ TP(f, i)' \in DOMAIN disk' /\ disk'[TP(f, i)'] = [kind |-> "json", json |-> e.json]
    BY <1>3, <1>7, <1>11, <1>12, <2>1 DEF OnlyAt
  <2> QED BY <2>1, <2>2, <2>3 DEF EditInv
<1>17. DOMAIN disk \subseteq DOMAIN disk' /\ \A g : SP(g) \in DOMAIN disk' => SP(g) \in DOMAIN disk
  <2>1. \A g : SP(g) # path
    BY <1>5, Paths DEF SP, TP
  <2> QED BY <1>12, <2>1 DEF OnlyAt
<1>18. Extracted'
  BY <1>1, <1>17, DumpStays, OptionsStay DEF IInv, Extracted, There
<1>19. TablesFirst'
  BY <1>1, <1>17, DumpStays, OptionsStay DEF IInv, TablesFirst, There
<1>20. PackedOnce'
  <2>1. edit' # NoEdit'
    <3>1. TP(f, i) # NoEdit.path
      BY Paths DEF TP
    <3>2. NoEdit' = NoEdit
      BY DEF NoEdit
    <3> QED BY <1>5, <1>13, <3>1, <3>2
  <2> QED BY <2>1 DEF PackedOnce
<1>21. ExtractWork' /\ ExtractDone' /\ PackWork' /\ PackDone'
  BY <1>1 DEF ExtractWork, ExtractDone, Extracting, PackWork, PackDone, Packing
<1> QED BY <1>14, <1>15, <1>16, <1>18, <1>19, <1>20, <1>21 DEF IInv, DirInv
-----------------------------------------------------------------------------
(* The invariant holds at first.                                           *)
LEMMA InitHolds == Init => IInv
<1> SUFFICES ASSUME Init PROVE IInv
  OBVIOUS
<1>1. /\ dump \in Dumps /\ DOMAIN disk = {} /\ DOMAIN work = {} /\ todo = {}
      /\ cmd = "idle" /\ error = FALSE /\ last = "none" /\ result = "none" /\ edit = NoEdit
      /\ extracted = "none" /\ extracts = 0
  BY DEF Init, Empty
<1>2. DirInv
  BY <1>1 DEF DirInv, Control, DiskInv, EditInv
<1> QED BY <1>1, <1>2 DEF IInv, ExtractWork, ExtractDone, Extracting, Extracted, TablesFirst,
                          PackWork, PackDone, Packing, PackedOnce

(* And after every step.                                                   *)
LEMMA StepHolds == IInv /\ [Next]_vars => IInv'
<1> SUFFICES ASSUME IInv, [Next]_vars PROVE IInv'
  OBVIOUS
<1>1. CASE StartExtract
  BY <1>1, StartExtractKeeps
<1>2. CASE StartPack
  BY <1>2, StartPackKeeps
<1>3. ASSUME NEW f \in Files, Extract(f) PROVE IInv'
  BY <1>3, TakeFileKeeps, CreateTableKeeps, WritePartKeeps, WriteTableKeeps,
     CreateSchemaKeeps, WriteSchemaKeeps, ExtractFailsKeeps DEF Extract
<1>4. ASSUME NEW s, Pack(s) PROVE IInv'
  BY <1>4, TakeSchemaKeeps, CreateBdatKeeps, WriteBdatKeeps DEF Pack
<1>5. CASE Finish
  BY <1>5, FinishKeeps
<1>6. CASE Crash
  BY <1>6, CrashKeeps
<1>7. ASSUME NEW path \in DOMAIN disk, Edit(path) PROVE IInv'
  BY <1>7, EditKeeps
<1>8. CASE UNCHANGED vars
  BY <1>8, StutterKeeps
<1> QED BY <1>1, <1>2, <1>3, <1>4, <1>5, <1>6, <1>7, <1>8 DEF Next, Step

(* What holds of the files and the workers at any time, whatever fails.    *)
THEOREM Invariant == Spec => []IInv
BY InitHolds, StepHolds, PTL DEF Spec

(* After a pack that succeeded every schema has its packed file.           *)
LEMMA PackFinished ==
  ASSUME IInv, cmd = "idle", last = "pack", result = "ok",
         NEW f \in Files, SP(f) \in DOMAIN disk, NEW tables, tables = PackedTables(f)
  PROVE  /\ ~Broken(disk[SP(f)]) /\ ~Broken(disk[BP(f)])
         /\ PackedFile(f) /\ Good(f, tables)
<1>1. todo = {} /\ DOMAIN work = {}
  BY DEF IInv, DirInv, Control
<1>2. PICK s : s = dump[f].stem
  OBVIOUS
<1>3. s \in Schemas
  BY <1>2 DEF Schemas, SP
<1>4. PackedOK(s)
  BY <1>1, <1>3 DEF IInv, PackDone, Packing
<1>5. tables = disk[BdatPath(s)].tables
  BY <1>2 DEF PackedTables
<1>6. GoodFor(s, tables)
  BY <1>4, <1>5 DEF PackedOK
<1>7. ~Broken(disk[SP(f)]) /\ BP(f) \in DOMAIN disk /\ ~Broken(disk[BP(f)])
  BY <1>2, <1>4 DEF PackedOK, SP, BP
<1> QED BY <1>2, <1>6, <1>7, Kinds DEF GoodFor, PackedFile, BP

(* Whole, as the property states it.                                       *)
LEMMA WholeIs == \A f : WholeIn(f, PackedTables(f)) => Whole(f)
BY DEF WholeIn, Whole

(* After one extract, wherever it failed or was killed, whatever pack has  *)
(* written has each table that was asked for, once and whole               *)
(* (NothingTorn),                                                          *)
(* for every dump, thread pool and number of commands and faults.          *)
THEOREM NothingTornHolds == Spec => []NothingTorn
<1>1. IInv => NothingTorn
  <2> SUFFICES ASSUME IInv, extracts = 1, edit = NoEdit,
                      NEW f \in Files, Separate(f), PackedFile(f)
               PROVE  Whole(f)
    BY DEF NothingTorn
  <2>1. PICK tables : tables = PackedTables(f)
    OBVIOUS
  <2>2. Good(f, tables)
    BY <2>1 DEF IInv, PackedOnce
  <2> QED BY <2>1, <2>2, WholeIs DEF Good
<1> QED BY <1>1, Invariant, PTL

(* Workers of two files with one stem may lose tables to one another, but  *)
(* pack makes a table that is neither's only of a JSON file that both      *)
(* write, one of them in several writes, or by a schema written so         *)
(* (NeverMixed).                                                           *)
THEOREM NeverMixedHolds == Spec => []NeverMixed
<1>1. IInv => NeverMixed
  <2> SUFFICES ASSUME IInv, extracts = 1, edit = NoEdit,
                      NEW f \in Files, MatesSeparate(f), PackedFile(f),
                      NEW t \in Range(PackedTables(f))
               PROVE  \/ t \in UNION {KeptOf(g) : g \in Mates(f)}
                      \/ SpoiltTable(f, t) \/ SpoiltSchema(f)
    BY DEF NeverMixed
  <2>1. PICK tables : tables = PackedTables(f)
    OBVIOUS
  <2>2. Genuine(f, tables)
    BY <2>1 DEF IInv, PackedOnce, Good
  <2> QED BY <2>1, <2>2 DEF Genuine, KeptOfMates
<1> QED BY <1>1, Invariant, PTL

(* An extract and a pack that report success leave whole files, whatever   *)
(* failed in the directory before (PackedAsExtracted).                     *)
THEOREM PackedAsExtractedHolds == Spec => []PackedAsExtracted
<1>1. IInv => PackedAsExtracted
  <2> SUFFICES ASSUME IInv, cmd = "idle", last = "pack", result = "ok", edit = NoEdit,
                      extracted = "ok", ~options.noSchema, NEW f \in Files, Separate(f)
               PROVE  PackedFile(f) /\ Whole(f)
    BY DEF PackedAsExtracted
  <2>1. PICK tables : tables = PackedTables(f)
    OBVIOUS
  <2>2. SP(f) \in DOMAIN disk
    BY DEF IInv, Extracted
  <2>3. PackedFile(f) /\ Good(f, tables)
    BY <2>1, <2>2, PackFinished
  <2> QED BY <2>1, <2>3, WholeIs DEF Good
<1> QED BY <1>1, Invariant, PTL

(* An edit of the JSON changes the row and the column it is about, and, if *)
(* the cell still has as many values as its column has room for, nothing   *)
(* else in what pack makes of it; if it has not, nothing that is before it *)
(* (EditsStayLocal).                                                       *)
THEOREM EditsStayLocalHolds == Spec => []EditsStayLocal
<1>1. IInv => EditsStayLocal
  <2> SUFFICES ASSUME IInv, cmd = "idle", last = "pack", result = "ok",
                      NEW f \in Files, NEW i \in DOMAIN dump[f].tables, Separate(f),
                      SchemaPath(dump[f].stem) \in DOMAIN disk,
                      edit.path = JsonPath(dump[f].stem, FileName(Table(f, i).name))
               PROVE  \E packed \in Range(PackedTables(f)) :
                        KeptIn(packed, Kept(dump[f].tables[i]), disk[edit.path].json)
    BY DEF EditsStayLocal
  <2>1. PICK tables : tables = PackedTables(f)
    OBVIOUS
  <2>2. SP(f) \in DOMAIN disk /\ i \in Tabs(f) /\ edit.path = TP(f, i)
    BY DEF SP, Tabs, TP
  <2>3. EditKept(f, tables)
    BY <2>1, <2>2, PackFinished DEF Good
  <2> QED BY <2>1, <2>2, <2>3 DEF EditKept
<1> QED BY <1>1, Invariant, PTL

(* No error but that of a schema goes unreported: a command that reports   *)
(* success has left none of its files broken (ErrorsReported).             *)
THEOREM ErrorsReportedHolds == Spec => []ErrorsReported
<1>1. IInv => ErrorsReported
  <2> SUFFICES ASSUME IInv, cmd = "idle", result = "ok", NEW f \in Files
               PROVE  IF last = "pack"
                      THEN \A p \in DOMAIN disk : p[1] \in {"schema", "bdat"} => ~Broken(disk[p])
                      ELSE \A i \in DOMAIN dump[f].tables :
                             Alone(f) /\ Selected(Table(f, i)) =>
                               LET p == JsonPath(dump[f].stem, FileName(Table(f, i).name))
                               IN  p \in DOMAIN disk /\ disk[p].kind = "json"
    BY DEF ErrorsReported
  <2>1. todo = {} /\ DOMAIN work = {} /\ last \in {"extract", "pack"}
    BY DEF IInv, DirInv, Control
  <2>2. ASSUME last = "pack", NEW p \in DOMAIN disk, p[1] \in {"schema", "bdat"}
        PROVE  ~Broken(disk[p])
    <3>1. SchemaFile(p) \/ BdatFile(p)
      BY <2>2, Paths DEF IInv, DirInv, DiskInv, JsonFile, TP
    <3>2. PICK g \in Files : (p = SP(g) \/ p = BP(g)) /\ SP(g) \in DOMAIN disk
      BY <2>2, <3>1 DEF SchemaFile, BdatFile
    <3>3. ~Broken(disk[SP(g)]) /\ ~Broken(disk[BP(g)])
      BY <2>2, <3>2, PackFinished
    <3> QED BY <3>2, <3>3
  <2>3. ASSUME last = "extract", NEW i \in Tabs(f), Alone(f), Selected(Table(f, i))
        PROVE  TP(f, i) \in DOMAIN disk /\ disk[TP(f, i)].kind = "json"
    <3>1. AllWritten(f)
      BY <2>1, <2>3 DEF IInv, ExtractDone, Extracting
    <3> QED BY <2>3, <3>1 DEF AllWritten, There, Sound, Asked
  <2> QED BY <2>1, <2>2, <2>3 DEF Tabs, TP
<1> QED BY <1>1, Invariant, PTL
=============================================================================
