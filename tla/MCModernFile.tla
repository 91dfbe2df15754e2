---------------------------- MODULE MCModernFile ----------------------------
(* A small instance of ModernFile: four hashes, two texts and the empty   *)
(* one, and a u16::MAX that three columns of hashed labels of their own exceed.         *)
EXTENDS ModernFile

CONSTANTS none, short, long   \* texts of 0, 1 and 5 bytes

MCTextLen == [s \in {none, short, long} |->
                CASE s = none -> 0 [] s = short -> 1 [] s = long -> 5]

H(h) == [hashed |-> TRUE, of |-> h]
Col(type, label) == [type |-> type, label |-> label]

MCNames == {H(1), H(4), TextLabel(long), TextLabel(none)}
MCColumns ==
  {<<>>,
   <<Col("byte", H(2))>>,
   <<Col("byte", H(2)), Col("key", H(1))>>,
   <<Col("text", H(3)), Col("short", H(2))>>,
   <<Col("text", TextLabel(short)), Col("int", H(1))>>,
   <<Col("key", H(3)), Col("key", H(2))>>,
   <<Col("int", H(1)), Col("int", H(2)), Col("int", H(3))>>}

Values(type, r) ==
  CASE type = "text" -> {none, short, long}
    [] type = "key" -> {1, 3}
    [] OTHER -> {r}
Rows(cs, r) ==
  IF Len(cs) = 0 THEN {<<>>}
  ELSE IF Len(cs) = 1 THEN {<<v>> : v \in Values(cs[1].type, r)}
  ELSE IF Len(cs) = 2
       THEN {<<v, w>> : v \in Values(cs[1].type, r), w \in Values(cs[2].type, r)}
  ELSE {<<r, r, r>>}

RowLists(cs) ==
  {<<>>} \cup {<<a, b>> : a \in Rows(cs, 1), b \in Rows(cs, 2)}
         \cup (IF cs = <<Col("byte", H(2))>> THEN {<<<<1>>, <<2>>, <<3>>>>} ELSE {})
         \cup (IF cs = <<Col("byte", H(2)), Col("key", H(1))>>
               THEN {<<<<1, 1>>, <<2, 3>>, <<3, 1>>>>} ELSE {})

MCTables ==
  UNION {[name : MCNames, base : {0, 7}, columns : {cs}, rows : RowLists(cs)] :
           cs \in MCColumns}

(* Any table alone, and in front of or behind one of three others. *)
Neighbours ==
  {[name |-> H(2), base |-> 1, columns |-> <<>>, rows |-> <<>>],
   [name |-> H(1), base |-> 1, columns |-> <<Col("byte", H(2))>>,
    rows |-> <<<<1>>, <<2>>, <<3>>>>],
   [name |-> H(3), base |-> 1, columns |-> <<Col("key", H(3)), Col("text", H(3))>>,
    rows |-> <<<<2, long>>, <<1, none>>>>]}

(* Rows so many and narrow that those of the key table the reader takes to *)
(* be there reach beyond the next table.                                   *)
Narrow ==
  [name |-> H(1), base |-> 1, columns |-> <<Col("byte", H(2))>>,
   rows |-> [r \in 1..12 |-> <<r>>]]

MCFiles ==
  {<<>>} \cup {<<a>> : a \in MCTables} \cup {<<Narrow, a>> : a \in Neighbours}
         \cup {<<a, b>> : a \in MCTables, b \in Neighbours}
         \cup {<<a, b>> : a \in Neighbours, b \in MCTables}
=============================================================================
