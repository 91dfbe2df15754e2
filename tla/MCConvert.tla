------------------------------ MODULE MCConvert ------------------------------
(* A small instance of Convert: one or two files, of several shapes. *)
EXTENDS Convert

W(w) == <<"", w>>
MCHashes == {"1F", "2E", "3D", "4C", "FF"}
MCHashOf(t) ==
  CASE t = W("npc") -> "1F" [] t = W("id") -> "2E" [] t = W("A") -> "3D" [] OTHER -> "FF"
MCKnown == [h \in {"1F", "2E"} |-> IF h = "1F" THEN W("npc") ELSE W("id")]

(* "x" is no number. *)
MCReadable(type, v) == v # "x"
MCWidth(type) == IF type = "u8" THEN 1 ELSE 4
Col(l, type) == [label |-> l, type |-> type, flags |-> <<>>, count |-> 1]
Flagged(l, type, flags) == [Col(l, type) EXCEPT !.flags = flags]
Array(l, type, count) == [Col(l, type) EXCEPT !.count = count]
One(v) == Cell("single", <<v>>)
S(w) == String(W(w))
Tab(name, base, cols, rows) == [name |-> name, base |-> base, cols |-> cols, rows |-> rows]

(* Legacy tables: with a column twice, with flags and a list, with rows    *)
(* that are larger than the padding, and without rows.                     *)
Twice == Tab(S("A"), 3, <<Col(S("c"), "u8"), Col(S("d"), "u8"), Col(S("c"), "u8")>>,
             <<<<One("1"), One("2"), One("3")>>, <<One("4"), One("5"), One("6")>>>>)
Flags == Tab(S("C"), 2, <<Flagged(S("f"), "u8", <<W("p"), W("q")>>), Array(S("l"), "u8", 2)>>,
             <<<<Cell("flags", <<"0", "1">>), Cell("list", <<"4", "5">>)>>,
               <<Cell("flags", <<"1", "1">>), Cell("list", <<"6", "6">>)>>,
               <<Cell("flags", <<"1", "0">>), Cell("list", <<"7", "8">>)>>>>)
Long == Tab(S("D"), 7, <<Array(S("l"), "u32", 9), Col(S("c"), "u8")>>,
            <<<<Cell("list", [i \in 1..9 |-> "1"]), One("2")>>>>)
Bare == Tab(S("B"), 7, <<Col(S("c"), "u8")>>, <<>>)
Thrice == Tab(S("B"), 1, <<Col(S("c"), "u8"), Col(S("c"), "u8"), Col(S("c"), "u8")>>,
              <<<<One("1"), One("1"), One("1")>>>>)

(* Modern tables, known by name and not, and two of one name. *)
Npc == Tab(Hash("1F"), 1, <<Col(Hash("2E"), "hash"), Col(Hash("4C"), "u8")>>, <<<<One("1"), One("2")>>>>)
Other == Tab(Hash("3D"), 2, <<Col(Hash("4C"), "u8")>>, <<<<One("3")>>, <<One("4")>>>>)
Third == Tab(Hash("3D"), 1, <<Col(Hash("4C"), "u8")>>, <<<<One("5")>>>>)
Fourth == Tab(Hash("3D"), 1, <<Col(Hash("4C"), "u8")>>, <<<<One("6")>>, <<One("7")>>>>)

File(version, stem, tables) == [version |-> version, stem |-> W(stem), tables |-> tables]
Dump(a, b) == [f \in {"f1", "f2"} |-> IF f = "f1" THEN a ELSE b]
Single(a) == [f \in {"f1"} |-> a]
Modern == File("Modern", "y", <<Npc, Other>>)

(* What is larger than the buffer: some tables, among them one that has a  *)
(* column twice and one that another file has too, and some schemas.       *)
MCLarge(content) ==
  IF content.kind = "schema" THEN content.tables \in {<<W("npc")>>, <<W("C")>>}
  ELSE \E r \in DOMAIN content.json.rows : \E x \in DOMAIN content.json.rows[r].cells :
         "5" \in ToSet(content.json.rows[r].cells[x].vals)

(* Usual ones; files of one stem; a table with too many columns of a name; *)
(* on their own, what edits are about, and tables named as their file, or  *)
(* as a hash.                                                              *)
MCDumps ==
  {Dump(File("Legacy", "x", <<Twice>>), Modern),
   Dump(File("Modern", "y", <<Third>>), File("Modern", "y", <<Other>>)),
   Dump(File("Modern", "y", <<Fourth>>), File("Modern", "y", <<Other>>)),
   Dump(File("Modern", "y", <<Npc>>), File("Modern", "y", <<Other>>)),
   Dump(File("Legacy", "x", <<Thrice>>), File("Legacy", "z", <<Bare>>)),
   Single(File("Legacy", "x", <<Flags>>)), Single(File("Legacy", "z", <<Long, Bare>>)),
   Single(File("Legacy", "A", <<Twice>>)),
   Single(File("Legacy", "z", <<Tab(String(<<"<>", "1F">>), 1, <<>>, <<>>), Bare>>))}

Usual == [untyped |-> FALSE, noSchema |-> FALSE, only |-> {}]
MCOptions == {Usual, [Usual EXCEPT !.only = {"3D"}],
              [Usual EXCEPT !.untyped = TRUE, !.noSchema = TRUE]}
=============================================================================
