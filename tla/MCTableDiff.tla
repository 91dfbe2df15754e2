----------------------------- MODULE MCTableDiff -----------------------------
(* Small instances of TableDiff.  1 and 2 are hashes, 11 and 12 the names  *)
(* they are of.                                                            *)
EXTENDS TableDiff

CONSTANTS a, b, list

MCValues == {a, b, list}
MCComposite == {list}
MCLabels == {1, 2, 11, 12}
MCNames(H) == [h \in H |-> h + 10]

MCTable(n, mod, cs, id, rs) ==
  [name |-> n, modern |-> mod, columns |-> cs, base |-> id, rows |-> rs]
MCFile(n, ok, ts) == [new |-> n, readable |-> ok, tables |-> ts]
MCPair(s, t) == <<MCFile(TRUE, TRUE, <<s>>), MCFile(FALSE, TRUE, <<t>>)>>

(* Tables of one column and up to two rows, and of two columns in either   *)
(* order, or with one label, and one row; modern, legacy, and one of each. *)
MCRowsOf(width, most, V) == UNION {[1..n -> [1..width -> V]] : n \in 0..most}
MCModern ==
  {MCTable(1, TRUE, <<c>>, id, rs) : c \in {1, 2}, id \in {1, 2}, rs \in MCRowsOf(1, 2, {a, b})}
  \cup {MCTable(1, TRUE, cs, 1, rs) : cs \in {<<1, 2>>, <<2, 1>>, <<1, 1>>}, rs \in MCRowsOf(2, 1, {a, b})}
MCLegacy ==
  {MCTable(11, FALSE, <<c>>, 1, rs) : c \in {11, 12}, rs \in MCRowsOf(1, 2, {a, list})}
  \cup {MCTable(11, FALSE, cs, id, rs) :
          cs \in {<<11, 12>>, <<12, 11>>, <<11, 11>>}, id \in {1, 2}, rs \in MCRowsOf(2, 1, {a, list})}

MCTwoFiles ==
  {[files |-> MCPair(s, t), names |-> MCNames(H)] :
     s \in MCModern, t \in MCModern, H \in {{}, {1}, {1, 2}}}
  \cup {[files |-> MCPair(s, t), names |-> MCNames({1})] : s \in MCLegacy, t \in MCLegacy}
  \cup {[files |-> MCPair(s, t), names |-> MCNames(H)] :
           s \in MCModern, t \in MCLegacy, H \in {{}, {1}, {1, 2}}}

(* Several files, with tables that share names, some of them unreadable.   *)
MCSmall(n, v) == MCTable(n, TRUE, <<2>>, 1, <<<<v>>>>)
MCContents == {<<>>, <<MCSmall(1, a)>>, <<MCSmall(1, b), MCSmall(2, a)>>}
MCManyFiles ==
  {[files |-> <<MCFile(TRUE, o[1], s), MCFile(TRUE, o[2], t), MCFile(FALSE, o[3], u),
                MCFile(FALSE, o[4], w)>>, names |-> MCNames(H)] :
     o \in [1..4 -> BOOLEAN], s \in MCContents, t \in MCContents,
     u \in MCContents, w \in MCContents, H \in {{}, {1}}}
MCInputs == MCTwoFiles \cup MCManyFiles

MCHidden == {[files |-> MCPair(MCSmall(1, a), MCSmall(1, b)), names |-> MCNames(H)] :
               H \in {{}, {1}, {1, 2}}}
=============================================================================
