---------------------------- MODULE MCLegacyFile ----------------------------
(* A small instance of LegacyFile: bytes of two bits, files of none to     *)
(* three tables in each version, and one of six.                           *)
EXTENDS LegacyFile, Bitwise

MCXor(a, b) == a ^^ b

Shape(name, head, names, mid, text, padding) ==
  [name |-> name, head |-> head, names |-> names, mid |-> mid, text |-> text,
   padding |-> padding]

(* The second half of the header, with the offset of the nodes, and the    *)
(* info of a column; a Wii table has only the latter.                      *)
HeadOf(v, withColumn) ==
  (IF v \in {"Wii", "New3ds"} THEN <<>> ELSE <<0, 1>> \o Zeros(30))
  \o (IF withColumn THEN <<1, 1, 0, 2>> ELSE <<>>)

(* Tables with a column and texts of even and of odd length; tables with   *)
(* no column and no text, also with an empty name and with few or many     *)
(* hash slots; and tables so long that the info of a column could be an    *)
(* offset in them, one of which has zeros behind it when it is scrambled.  *)
MCTables(v) ==
  {Shape(2, HeadOf(v, TRUE), <<3, 0, 0, 2, 1, 0>>, <<1, 2>>, <<2, 1, 3>>, 2),
   Shape(1, HeadOf(v, TRUE), <<3, 0, 1, 2, 1>>, <<2, 3>>, <<>>, 1),
   Shape(3, HeadOf(v, TRUE), <<1, 2, 0, 3>>, <<3, 1>>, <<1, 0>>, 0)}
MCBare(v) ==
  {Shape(0, HeadOf(v, FALSE), <<0, 0>>, Zeros(s), <<>>, 2) : s \in {2, 20}}
  \cup {Shape(0, HeadOf(v, FALSE), <<2, 1, 0, 0>>, Zeros(20), <<>>, 2)}
  \cup {Shape(0, HeadOf(v, FALSE), <<1, 0, 0, 0>>, Zeros(40), <<>>, 2)}

MCMid == [i \in 1..37 |-> IF i \in {1, 5, 9, 13} THEN 3 ELSE IF i = 17 THEN 1 ELSE 0]
MCLong(v) == {Shape(4, HeadOf(v, TRUE), <<3, 0, 0, 2, 1, 0>>, [i \in 1..40 |-> 1], <<2>>, 1),
              Shape(4, HeadOf(v, TRUE), <<3, 0, 3, 0>>, MCMid, <<2>>, 1)}

MCLists(v) ==
  {<<>>} \cup {<<a>> : a \in MCTables(v) \cup MCBare(v) \cup MCLong(v)}
         \cup {<<a, b>> : a \in MCTables(v), b \in MCTables(v) \cup MCBare(v)}
         \cup {SetToSeq(MCTables(v))}
         \cup {[i \in 1..6 |-> Shape(i, HeadOf(v, FALSE), <<2, 0>>, <<0>>, <<>>, 0)]}

MCInputs ==
  UNION {[version : {v}, scramble : BOOLEAN, tables : MCLists(v)] : v \in Versions}
=============================================================================
