---------------------------- MODULE MCTableAccess ----------------------------
(* A small instance of TableAccess: one hashed label and two strings, two  *)
(* row hashes, u16::MAX = 3 and u32::MAX = 5.                              *)
EXTENDS TableAccess

CONSTANTS h1, h2

(* Three columns in descending order of their labels, the same with a      *)
(* label that repeats, and none.                                           *)
Col(l) == [label |-> l, portable |-> TRUE]
MCColumnLists == {<<Col(3), Col(2), Col(1)>>, <<Col(3), Col(3), Col(2)>>, <<>>}

(* Rows with two hashes, and as many rows as a u16 can number. *)
MCRowLists ==
  {<<[hash |-> h2, single |-> TRUE], [hash |-> NoHash, single |-> TRUE],
     [hash |-> h1, single |-> TRUE]>>,
   [i \in 1..4 |-> [hash |-> NoHash, single |-> TRUE]]}
=============================================================================
