------------------------------ MODULE NameMap ------------------------------
(***************************************************************************)
(* NameMap, the index from the labels of the columns of a table to their   *)
(* positions: a sorted vector of pairs that is searched by bisection.      *)
(*                                                                         *)
(* Labels are numbers, in the order of enum Label: hashes come before the  *)
(* strings.                                                                *)
(***************************************************************************)
EXTENDS Integers, SequencesExt

CONSTANT Labels

ASSUME NameMapAssumption == Labels \subseteq Nat

(* slice::binary_search_by_key on a sorted slice: where the label is, or   *)
(* the index at which it would have to be inserted.                        *)
Found(map, l) == {i \in DOMAIN map : map[i].label = l}
Place(map, l) == Cardinality({i \in DOMAIN map : map[i].label < l}) + 1

(* NameMap::push: a label that is there already keeps its position.        *)
PushPlace(map, l) ==
  IF Found(map, l) # {} THEN map
  ELSE InsertAt(map, Place(map, l), [label |-> l, pos |-> Place(map, l)])
Push(map, l) ==
  IF Found(map, l) # {} THEN map
  ELSE InsertAt(map, Place(map, l), [label |-> l, pos |-> Len(map) + 1])

(* NameMap::position.  Positions count from 1; 0 stands for None.          *)
Position(map, l) ==
  IF Found(map, l) = {} THEN 0 ELSE map[CHOOSE i \in Found(map, l) : TRUE].pos

(* NameMap::from_iter *)
Collect(labels) ==
  LET map[n \in 0..Len(labels)] ==
        IF n = 0 THEN <<>> ELSE Push(map[n - 1], labels[n])
  IN  map[Len(labels)]
=============================================================================
