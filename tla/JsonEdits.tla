------------------------------ MODULE JsonEdits ------------------------------
(***************************************************************************)
(* What a user may do to a table in the form of JSON before it is packed   *)
(* again: take out a row, add one, or change a cell, its key or the keys   *)
(* in it.  An edit names the row and the column it is about, if any.       *)
(***************************************************************************)
EXTENDS TableJson

CONSTANTS
  SomeValue, NoValue,   \* a value of any type, and one of none
  Unknown               \* a name no column and no flag has

NoName == <<>>
Edited(row, name, json) == [row |-> row, name |-> name, json |-> json]

RowsTaken(json) ==
  {Edited(r, NoName, [json EXCEPT !.rows = RemoveAt(@, r)]) : r \in DOMAIN json.rows}

(* A row at the end, with the next id, one further, or the lowest of all. *)
RowsAdded(json) ==
  IF json.rows = <<>> THEN {}
  ELSE {Edited(0, NoName, [json EXCEPT !.rows = Append(@, [Last(@) EXCEPT !.id = id])]) :
          id \in {Last(json.rows).id + 1, Last(json.rows).id + 2, json.rows[1].id - 1}}

(* Of a cell: its value, which may then be none of its type, its shape, or *)
(* the keys of its flags.                                                  *)
CellsFor(cell) ==
  LET filled == IF cell.vals = <<>> THEN {}
                ELSE {[cell EXCEPT !.vals[1] = v] : v \in {SomeValue, NoValue}}
      shaped == {[kind |-> "single", vals |-> <<SomeValue>>, keys |-> <<>>],
                 [kind |-> "list", vals |-> <<SomeValue, SomeValue>>, keys |-> <<>>]}
      dropped == [cell EXCEPT !.vals = Tail(@), !.keys = Tail(@)]
      renamed == [cell EXCEPT !.keys[1] = Unknown]
  IN  filled \cup shaped \cup (IF cell.keys # <<>> THEN {dropped, renamed} ELSE {})
CellsChanged(json) ==
  UNION {UNION {{Edited(r, x, [json EXCEPT !.rows[r].cells[x] = c]) :
                   c \in CellsFor(json.rows[r].cells[x])} :
                x \in DOMAIN json.rows[r].cells} :
         r \in DOMAIN json.rows}

(* Of a row: a cell less, or one under another key. *)
Without(cells, x) == [y \in DOMAIN cells \ {x} |-> cells[y]]
Renamed(cells, x) ==
  [y \in (DOMAIN cells \ {x}) \cup {Unknown} |-> IF y = Unknown THEN cells[x] ELSE cells[y]]
Also(cells, x) ==
  [y \in DOMAIN cells \cup {Unknown} |-> IF y = Unknown THEN cells[x] ELSE cells[y]]
KeysChanged(json) ==
  UNION {UNION {{Edited(r, x, [json EXCEPT !.rows[r].cells = c]) :
                   c \in {Without(json.rows[r].cells, x), Renamed(json.rows[r].cells, x),
                          Also(json.rows[r].cells, x)}} :
                x \in DOMAIN json.rows[r].cells} :
         r \in DOMAIN json.rows}

Edits(json) == RowsTaken(json) \cup RowsAdded(json) \cup CellsChanged(json) \cup KeysChanged(json)
=============================================================================
