----------------------------- MODULE TableStore -----------------------------
(***************************************************************************)
(* What saving a table and loading it back promises, whatever the format:  *)
(* a save either stores the table or stores nothing, and a load answers    *)
(* with what was stored, unchanged, unless it was lost.                    *)
(* (tests/legacy.rs, tests/modern.rs: the write_back tests.)               *)
(***************************************************************************)
CONSTANTS Content, Nothing   \* Nothing is none of Content

VARIABLES stored, answer

Init == stored = Nothing /\ answer = Nothing

Save ==
  /\ stored = Nothing
  /\ stored' # Nothing /\ stored' \in Content
  /\ UNCHANGED answer

Lose == stored # Nothing /\ answer = Nothing /\ stored' = Nothing /\ UNCHANGED answer

Load == stored # Nothing /\ answer' = stored /\ UNCHANGED stored

Next == Save \/ Lose \/ Load

Spec == Init /\ [][Next]_<<stored, answer>>
=============================================================================
