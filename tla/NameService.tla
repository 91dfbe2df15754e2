----------------------------- MODULE NameService -----------------------------
(***************************************************************************)
(* What the --hashes option promises: whoever hands over a file of names   *)
(* is given the table of exactly these names (toolset/src/main.rs: "all    *)
(* matched hashes will be replaced with the unhashed names").              *)
(***************************************************************************)
CONSTANTS Procs, NameLists, TableOf(_), Nobody

VARIABLES asked, answered

Init == asked = [p \in Procs |-> Nobody] /\ answered = [p \in Procs |-> Nobody]

Ask(p) ==
  /\ asked[p] = Nobody
  /\ \E l \in NameLists : asked' = [asked EXCEPT ![p] = l]
  /\ UNCHANGED answered

Answer(p) ==
  /\ asked[p] # Nobody /\ answered[p] = Nobody
  /\ answered' = [answered EXCEPT ![p] = TableOf(asked[p])]
  /\ UNCHANGED asked

Next == \E p \in Procs : Ask(p) \/ Answer(p)

Spec == Init /\ [][Next]_<<asked, answered>>
=============================================================================
