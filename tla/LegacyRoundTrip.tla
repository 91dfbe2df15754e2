-------------------------- MODULE LegacyRoundTrip --------------------------
(***************************************************************************)
(* A legacy table is written and the image is read back.  The reader runs  *)
(* after the writer; in between the image may be damaged on disk, which is *)
(* modelled by one link between hash nodes that leads to another node.     *)
(***************************************************************************)
EXTENDS LegacyTableWriter

CONSTANTS
  Damageable,   \* the tables whose images may be damaged
  Nothing       \* no table

VARIABLES rpc, node, toVisit, visited, found, cols, flags, outCols, outRows,
          damaged

Reader == INSTANCE LegacyTableReader

rvars == <<rpc, node, toVisit, visited, found, cols, flags, outCols, outRows>>
allVars == <<vars, rvars, damaged>>

RTInit == Init /\ Reader!RInit /\ damaged = FALSE

Write == (LayoutStep \/ WriteStep \/ PatchStep) /\ UNCHANGED <<rvars, damaged>>

DamageLink ==
  /\ tab \in Damageable /\ pc = "done" /\ rpc = "idle" /\ ~damaged
  /\ \E i, j \in 1..N :
       buf' = Store(buf, NodePtr(i) + 2, Cell("nodeLink", 0, NodePtr(j)))
  /\ damaged' = TRUE
  /\ UNCHANGED <<input, pc, k, rowAt, names, infos, chain, pos, marks, strings,
                 result, rvars>>

Read ==
  /\ pc = "done"
  /\ Reader!RNext
  /\ UNCHANGED <<pc, k, rowAt, names, infos, chain, pos, marks, strBase, strLen,
                 strOff, scrambled, damaged>>

Ended ==
  /\ pc \in Finished \ {"done"} \/ rpc \in Reader!RFinished
  /\ UNCHANGED allVars

RTNext == Write \/ DamageLink \/ Read \/ Ended

(* Both are plain calls that run on once begun; only the reader's progress *)
(* is asked about below.                                                   *)
RTSpec == RTInit /\ [][RTNext]_allVars /\ WF_allVars(Read)

-----------------------------------------------------------------------------
(* The table a reader should give back: the columns with their flags, and  *)
(* the rows.                                                               *)
OwnFlags(t, c) ==
  FlattenSeq([f \in 1..Len(t.flags) |->
                IF t.flags[f].parent = c THEN <<t.flags[f]>> ELSE <<>>])
Expected(t, withFlags) ==
  [columns |-> [c \in 1..Len(t.columns) |->
                  [label |-> t.columns[c].label, width |-> t.columns[c].width,
                   count |-> t.columns[c].count, isText |-> t.columns[c].isText,
                   isFloat |-> t.columns[c].isFloat,
                   flags |-> IF withFlags
                             THEN [f \in 1..Len(OwnFlags(t, c)) |-> OwnFlags(t, c)[f].label]
                             ELSE <<>>]],
   rows |-> t.rows]
(* A table is not mistaken for no table. *)
ASSUME RoundTripAssumption ==
  /\ \A t \in Tables : Expected(t, FALSE) # Nothing
  /\ Damageable \subseteq Tables

Answered(withFlags) ==
  [columns |-> IF withFlags THEN outCols
               ELSE [c \in 1..Len(outCols) |-> [outCols[c] EXCEPT !.flags = <<>>]],
   rows |-> outRows]

(* The rows can be read if there are none, or flags only on integers and   *)
(* lists.                                                                  *)
FlagsReadable ==
  tab.rows # <<>> =>
    \A c \in 1..Len(tab.columns) :
      Reader!ReadAsFlags(Expected(tab, TRUE).columns[c]) => IsInteger(tab.columns[c])

(* Writing then reading implements the store: what comes back is the table *)
(* that went in, or nothing was stored; flags are left aside here.  What   *)
(* was stored is lost with the first damage to the image.  A table whose   *)
(* rows do not fit its columns was never stored, nor one with flags on     *)
(* texts or floats: the writer does not always notice, and the reader goes *)
(* astray or panics.                                                       *)
Intact == WellFormed /\ FlagsReadable /\ ~damaged
Store1 == INSTANCE TableStore WITH
  Content <- {Expected(t, FALSE) : t \in Tables},
  stored <- IF pc = "done" /\ Intact THEN Expected(tab, FALSE) ELSE Nothing,
  answer <- IF rpc \in Reader!RFinished /\ Intact THEN Answered(FALSE) ELSE Nothing
ReadBack == Store1!Spec

(* A column comes back with all of its flags, in their order, or with none *)
(* at all; never with some of them, or with another column's.              *)
FlagsAllOrNone ==
  rpc \in {"rows", "done"} /\ ~damaged =>
    /\ Len(outCols) = Len(tab.columns)
    /\ \A c \in 1..Len(outCols) :
         outCols[c].flags \in {<<>>, Expected(tab, TRUE).columns[c].flags}

(* Every column comes back with its flags, as the write_back tests expect. *)
FlagsComeBack == rpc = "done" /\ ~damaged => Answered(TRUE) = Expected(tab, TRUE)

(* A lookup by name finds every column and flag in the image that was      *)
(* written, as long as nobody damages it.                                  *)
LookupsComplete == ~damaged => ChainsComplete

(* The read call ends even when the links of the image form a cycle, for   *)
(* no node is put on the work list of discover_columns_from_hash twice.    *)
ReadEnds == pc = "done" ~> rpc \in Reader!RFinished
=============================================================================
