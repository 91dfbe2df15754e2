--------------------------- MODULE MCLegacyTable ---------------------------
(* Small instances of LegacyTableWriter and LegacyRoundTrip.               *)
EXTENDS LegacyRoundTrip

CONSTANTS t1, t2, t3

MCText == {t1, t2, t3}
MCTextLen == (t1 :> 1) @@ (t2 :> 2) @@ (t3 :> 3)
MCHashSum == (t1 :> 1) @@ (t2 :> 3) @@ (t3 :> 2)

Shape(lab, w, n, txt) ==
  [label |-> lab, width |-> w, count |-> n, isText |-> txt, isFloat |-> FALSE]
Float(lab) == [Shape(lab, 4, 1, FALSE) EXCEPT !.isFloat = TRUE]
MCColumn == {Shape(t1, 1, 1, FALSE), Shape(t2, 4, 1, TRUE), Shape(t3, 2, 3, FALSE),
             Shape(t1, 4, 2, TRUE)}
MCColumns == {<<>>} \cup {<<c>> : c \in MCColumn} \cup (MCColumn \X MCColumn)

(* Any flags on columns 1..n, at most max in all, parents in order. *)
MCFlags(n, max) ==
  {[i \in 1..Len(ps) |-> [label |-> IF i % 2 = 0 THEN t2 ELSE t3, parent |-> ps[i]]] :
     ps \in {s \in UNION {[1..m -> 1..n] : m \in 0..max} :
               \A i, j \in 1..Len(s) : i < j => s[i] <= s[j]}}

(* A row that fits the columns; its strings are x and y in turn. *)
MCRow(cs, x, y) ==
  FoldLeft(LAMBDA acc, c :
             acc \o [i \in 1..c.count |->
                       [width |-> c.width,
                        num |-> IF c.isText THEN 0 ELSE Len(acc) + i,
                        text |-> IF ~c.isText THEN NoText
                                 ELSE IF (Len(acc) + i) % 2 = 0 THEN x ELSE y]],
           <<>>, cs)

(* No row, two rows that share strings, and a row that lacks a value. *)
MCRows(cs) ==
  {<<>>, <<MCRow(cs, t1, t2), MCRow(cs, t2, t3)>>}
  \cup IF cs = <<>> THEN {}
       ELSE {<<Tail(MCRow(cs, t1, t1)), MCRow(cs, t2, t3)>>}

MCTables ==
  UNION {[name : {t2}, columns : {cs}, flags : MCFlags(Len(cs), 2), rows : MCRows(cs)] :
           cs \in MCColumns}

(* Three columns with up to four flags; one that cannot have any. *)
MCTable(cs, flgs) ==
  [name |-> t2, columns |-> cs, flags |-> flgs,
   rows |-> <<MCRow(cs, t1, t2), MCRow(cs, t2, t3)>>]
MCThree == <<Shape(t1, 1, 1, FALSE), Shape(t2, 2, 1, FALSE), Shape(t1, 4, 1, FALSE)>>
MCFlagTables ==
  {MCTable(MCThree, flgs) : flgs \in MCFlags(3, 4)}
  \cup {MCTable(<<Float(t2), Shape(t1, 2, 1, FALSE)>>, flgs) : flgs \in MCFlags(2, 3)}

(* Four columns and two flags, for damaged chains. *)
MCDamageTables ==
  {MCTable([c \in 1..4 |-> Shape(f[c], 1, 1, FALSE)],
           <<[label |-> t1, parent |-> 2], [label |-> t3, parent |-> 3]>>) :
     f \in {g \in [1..4 -> MCText] : g[1] = t1 /\ g[2] = t2 /\ g[3] = t1}}

(* Tables around the u16 limit, which is scaled down to 200: many items,   *)
(* or cells far into a row.                                                *)
MCWide == {Shape(t1, 4, 8, FALSE), Shape(t2, 4, 40, FALSE), Shape(t3, 1, 1, FALSE)}
MCLimitTables ==
  UNION {[name : {t1, t3}, columns : {cs}, flags : MCFlags(Len(cs), 1), rows : {<<>>}] :
           cs \in UNION {[1..n -> MCWide] : n \in 1..3}}
  \cup {[name |-> t1, columns |-> cs, flags |-> <<>>, rows |-> <<MCRow(cs, t1, t2)>>] :
          cs \in {[i \in 1..9 |-> Shape(t3, 1, 1, FALSE)], <<Shape(t1, 4, 8, FALSE)>>}}

MCOptions == {[wii |-> w, hashSlots |-> n, scramble |-> n = 5] :
                w \in BOOLEAN, n \in {1, 5}}
MCNothing == {}
MCAllTables == MCTables \cup MCFlagTables \cup MCDamageTables \cup MCLimitTables
=============================================================================
