------------------------------ MODULE PackedRows ------------------------------
(***************************************************************************)
(* What the writer of files of tables makes of rows in memory, whose cells *)
(* may have another number of values than their columns have room for      *)
(* (src/io/legacy/write.rs).  It puts one value behind the other, and only *)
(* the size of all rows is compared with what the columns ask for, both    *)
(* padded.  The rows of modern tables always fit.                          *)
(***************************************************************************)
EXTENDS TableJson

CONSTANTS
  Width(_),   \* ValueType::data_len
  Shifted     \* a cell that is not where its column says

Places(t) == (DOMAIN t.rows) \X (DOMAIN t.cols)
ValuesGiven(t) == [p \in Places(t) |-> Values(t.rows[p[1]][p[2]])]
RoomFor(t) == [p \in Places(t) |-> t.cols[p[2]].count]

pad_32(n) == ((n + 31) \div 32) * 32
Bytes(t, values) == MapThenSumSet(LAMBDA p : values[p] * Width(t.cols[p[2]].type), Places(t))
SizeNoticed(t) == pad_32(Bytes(t, ValuesGiven(t))) # pad_32(Bytes(t, RoomFor(t)))

(* A cell is in its place if the ones in front of it, and itself, have as  *)
(* many values as there is room for.  (Flags, zipped with the values of    *)
(* their cell, always make one value.)                                     *)
Misfits(t) == {p \in Places(t) : ValuesGiven(t)[p] # RoomFor(t)[p]}
InPlace(t, r, i) == \A p \in Misfits(t) : r < p[1] \/ (r = p[1] /\ i < p[2])
Written(t) ==
  [t EXCEPT !.rows = [r \in DOMAIN t.rows |-> [i \in DOMAIN t.cols |->
                        IF InPlace(t, r, i) THEN t.rows[r][i] ELSE Shifted]]]
=============================================================================
