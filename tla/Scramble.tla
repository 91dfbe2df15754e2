------------------------------ MODULE Scramble ------------------------------
(***************************************************************************)
(* The loops of io/legacy/scramble.rs: a region is scrambled, or           *)
(* unscrambled, in place and two bytes at a time, with a running key for   *)
(* the even and one for the odd bytes that take up what has been written.  *)
(***************************************************************************)
EXTENDS Integers, Sequences

CONSTANTS
  Base,       \* the number of values of a byte: 256
  XorByte(_, _)   \* exclusive or of bytes

Byte == 0..(Base - 1)

ASSUME ScrambleAssumption ==
  /\ Base \in Nat \ {0}
  /\ \A a, b \in Byte : XorByte(a, b) \in Byte /\ XorByte(XorByte(a, b), b) = a

VARIABLES
  data,     \* the region
  at,       \* where the loop is in it
  t1, t2    \* the running keys

svars == <<data, at, t1, t2>>

Key == 0..(Base * Base - 1)

Begin(region, key) ==
  /\ data' = region /\ at' = 1
  /\ t1' = XorByte(key \div Base, Base - 1)
  /\ t2' = XorByte(key % Base, Base - 1)

(* chunks_exact_mut(2): the keys grow by the bytes as they are scrambled,  *)
(* which are those after the step here and those before it there.          *)
Mixed == [data EXCEPT ![at] = XorByte(@, t1), ![at + 1] = XorByte(@, t2)]
Grown(t, b) == (t + b) % Base

ScrambleChunk ==
  /\ at < Len(data)
  /\ data' = Mixed
  /\ t1' = Grown(t1, Mixed[at]) /\ t2' = Grown(t2, Mixed[at + 1])
  /\ at' = at + 2

UnscrambleByOutput ==
  /\ at < Len(data)
  /\ data' = Mixed
  /\ t1' = Grown(t1, Mixed[at]) /\ t2' = Grown(t2, Mixed[at + 1])
  /\ at' = at + 2
UnscrambleChunk ==
  /\ at < Len(data)
  /\ data' = Mixed
  /\ t1' = Grown(t1, data[at]) /\ t2' = Grown(t2, data[at + 1])
  /\ at' = at + 2

(* A region of odd size leaves one byte. *)
Remainder ==
  /\ at = Len(data)
  /\ data' = [data EXCEPT ![at] = XorByte(@, t1)]
  /\ at' = at + 1
  /\ UNCHANGED <<t1, t2>>

AtEnd == at > Len(data)
=============================================================================
