------------------------- MODULE LegacyFile_proofs -------------------------
(***************************************************************************)
(* Theorems about LegacyFile, for bytes of any size and files of any       *)
(* number of tables, however often they are processed.                     *)
(*                                                                         *)
(* The running keys are a function of the scrambled bytes before them in   *)
(* either direction, so that "c is p scrambled with a key" is a relation   *)
(* (Scrambled) that the scrambling loop establishes and that determines p, *)
(* which the unscrambling loop arrives at.  The invariant says for each    *)
(* table at rest that its names and strings are what was written or are    *)
(* that, scrambled, and for the table in hand how far the loop has come.   *)
(***************************************************************************)
EXTENDS LegacyFile, ProofBasics

-----------------------------------------------------------------------------
LEMMA Joined ==
  ASSUME NEW S, NEW x \in Seq(S), NEW y \in Seq(S)
  PROVE  /\ x \o y \in Seq(S) /\ Len(x \o y) = Len(x) + Len(y)
         /\ Len(x) \in Nat /\ Len(y) \in Nat
         /\ \A i \in 1..Len(x) : (x \o y)[i] = x[i]
         /\ \A i \in 1..Len(y) : (x \o y)[Len(x) + i] = y[i]
  OBVIOUS

(* Bytes and keys. *)

LEMMA Xor ==
  /\ Base \in Nat \ {0} /\ Byte = 0..(Base - 1)
  /\ \A a, b \in Byte : XorByte(a, b) \in Byte /\ XorByte(XorByte(a, b), b) = a
  BY ScrambleAssumption DEF ScrambleAssumption, Byte

LEMMA Halves ==
  ASSUME NEW key \in Key
  PROVE  key \div Base \in Byte /\ key % Base \in Byte /\ Base - 1 \in Byte
<1>1. PICK b \in Nat : b = Base /\ b >= 1
  BY Xor
<1>2. PICK q, r \in Int : q = key \div b /\ r = key % b
  BY <1>1 DEF Key
<1>3. key \in Nat /\ key < b * b /\ key = q * b + r /\ r \in 0..(b - 1)
  <2>1. key \in 0..(b * b - 1)
    BY <1>1 DEF Key
  <2>2. b * b \in Nat
    BY <1>1
  <2>3. key \in Nat /\ key < b * b
    BY <2>1, <2>2
  <2> QED BY <1>1, <1>2, <2>3
<1>4. q >= 0
  <2> SUFFICES ASSUME q <= -1 PROVE FALSE
    BY <1>2
  <2>1. q * b <= -1 * b
    BY ONLY <1>1, <1>2, q <= -1
  <2> QED BY ONLY <1>1, <1>2, <1>3, <2>1
<1>5. q < b
  <2> SUFFICES ASSUME q >= b PROVE FALSE
    BY <1>1, <1>2
  <2>1. q * b >= b * b
    BY ONLY <1>1, <1>2, q >= b
  <2> QED BY ONLY <1>1, <1>2, <1>3, <2>1
<1> QED BY <1>1, <1>2, <1>3, <1>4, <1>5, Xor

LEMMA GrownByte == \A t, b \in Byte : Grown(t, b) \in Byte
<1> SUFFICES ASSUME NEW t \in Byte, NEW b \in Byte PROVE Grown(t, b) \in Byte
  OBVIOUS
<1>1. PICK s, m \in Nat : s = t + b /\ m = Base /\ m > 0
  BY Xor DEF Byte
<1>2. s % m \in 0..(m - 1)
  BY <1>1
<1> QED BY <1>1, <1>2, Xor DEF Grown

-----------------------------------------------------------------------------
(* The running keys.  Both directions add up the scrambled bytes c, so     *)
(* that the key of a byte depends only on those before it.                 *)

KeyOf(K, c, key, i) ==
  IF i = 1 THEN XorByte(key \div Base, Base - 1)
  ELSE IF i = 2 THEN XorByte(key % Base, Base - 1)
  ELSE Grown(K[i - 2], c[i - 2])
AreKeys(K, c, key, m) ==
  K \in [1..m -> Byte] /\ \A i \in 1..m : K[i] = KeyOf(K, c, key, i)

LEMMA KeyIsByte ==
  ASSUME NEW key \in Key, NEW z \in Nat, NEW i \in 1..z, NEW K, NEW c,
         i > 2 => K[i - 2] \in Byte /\ c[i - 2] \in Byte
  PROVE  KeyOf(K, c, key, i) \in Byte
<1>1. CASE i = 1
  BY <1>1, Halves, Xor DEF KeyOf
<1>2. CASE i = 2
  BY <1>2, Halves, Xor DEF KeyOf
<1>3. CASE i > 2
  BY <1>3, GrownByte DEF KeyOf
<1> QED BY <1>1, <1>2, <1>3

(* Where the bytes agree, so do the keys. *)
LEMMA SameKeys ==
  ASSUME NEW key, NEW m \in Nat, NEW K, NEW L, NEW c, NEW d, NEW z \in Nat, z <= m,
         AreKeys(K, c, key, z), AreKeys(L, d, key, m),
         \A i \in 1..(z - 2) : c[i] = d[i]
  PROVE  \A i \in 1..z : K[i] = L[i]
<1> DEFINE T == {i \in 1..z : K[i] # L[i]}
<1>1. T = {}
  <2> SUFFICES ASSUME T # {} PROVE FALSE
    OBVIOUS
  <2>1. PICK i \in T : \A j \in T : i <= j
    <3>1. T \subseteq Nat
      OBVIOUS
    <3> HIDE DEF T
    <3> QED BY <3>1, NatMin
  <2>2. i \in 1..z /\ i \in 1..m /\ K[i] # L[i]
    OBVIOUS
  <2>3. K[i] = KeyOf(K, c, key, i) /\ L[i] = KeyOf(L, d, key, i)
    BY <2>2 DEF AreKeys
  <2>4. i > 2 => i - 2 \in 1..z /\ i - 2 \notin T /\ i - 2 \in 1..(z - 2)
    BY <2>1, <2>2
  <2>5. i > 2 => K[i - 2] = L[i - 2] /\ c[i - 2] = d[i - 2]
    BY <2>4
  <2>6. KeyOf(K, c, key, i) = KeyOf(L, d, key, i)
    BY <2>2, <2>5 DEF KeyOf
  <2> QED BY <2>2, <2>3, <2>6
<1> QED BY <1>1

(* Keys that were found up to m go on to m + 1. *)
LEMMA MoreKeys ==
  ASSUME NEW key \in Key, NEW m \in Nat, NEW c, NEW K, AreKeys(K, c, key, m),
         \A i \in 1..(m - 1) : c[i] \in Byte
  PROVE  \E L : AreKeys(L, c, key, m + 1) /\ \A i \in 1..m : L[i] = K[i]
<1> DEFINE k == KeyOf(K, c, key, m + 1)
           L == [i \in 1..(m + 1) |-> IF i = m + 1 THEN k ELSE K[i]]
<1>1. k \in Byte
  <2>1. m + 1 > 2 => m - 1 \in 1..m /\ m - 1 \in 1..(m - 1) /\ m + 1 - 2 = m - 1
    OBVIOUS
  <2>2. m + 1 > 2 => K[m + 1 - 2] \in Byte /\ c[m + 1 - 2] \in Byte
    BY <2>1 DEF AreKeys
  <2>3. m + 1 \in 1..(m + 1) /\ m + 1 \in Nat
    OBVIOUS
  <2> QED BY <2>2, <2>3, KeyIsByte
<1>2. \A i \in 1..m : L[i] = K[i] /\ i \in 1..(m + 1)
  OBVIOUS
<1>3. L[m + 1] = k
  OBVIOUS
<1>4. L \in [1..(m + 1) -> Byte]
  <2> HIDE DEF k
  <2> QED BY <1>1 DEF AreKeys
<1>5. ASSUME NEW i \in 1..(m + 1)
      PROVE  L[i] = KeyOf(L, c, key, i)
  <2>1. i > 2 => i - 2 \in 1..m
    OBVIOUS
  <2>2. i > 2 => L[i - 2] = K[i - 2]
    BY <1>2, <2>1
  <2> HIDE DEF L, k
  <2>3. KeyOf(L, c, key, i) = KeyOf(K, c, key, i)
    BY <2>2 DEF KeyOf
  <2>4. CASE i = m + 1
    BY <1>3, <2>3, <2>4 DEF k
  <2>5. CASE i \in 1..m
    BY <1>2, <2>3, <2>5 DEF AreKeys
  <2> QED BY <2>4, <2>5
<1> HIDE DEF L, k
<1> QED BY <1>2, <1>4, <1>5 DEF AreKeys

(* Any bytes have keys. *)
LEMMA KeysExist ==
  ASSUME NEW key \in Key, NEW z \in Nat, NEW c, \A i \in 1..z : c[i] \in Byte
  PROVE  \E K : AreKeys(K, c, key, z)
<1> DEFINE T == {m \in 0..z : ~\E K : AreKeys(K, c, key, m)}
<1>1. T = {}
  <2> SUFFICES ASSUME T # {} PROVE FALSE
    OBVIOUS
  <2>1. PICK m \in T : \A j \in T : m <= j
    <3>1. T \subseteq Nat
      OBVIOUS
    <3> HIDE DEF T
    <3> QED BY <3>1, NatMin
  <2>2. m # 0
    <3>1. AreKeys([i \in 1..0 |-> 0], c, key, 0)
      BY DEF AreKeys
    <3> QED BY <2>1, <3>1
  <2>3. m - 1 \in 0..z /\ m - 1 \notin T /\ m - 1 \in Nat /\ m - 1 + 1 = m
    BY <2>1, <2>2
  <2>4. PICK K : AreKeys(K, c, key, m - 1)
    BY <2>3
  <2>5. \A i \in 1..(m - 1 - 1) : c[i] \in Byte
    BY <2>3
  <2>6. \E L : AreKeys(L, c, key, m)
    BY <2>3, <2>4, <2>5, MoreKeys
  <2> QED BY <2>1, <2>6
<1> QED BY <1>1

LEMMA OtherBytes ==
  ASSUME NEW key, NEW m \in Nat, NEW K, NEW c, NEW d, AreKeys(K, c, key, m),
         \A i \in 1..(m - 2) : c[i] = d[i]
  PROVE  AreKeys(K, d, key, m)
<1> SUFFICES ASSUME NEW i \in 1..m PROVE K[i] = KeyOf(K, d, key, i)
  BY DEF AreKeys
<1>1. i > 2 => i - 2 \in 1..(m - 2)
  OBVIOUS
<1>2. i > 2 => c[i - 2] = d[i - 2]
  BY <1>1
<1>3. KeyOf(K, c, key, i) = KeyOf(K, d, key, i)
  BY <1>2 DEF KeyOf
<1> QED BY <1>3 DEF AreKeys

LEMMA FewerKeys ==
  ASSUME NEW key, NEW m \in Nat, NEW K, NEW c, NEW z \in 0..m, AreKeys(K, c, key, m)
  PROVE  \E L : AreKeys(L, c, key, z) /\ \A i \in 1..z : L[i] = K[i]
<1> DEFINE L == [i \in 1..z |-> K[i]]
<1>1. \A i \in 1..z : i \in 1..m /\ L[i] = K[i] /\ (i > 2 => i - 2 \in 1..z)
  OBVIOUS
<1>2. L \in [1..z -> Byte]
  BY <1>1 DEF AreKeys
<1>3. ASSUME NEW i \in 1..z PROVE L[i] = KeyOf(L, c, key, i)
  <2>1. i > 2 => L[i - 2] = K[i - 2]
    BY <1>1
  <2> HIDE DEF L
  <2>2. KeyOf(L, c, key, i) = KeyOf(K, c, key, i)
    BY <2>1 DEF KeyOf
  <2> QED BY <1>1, <2>2 DEF AreKeys
<1> HIDE DEF L
<1> QED BY <1>1, <1>2, <1>3 DEF AreKeys

-----------------------------------------------------------------------------
(* What scrambling the bytes p comes to. *)

Scrambled(p, c, key) ==
  /\ p \in Seq(Byte) /\ c \in Seq(Byte) /\ Len(c) = Len(p)
  /\ \E K : AreKeys(K, c, key, Len(p)) /\ \A i \in 1..Len(p) : c[i] = XorByte(p[i], K[i])

(* The loop is at its position with the keys K. *)
Keyed(K, c, key) == AreKeys(K, c, key, at + 1) /\ K[at] = t1 /\ K[at + 1] = t2
InRegion(len) == data \in Seq(Byte) /\ Len(data) = len /\ at \in 1..(len + 1)

ScramblingOf(p, key) ==
  /\ p \in Seq(Byte) /\ InRegion(Len(p))
  /\ \/ \E K : /\ Keyed(K, data, key)
               /\ \A i \in 1..(at - 1) : data[i] = XorByte(p[i], K[i])
               /\ \A i \in at..Len(p) : data[i] = p[i]
     \/ at = Len(p) + 1 /\ Scrambled(p, data, key)

UnscramblingOf(p, c, key) ==
  /\ Scrambled(p, c, key) /\ InRegion(Len(p))
  /\ at = Len(p) + 1 \/ \E K : Keyed(K, c, key)
  /\ \A i \in 1..(at - 1) : data[i] = p[i]
  /\ \A i \in at..Len(p) : data[i] = c[i]

LEMMA Mixing ==
  ASSUME NEW key \in Key, NEW K, NEW c, Keyed(K, c, key), NEW len \in Nat, InRegion(len), at < len
  PROVE  /\ at \in Nat /\ at + 1 \in 1..len /\ at \in 1..len /\ t1 \in Byte /\ t2 \in Byte
         /\ Mixed \in Seq(Byte) /\ Len(Mixed) = len
         /\ Mixed[at] = XorByte(data[at], t1) /\ Mixed[at + 1] = XorByte(data[at + 1], t2)
         /\ Mixed[at] \in Byte /\ Mixed[at + 1] \in Byte
         /\ \A i \in 1..len : i # at /\ i # at + 1 => Mixed[i] = data[i]
<1>1. at \in Nat /\ at + 1 \in 1..len /\ at \in 1..len /\ at # at + 1 /\ at \in 1..(at + 1)
      /\ at + 1 \in 1..(at + 1)
  BY DEF InRegion
<1>2. t1 \in Byte /\ t2 \in Byte
  BY <1>1 DEF Keyed, AreKeys
<1>3. data \in [1..len -> Byte] /\ Len(data) = len
  BY DEF InRegion
<1>4. XorByte(data[at], t1) \in Byte /\ XorByte(data[at + 1], t2) \in Byte
  BY <1>1, <1>2, <1>3, Xor
<1>5. PICK x, y \in Byte : x = XorByte(data[at], t1) /\ y = XorByte(data[at + 1], t2)
  BY <1>4
<1>6. Mixed = [data EXCEPT ![at] = x, ![at + 1] = y]
  BY <1>1, <1>3, <1>5 DEF Mixed
<1>7. PICK g : g = [data EXCEPT ![at] = x, ![at + 1] = y]
  OBVIOUS
<1>8. /\ g \in [1..len -> Byte] /\ g[at] = x /\ g[at + 1] = y
      /\ \A i \in 1..len : i # at /\ i # at + 1 => g[i] = data[i]
  BY <1>1, <1>3, <1>7
<1>9. g \in Seq(Byte) /\ Len(g) = len
  BY <1>8
<1> QED BY <1>1, <1>2, <1>5, <1>6, <1>7, <1>8, <1>9

(* Two more keys, those that the loop goes on with. *)
LEMMA NextKeys ==
  ASSUME NEW key \in Key, NEW K, NEW c, AreKeys(K, c, key, at + 1), at \in Nat \ {0},
         \A i \in 1..(at + 1) : c[i] \in Byte
  PROVE  \E L : /\ AreKeys(L, c, key, at + 3) /\ \A i \in 1..(at + 1) : L[i] = K[i]
                /\ L[at + 2] = Grown(K[at], c[at]) /\ L[at + 3] = Grown(K[at + 1], c[at + 1])
<1>1. PICK a \in Nat : a = at /\ a >= 1
  OBVIOUS
<1>2. PICK L : AreKeys(L, c, key, a + 2) /\ \A i \in 1..(a + 1) : L[i] = K[i]
  <2>1. a + 1 \in Nat /\ a + 1 + 1 = a + 2 /\ \A i \in 1..(a + 1 - 1) : c[i] \in Byte
    BY <1>1
  <2>2. AreKeys(K, c, key, a + 1)
    BY <1>1
  <2> QED BY <2>1, <2>2, MoreKeys
<1>3. PICK M : AreKeys(M, c, key, a + 3) /\ \A i \in 1..(a + 2) : M[i] = L[i]
  <2>1. a + 2 \in Nat /\ a + 2 + 1 = a + 3 /\ \A i \in 1..(a + 2 - 1) : c[i] \in Byte
    BY <1>1
  <2> QED BY <1>2, <2>1, MoreKeys
<1>4. \A i \in 1..(a + 1) : i \in 1..(a + 2) /\ M[i] = K[i]
  BY <1>1, <1>2, <1>3
<1>5. /\ a + 2 \in 1..(a + 3) /\ a + 3 \in 1..(a + 3) /\ a + 2 > 2 /\ a + 3 > 2
      /\ a + 2 - 2 = a /\ a + 3 - 2 = a + 1 /\ a \in 1..(a + 1) /\ a + 1 \in 1..(a + 1)
  BY <1>1
<1>6. M[a + 2] = Grown(M[a], c[a]) /\ M[a + 3] = Grown(M[a + 1], c[a + 1])
  BY <1>3, <1>5 DEF AreKeys, KeyOf
<1> QED BY <1>1, <1>3, <1>4, <1>5, <1>6

LEMMA ScrambleChunkStep ==
  ASSUME NEW key \in Key, NEW p, ScramblingOf(p, key), ScrambleChunk
  PROVE  ScramblingOf(p, key)'
<1> DEFINE len == Len(p)
<1>1. p \in Seq(Byte) /\ len \in Nat /\ InRegion(len) /\ at < len
  BY DEF ScramblingOf, ScrambleChunk, InRegion
<1>2. PICK K : /\ Keyed(K, data, key) /\ \A i \in 1..(at - 1) : data[i] = XorByte(p[i], K[i])
               /\ \A i \in at..len : data[i] = p[i]
  BY <1>1 DEF ScramblingOf
<1>3. /\ data' = Mixed /\ at' = at + 2
      /\ t1' = Grown(t1, Mixed[at]) /\ t2' = Grown(t2, Mixed[at + 1])
  BY DEF ScrambleChunk
<1> HIDE DEF len
<1>4. /\ at \in Nat /\ at + 1 \in 1..len /\ at \in 1..len
      /\ Mixed \in Seq(Byte) /\ Len(Mixed) = len
      /\ Mixed[at] = XorByte(data[at], t1) /\ Mixed[at + 1] = XorByte(data[at + 1], t2)
      /\ \A i \in 1..len : i # at /\ i # at + 1 => Mixed[i] = data[i]
  BY <1>1, <1>2, Mixing
<1>5. InRegion(len)'
  BY <1>1, <1>3, <1>4 DEF InRegion
<1>6. PICK d : d = Mixed
  OBVIOUS
<1>7. AreKeys(K, d, key, at + 1)
  <2>1. PICK m, e : m \in Nat /\ m = at + 1 /\ e = data
    BY <1>4
  <2>2. \A i \in 1..(m - 2) : e[i] = d[i]
    BY <1>4, <1>6, <2>1
  <2>3. AreKeys(K, e, key, m)
    BY <1>2, <2>1 DEF Keyed
  <2>4. AreKeys(K, d, key, m)
    BY <2>1, <2>2, <2>3, OtherBytes
  <2> QED BY <2>1, <2>4
<1>8. PICK L : /\ AreKeys(L, d, key, at + 3) /\ \A i \in 1..(at + 1) : L[i] = K[i]
               /\ L[at + 2] = Grown(K[at], d[at]) /\ L[at + 3] = Grown(K[at + 1], d[at + 1])
  <2>1. at \in Nat \ {0} /\ \A i \in 1..(at + 1) : d[i] \in Byte
    BY <1>4, <1>6
  <2> QED BY <1>7, <2>1, NextKeys
<1>9. Keyed(L, d, key)'
  <2>1. L[at + 2] = t1' /\ L[at + 3] = t2'
    BY <1>2, <1>3, <1>6, <1>8 DEF Keyed
  <2>2. at + 3 = at' + 1 /\ at + 2 = at'
    BY <1>3, <1>4
  <2>3. AreKeys(L, d, key, at' + 1)
    BY <1>8, <2>2
  <2> QED BY <2>1, <2>2, <2>3 DEF Keyed
<1>10. ASSUME NEW i \in 1..(at' - 1) PROVE d[i] = XorByte(p[i], L[i])
  <2>1. i \in 1..(at - 1) \/ i = at \/ i = at + 1
    BY <1>3, <1>4
  <2>2. CASE i \in 1..(at - 1)
    BY <1>2, <1>4, <1>6, <1>8, <2>2
  <2>3. CASE i = at \/ i = at + 1
    <3>1. i \in at..len /\ i \in 1..(at + 1)
      BY <1>4, <2>3
    <3>2. data[i] = p[i] /\ L[i] = K[i]
      BY <1>2, <1>8, <3>1
    <3> QED BY <1>2, <1>4, <1>6, <2>3, <3>2 DEF Keyed
  <2> QED BY <2>1, <2>2, <2>3
<1>11. ASSUME NEW i \in at'..len PROVE d[i] = p[i]
  BY <1>2, <1>3, <1>4, <1>6
<1>12. d = data'
  BY <1>3, <1>6
<1>13. /\ Keyed(L, data, key)'
       /\ \A i \in 1..(at' - 1) : data'[i] = XorByte(p[i], L[i])
       /\ \A i \in at'..len : data'[i] = p[i]
  BY <1>9, <1>10, <1>11, <1>12 DEF Keyed
<1> QED BY <1>1, <1>5, <1>13 DEF ScramblingOf, len

LEMMA ScrambleRemainder ==
  ASSUME NEW key \in Key, NEW p, ScramblingOf(p, key), Remainder
  PROVE  ScramblingOf(p, key)'
<1> DEFINE len == Len(p)
<1>1. p \in Seq(Byte) /\ len \in Nat /\ InRegion(len) /\ at = len /\ at \in 1..len
  BY DEF ScramblingOf, Remainder, InRegion
<1>2. PICK K : /\ Keyed(K, data, key) /\ \A i \in 1..(at - 1) : data[i] = XorByte(p[i], K[i])
               /\ \A i \in at..len : data[i] = p[i]
  BY <1>1 DEF ScramblingOf
<1>3. data' = [data EXCEPT ![at] = XorByte(@, t1)] /\ at' = at + 1
  BY DEF Remainder
<1> HIDE DEF len
<1>4. data \in [1..len -> Byte] /\ Len(data) = len
  BY <1>1 DEF InRegion
<1>5. PICK x \in Byte : x = XorByte(data[at], t1)
  <2>1. t1 \in Byte /\ data[at] \in Byte
    BY <1>1, <1>2, <1>4 DEF Keyed, AreKeys
  <2> QED BY <2>1, Xor
<1>6. PICK d : d = [data EXCEPT ![at] = x]
  OBVIOUS
<1>7. d = data'
  BY <1>1, <1>3, <1>4, <1>5, <1>6
<1>8. d \in Seq(Byte) /\ Len(d) = len /\ d[at] = x /\ \A i \in 1..(at - 1) : d[i] = data[i]
  <2>1. d \in [1..len -> Byte] /\ d[at] = x /\ \A i \in 1..(at - 1) : d[i] = data[i]
    BY <1>1, <1>4, <1>6
  <2> QED BY <1>1, <2>1
<1>9. PICK L : AreKeys(L, d, key, len) /\ \A i \in 1..len : L[i] = K[i]
  <2>1. AreKeys(K, d, key, at + 1)
    <3>1. PICK m, e : m \in Nat /\ m = at + 1 /\ e = data
      BY <1>1
    <3>2. \A i \in 1..(m - 2) : e[i] = d[i]
      BY <1>1, <1>8, <3>1
    <3>3. AreKeys(K, e, key, m)
      BY <1>2, <3>1 DEF Keyed
    <3>4. AreKeys(K, d, key, m)
      BY <3>1, <3>2, <3>3, OtherBytes
    <3> QED BY <3>1, <3>4
  <2>2. len \in 0..(at + 1) /\ at + 1 \in Nat
    BY <1>1
  <2> QED BY <2>1, <2>2, FewerKeys
<1>10. ASSUME NEW i \in 1..len PROVE d[i] = XorByte(p[i], L[i])
  <2>1. CASE i = at
    <3>1. data[i] = p[i] /\ K[i] = t1 /\ L[i] = K[i]
      BY <1>1, <1>2, <1>9, <2>1 DEF Keyed
    <3> QED BY <1>5, <1>8, <2>1, <3>1
  <2>2. CASE i # at
    <3>1. i \in 1..(at - 1)
      BY <1>1, <2>2
    <3> QED BY <1>2, <1>8, <1>9, <3>1
  <2> QED BY <2>1, <2>2
<1>11. Scrambled(p, d, key)
  BY <1>1, <1>8, <1>9, <1>10 DEF Scrambled, len
<1>12. InRegion(len)' /\ at' = len + 1
  BY <1>1, <1>3, <1>7, <1>8 DEF InRegion
<1> QED BY <1>1, <1>7, <1>11, <1>12 DEF ScramblingOf, len

LEMMA ScramblingDone ==
  ASSUME NEW key \in Key, NEW p, ScramblingOf(p, key), AtEnd
  PROVE  Scrambled(p, data, key)
<1> DEFINE len == Len(p)
<1>1. p \in Seq(Byte) /\ len \in Nat /\ InRegion(len) /\ at = len + 1
  BY DEF ScramblingOf, AtEnd, InRegion
<1>2. CASE Scrambled(p, data, key)
  BY <1>2
<1>3. CASE \E K : Keyed(K, data, key) /\ \A i \in 1..(at - 1) : data[i] = XorByte(p[i], K[i])
  <2>1. PICK K : Keyed(K, data, key) /\ \A i \in 1..len : data[i] = XorByte(p[i], K[i])
    BY <1>1, <1>3
  <2>2. PICK L : AreKeys(L, data, key, len) /\ \A i \in 1..len : L[i] = K[i]
    <3> HIDE DEF len
    <3>1. PICK m, e : m \in Nat /\ m = at + 1 /\ e = data
      BY <1>1
    <3>2. len \in 0..m
      BY <1>1, <3>1
    <3>3. AreKeys(K, e, key, m)
      BY <2>1, <3>1 DEF Keyed
    <3>4. PICK z \in 0..m : z = len
      BY <3>2
    <3>5. m \in Nat
      BY <3>1
    <3>6. \E L : AreKeys(L, e, key, z) /\ \A i \in 1..z : L[i] = K[i]
      BY ONLY <3>3, <3>5, FewerKeys
    <3> QED BY <3>1, <3>4, <3>6
  <2> QED BY <1>1, <2>1, <2>2 DEF Scrambled, InRegion
<1> QED BY <1>2, <1>3 DEF ScramblingOf

LEMMA Unmixed ==
  ASSUME NEW key \in Key, NEW p, NEW c, Scrambled(p, c, key), NEW m \in Nat, NEW K,
         AreKeys(K, c, key, m)
  PROVE  \A i \in 1..Len(p) : i <= m => XorByte(c[i], K[i]) = p[i]
<1> DEFINE len == Len(p)
<1>1. p \in Seq(Byte) /\ len \in Nat /\ c \in Seq(Byte) /\ Len(c) = len
  BY DEF Scrambled
<1>2. PICK L : AreKeys(L, c, key, len) /\ \A i \in 1..len : c[i] = XorByte(p[i], L[i])
  BY DEF Scrambled
<1>3. PICK z \in Nat : z <= m /\ z <= len /\ (z = m \/ z = len)
  BY <1>1
<1>4. \A i \in 1..z : K[i] = L[i]
  <2>1. PICK M : AreKeys(M, c, key, z) /\ \A i \in 1..z : M[i] = K[i]
    <3>1. z \in 0..m
      BY <1>3
    <3> QED BY <3>1, FewerKeys
  <2>2. \A i \in 1..z : M[i] = L[i]
    <3>1. PICK w \in Nat : w = len
      BY <1>1
    <3>2. AreKeys(L, c, key, w) /\ z <= w /\ \A i \in 1..(z - 2) : c[i] = c[i]
      BY <1>2, <1>3, <3>1
    <3>3. AreKeys(M, c, key, z)
      BY <2>1
    <3> QED BY ONLY <3>2, <3>3, SameKeys
  <2> QED BY <2>1, <2>2
<1> SUFFICES ASSUME NEW i \in 1..len, i <= m PROVE XorByte(c[i], K[i]) = p[i]
  OBVIOUS
<1>5. i \in 1..z
  BY <1>1, <1>3
<1>6. p[i] \in Byte /\ L[i] \in Byte /\ c[i] = XorByte(p[i], L[i]) /\ K[i] = L[i]
  BY <1>1, <1>2, <1>4, <1>5 DEF AreKeys
<1> QED BY <1>6, Xor

LEMMA UnscrambleChunkStep ==
  ASSUME NEW key \in Key, NEW p, NEW c, UnscramblingOf(p, c, key), UnscrambleChunk
  PROVE  UnscramblingOf(p, c, key)'
<1> DEFINE len == Len(p)
<1>1. /\ p \in Seq(Byte) /\ c \in Seq(Byte) /\ Len(c) = len /\ len \in Nat /\ InRegion(len)
      /\ at < len /\ Scrambled(p, c, key)
      /\ \A i \in 1..(at - 1) : data[i] = p[i]
      /\ \A i \in at..len : data[i] = c[i]
  BY DEF UnscramblingOf, UnscrambleChunk, InRegion, Scrambled
<1>2. PICK K : Keyed(K, c, key)
  BY <1>1 DEF UnscramblingOf
<1>3. /\ data' = Mixed /\ at' = at + 2
      /\ t1' = Grown(t1, data[at]) /\ t2' = Grown(t2, data[at + 1])
  BY DEF UnscrambleChunk
<1>4. \A i \in 1..len : i <= at + 1 => XorByte(c[i], K[i]) = p[i]
  <2>1. at + 1 \in Nat
    BY <1>1 DEF InRegion
  <2> QED BY <1>1, <1>2, <2>1, Unmixed DEF Keyed
<1> HIDE DEF len
<1>5. /\ at \in Nat /\ at + 1 \in 1..len /\ at \in 1..len
      /\ Mixed \in Seq(Byte) /\ Len(Mixed) = len
      /\ Mixed[at] = XorByte(data[at], t1) /\ Mixed[at + 1] = XorByte(data[at + 1], t2)
      /\ \A i \in 1..len : i # at /\ i # at + 1 => Mixed[i] = data[i]
  BY <1>1, <1>2, Mixing
<1>6. data[at] = c[at] /\ data[at + 1] = c[at + 1]
  BY <1>1, <1>5
<1>7. InRegion(len)'
  BY <1>1, <1>3, <1>5 DEF InRegion
<1>8. PICK L : /\ AreKeys(L, c, key, at + 3)
               /\ L[at + 2] = Grown(K[at], c[at]) /\ L[at + 3] = Grown(K[at + 1], c[at + 1])
  <2>1. at \in Nat \ {0} /\ \A i \in 1..(at + 1) : c[i] \in Byte
    BY <1>1, <1>5
  <2> QED BY <1>2, <2>1, NextKeys DEF Keyed
<1>9. Keyed(L, c, key)'
  <2>1. L[at + 2] = t1' /\ L[at + 3] = t2'
    BY <1>2, <1>3, <1>6, <1>8 DEF Keyed
  <2>2. at + 3 = at' + 1 /\ at + 2 = at'
    BY <1>3, <1>5
  <2>3. AreKeys(L, c, key, at' + 1)
    BY <1>8, <2>2
  <2> QED BY <2>1, <2>2, <2>3 DEF Keyed
<1>10. ASSUME NEW i \in 1..(at' - 1) PROVE data'[i] = p[i]
  <2>1. i \in 1..(at - 1) \/ i = at \/ i = at + 1
    BY <1>3, <1>5
  <2>2. CASE i \in 1..(at - 1)
    BY <1>1, <1>3, <1>5, <2>2
  <2>3. CASE i = at
    BY <1>2, <1>3, <1>4, <1>5, <1>6, <2>3 DEF Keyed
  <2>4. CASE i = at + 1
    BY <1>2, <1>3, <1>4, <1>5, <1>6, <2>4 DEF Keyed
  <2> QED BY <2>1, <2>2, <2>3, <2>4
<1>11. \A i \in at'..len : data'[i] = c[i]
  BY <1>1, <1>3, <1>5
<1> QED BY <1>1, <1>7, <1>9, <1>10, <1>11 DEF UnscramblingOf, len

LEMMA UnscrambleRemainder ==
  ASSUME NEW key \in Key, NEW p, NEW c, UnscramblingOf(p, c, key), Remainder
  PROVE  UnscramblingOf(p, c, key)'
<1> DEFINE len == Len(p)
<1>1. /\ p \in Seq(Byte) /\ c \in Seq(Byte) /\ Len(c) = len /\ len \in Nat /\ InRegion(len)
      /\ at = len /\ at \in 1..len /\ Scrambled(p, c, key)
      /\ \A i \in 1..(at - 1) : data[i] = p[i]
      /\ \A i \in at..len : data[i] = c[i]
  BY DEF UnscramblingOf, Remainder, InRegion, Scrambled
<1>2. PICK K : Keyed(K, c, key)
  BY <1>1 DEF UnscramblingOf
<1>3. data' = [data EXCEPT ![at] = XorByte(@, t1)] /\ at' = at + 1
  BY DEF Remainder
<1>4. XorByte(c[at], K[at]) = p[at]
  <2>1. at + 1 \in Nat /\ at <= at + 1
    BY <1>1
  <2> QED BY <1>1, <1>2, <2>1, Unmixed DEF Keyed
<1> HIDE DEF len
<1>5. data \in [1..len -> Byte] /\ Len(data) = len /\ p[at] \in Byte
  BY <1>1 DEF InRegion, len
<1>6. data' = [data EXCEPT ![at] = p[at]]
  <2>1. K[at] = t1 /\ data[at] = c[at]
    BY <1>1, <1>2 DEF Keyed
  <2>2. XorByte(data[at], t1) = p[at]
    BY <1>4, <2>1
  <2> QED BY <1>1, <1>3, <1>5, <2>2
<1>7. data' \in [1..len -> Byte] /\ data'[at] = p[at] /\ \A i \in 1..(at - 1) : data'[i] = data[i]
  BY <1>1, <1>5, <1>6
<1>8. data' \in Seq(Byte) /\ Len(data') = len
  BY <1>1, <1>7
<1>9. at' = len + 1 /\ InRegion(len)'
  BY <1>1, <1>3, <1>8 DEF InRegion
<1>10. \A i \in 1..(at' - 1) : data'[i] = p[i]
  BY <1>1, <1>3, <1>7
<1>11. \A i \in at'..len : data'[i] = c[i]
  BY <1>1, <1>9
<1> QED BY <1>1, <1>9, <1>10, <1>11 DEF UnscramblingOf, len

LEMMA UnscramblingDone ==
  ASSUME NEW key \in Key, NEW p, NEW c, UnscramblingOf(p, c, key), AtEnd
  PROVE  data = p
<1>1. p \in Seq(Byte) /\ Len(p) \in Nat /\ InRegion(Len(p)) /\ at = Len(p) + 1
  BY DEF UnscramblingOf, AtEnd, InRegion, Scrambled
<1>2. \A i \in 1..Len(p) : data[i] = p[i]
  BY <1>1 DEF UnscramblingOf
<1> QED BY <1>1, <1>2 DEF InRegion

(* What is put behind scrambled bytes and unscrambled with them comes out  *)
(* as something, and does not disturb the bytes before it.                 *)
LEMMA Extended ==
  ASSUME NEW key \in Key, NEW p, NEW c, Scrambled(p, c, key), NEW o \in Seq(Byte)
  PROVE  \E s : /\ Scrambled(s, c \o o, key) /\ Len(s) = Len(p) + Len(o)
                /\ \A i \in 1..Len(p) : s[i] = p[i]
<1> DEFINE len == Len(p)
           e == c \o o
           all == len + Len(o)
<1>1. /\ p \in Seq(Byte) /\ c \in Seq(Byte) /\ Len(c) = len /\ len \in Nat /\ Len(o) \in Nat
      /\ all \in Nat
  BY DEF Scrambled
<1>2. e \in Seq(Byte) /\ Len(e) = all /\ \A i \in 1..len : e[i] = c[i]
  BY <1>1
<1>3. \A i \in 1..all : e[i] \in Byte
  BY <1>1, <1>2
<1> HIDE DEF e, all
<1>4. PICK K : AreKeys(K, e, key, all)
  BY <1>1, <1>3, KeysExist
<1>5. \A i \in 1..all : K[i] \in Byte
  BY <1>4 DEF AreKeys
<1> DEFINE s == [i \in 1..all |-> XorByte(e[i], K[i])]
<1>6. \A i \in 1..all : s[i] \in Byte /\ e[i] = XorByte(s[i], K[i])
  BY <1>3, <1>5, Xor
<1>7. s \in Seq(Byte) /\ Len(s) = all
  BY <1>1, <1>6
<1>8. Scrambled(s, e, key)
  BY <1>2, <1>4, <1>6, <1>7 DEF Scrambled
<1>9. \A i \in 1..len : s[i] = p[i]
  <2>1. PICK m \in Nat : m = len
    BY <1>1
  <2>2. PICK L : AreKeys(L, e, key, m) /\ \A i \in 1..m : L[i] = K[i]
    <3>1. PICK w \in Nat : w = all
      BY <1>1
    <3>2. m \in 0..w
      BY <1>1, <2>1, <3>1 DEF all
    <3>3. AreKeys(K, e, key, w)
      BY <1>4, <3>1
    <3> QED BY ONLY <3>1, <3>2, <3>3, FewerKeys
  <2>3. \A i \in 1..(m - 2) : e[i] = c[i]
    BY <1>2, <2>1
  <2>4. AreKeys(L, c, key, m)
    BY <2>2, <2>3, OtherBytes
  <2>5. \A i \in 1..len : i <= m => XorByte(c[i], L[i]) = p[i]
    BY <2>4, Unmixed
  <2>6. SUFFICES ASSUME NEW i \in 1..len PROVE s[i] = p[i]
    OBVIOUS
  <2>7. i \in 1..all /\ i <= m
    BY <1>1, <2>1 DEF all
  <2>8. s[i] = XorByte(e[i], K[i]) /\ e[i] = c[i] /\ L[i] = K[i]
    BY <1>2, <2>1, <2>2, <2>7
  <2> QED BY <2>5, <2>7, <2>8
<1> QED BY <1>7, <1>8, <1>9 DEF e, all

-----------------------------------------------------------------------------
(* Checksums and sizes. *)

LEMMA ChecksumIsKey ==
  ASSUME NEW bytes \in Seq(Byte)
  PROVE  ChecksumOf(bytes) \in Key
<1>1. PICK len \in Nat : len = Len(bytes)
  OBVIOUS
<1>2. PICK d : d = [i \in 1..len |-> Shifted(bytes[i], i)]
  OBVIOUS
<1>3. ASSUME NEW i \in 1..len PROVE d[i] \in Nat
  <2>1. PICK b \in Nat : b = Base /\ b > 0
    BY Xor
  <2>2. PICK r \in 0..3 : r = (i - 1) % 4
    OBVIOUS
  <2>3. PICK f \in Nat : f = <<1, 2, 4, 8>>[r + 1]
    BY <2>2
  <2>4. PICK v \in Nat : v = bytes[i]
    <3>1. bytes[i] \in Byte
      BY <1>1
    <3>2. bytes[i] \in 0..(b - 1)
      BY <2>1, <3>1 DEF Byte
    <3>3. bytes[i] \in Nat
      BY <2>1, <3>2
    <3> QED BY <3>3
  <2>5. v * f \in Nat
    BY ONLY <2>3, <2>4
  <2>6. PICK x \in Nat : x = v * f
    BY <2>5
  <2>7. x % b \in Nat
    BY <2>1
  <2>8. d[i] = x % b
    BY <1>2, <2>1, <2>2, <2>3, <2>4, <2>6 DEF Shifted
  <2> QED BY <2>7, <2>8
<1>4. PICK f : IsRunningSum(f, d, len)
  BY <1>3, RunningSums
<1>5. f \in [0..len -> Nat]
  BY <1>3, <1>4, RunningSums
<1>6. ChecksumOf(bytes) \in 0..(Base * Base - 1)
  <2> DEFINE Sums(g) == g = [i \in 0..len |-> IF i = 0 THEN 0 ELSE g[i - 1] + Shifted(bytes[i], i)]
  <2>1. \A g : Sums(g) <=> IsRunningSum(g, d, len)
    <3> SUFFICES ASSUME NEW g PROVE Sums(g) <=> IsRunningSum(g, d, len)
      OBVIOUS
    <3>1. \A i \in 0..len : i # 0 => Shifted(bytes[i], i) = d[i]
      BY <1>2
    <3>2. [i \in 0..len |-> IF i = 0 THEN 0 ELSE g[i - 1] + Shifted(bytes[i], i)]
          = [i \in 0..len |-> IF i = 0 THEN 0 ELSE g[i - 1] + d[i]]
      BY <3>1
    <3> QED BY <3>2 DEF IsRunningSum
  <2>2. ChecksumOf(bytes) = (CHOOSE g : Sums(g))[len] % (Base * Base)
    BY <1>1 DEF ChecksumOf
  <2> HIDE DEF Sums
  <2>3. PICK h : h = CHOOSE g : Sums(g)
    OBVIOUS
  <2>4. IsRunningSum(h, d, len)
    BY <1>4, <2>1, <2>3
  <2>5. h \in [0..len -> Nat]
    BY <1>3, <2>4, RunningSums
  <2>6. PICK x \in Nat : x = h[len]
    BY <2>5
  <2>7. PICK b \in Nat : b = Base /\ b > 0
    BY Xor
  <2>8. b * b \in Nat /\ b * b > 0
    BY ONLY <2>7
  <2>9. x % (b * b) \in 0..(b * b - 1)
    <3>1. PICK m \in Nat : m = b * b /\ m > 0
      BY <2>8
    <3>2. x % m \in 0..(m - 1)
      BY <3>1
    <3> QED BY <3>1, <3>2
  <2> QED BY <2>2, <2>3, <2>6, <2>7, <2>9
<1> QED BY <1>6 DEF Key

Image == [head : Seq(Byte), names : Seq(Byte), mid : Seq(Byte), strings : Seq(Byte),
          scrambled : BOOLEAN, key : Key]

LEMMA Sizes ==
  ASSUME NEW im \in Image
  PROVE  /\ Bytes(im) \in Seq(Byte)
         /\ Size(im) \in Nat /\ Size(im) >= 32
         /\ Size(im) = 32 + Len(im.head) + Len(im.names) + Len(im.mid) + Len(im.strings)
         /\ Len(Bytes(im)) = Size(im) - 32
         /\ \A i \in 1..Len(im.head) : Bytes(im)[i] = im.head[i]
         /\ \A i \in 1..Len(im.names) : Bytes(im)[Len(im.head) + i] = im.names[i]
         /\ Checksum(im) \in Key
<1>1. /\ im.head \in Seq(Byte) /\ im.names \in Seq(Byte)
      /\ im.mid \in Seq(Byte) /\ im.strings \in Seq(Byte)
  BY DEF Image
<1>2. PICK a, b, c, d : a = im.head /\ b = im.names /\ c = im.mid /\ d = im.strings
  OBVIOUS
<1>3. a \in Seq(Byte) /\ b \in Seq(Byte) /\ c \in Seq(Byte) /\ d \in Seq(Byte)
  BY <1>1, <1>2
<1>4. PICK e : e = a \o b
  OBVIOUS
<1>5. /\ e \in Seq(Byte) /\ Len(e) = Len(a) + Len(b) /\ Len(a) \in Nat /\ Len(b) \in Nat
      /\ \A i \in 1..Len(a) : e[i] = a[i]
      /\ \A i \in 1..Len(b) : e[Len(a) + i] = b[i]
  BY <1>3, <1>4, Joined
<1>6. PICK g : g = e \o c
  OBVIOUS
<1>7. /\ g \in Seq(Byte) /\ Len(g) = Len(e) + Len(c) /\ Len(c) \in Nat
      /\ \A i \in 1..Len(e) : g[i] = e[i]
  <2>1. e \in Seq(Byte) /\ c \in Seq(Byte)
    BY <1>3, <1>5
  <2> QED BY ONLY <2>1, <1>6, Joined
<1>8. PICK h : h = g \o d
  OBVIOUS
<1>9. /\ h \in Seq(Byte) /\ Len(h) = Len(g) + Len(d) /\ Len(d) \in Nat
      /\ \A i \in 1..Len(g) : h[i] = g[i]
  BY <1>3, <1>7, <1>8, Joined
<1>10. Bytes(im) = h
  BY <1>2, <1>4, <1>6, <1>8 DEF Bytes
<1>11. /\ \A i \in 1..Len(a) : h[i] = a[i]
       /\ \A i \in 1..Len(b) : h[Len(a) + i] = b[i]
  <2>1. ASSUME NEW i \in 1..Len(a) PROVE h[i] = a[i]
    <3>1. i \in 1..Len(e) /\ i \in 1..Len(g)
      BY <1>5, <1>7
    <3> QED BY <1>5, <1>7, <1>9, <3>1
  <2>2. ASSUME NEW i \in 1..Len(b) PROVE h[Len(a) + i] = b[i]
    <3>1. Len(a) + i \in 1..Len(e) /\ Len(a) + i \in 1..Len(g)
      BY <1>5, <1>7
    <3> QED BY <1>5, <1>7, <1>9, <3>1
  <2> QED BY <2>1, <2>2
<1>12. Checksum(im) \in Key
  BY <1>9, <1>10, ChecksumIsKey DEF Checksum
<1>13. Size(im) = 32 + Len(h) /\ Len(h) = Len(a) + Len(b) + Len(c) + Len(d) /\ Len(h) \in Nat
  BY <1>5, <1>7, <1>9, <1>10 DEF Size
<1>14. /\ Size(im) \in Nat /\ Size(im) >= 32 /\ Len(h) = Size(im) - 32
       /\ Size(im) = 32 + Len(a) + Len(b) + Len(c) + Len(d)
  BY <1>5, <1>7, <1>9, <1>13
<1> QED BY <1>2, <1>9, <1>10, <1>11, <1>12, <1>14

(* Where the table ends that a table or the end of the file follows. *)
EndOf(i) == IF i = 0 THEN HeaderLen ELSE offsets[i] + Size(tables[i])
InARow == \A i \in 1..Len(tables) : offsets[i] = EndOf(i - 1)

LEMMA Totals ==
  ASSUME tables \in Seq(Image), Count \in Nat, InARow
  PROVE  /\ HeaderLen + TotalLen(tables) = EndOf(Len(tables))
         /\ TotalLen(tables) \in Nat /\ HeaderLen \in Nat /\ HeaderLen = 8 + 4 * Count
         /\ \A i \in 0..Len(tables) : EndOf(i) \in Nat
<1>1. PICK len \in Nat : len = Len(tables)
  OBVIOUS
<1>2. PICK d : d = [i \in 1..len |-> Size(tables[i])]
  OBVIOUS
<1>3. \A i \in 1..len : d[i] \in Nat /\ d[i] = Size(tables[i])
  <2>1. \A i \in 1..len : tables[i] \in Image
    BY <1>1
  <2> QED BY <1>2, <2>1, Sizes
<1>4. HeaderLen \in Nat /\ HeaderLen = 8 + 4 * Count
  BY DEF HeaderLen
<1> DEFINE Sums(g) == g = [i \in 0..len |-> IF i = 0 THEN 0 ELSE g[i - 1] + Size(tables[i])]
<1>5. \A g : Sums(g) <=> IsRunningSum(g, d, len)
  <2> SUFFICES ASSUME NEW g PROVE Sums(g) <=> IsRunningSum(g, d, len)
    OBVIOUS
  <2>1. [i \in 0..len |-> IF i = 0 THEN 0 ELSE g[i - 1] + Size(tables[i])]
        = [i \in 0..len |-> IF i = 0 THEN 0 ELSE g[i - 1] + d[i]]
    BY <1>3
  <2> QED BY <2>1 DEF IsRunningSum
<1>6. TotalLen(tables) = (CHOOSE g : Sums(g))[len]
  BY <1>1 DEF TotalLen
<1> HIDE DEF Sums
<1>7. PICK f : f = CHOOSE g : Sums(g)
  OBVIOUS
<1>8. IsRunningSum(f, d, len)
  BY <1>3, <1>5, <1>7, RunningSums
<1>9. f \in [0..len -> Nat] /\ f[0] = 0 /\ \A i \in 1..len : f[i] = f[i - 1] + d[i]
  BY <1>3, <1>8, RunningSums
<1> DEFINE Bad == {i \in 0..len : EndOf(i) # HeaderLen + f[i]}
<1>10. Bad = {}
  <2> SUFFICES ASSUME Bad # {} PROVE FALSE
    OBVIOUS
  <2>1. PICK i \in Bad : \A j \in Bad : i <= j
    <3>1. Bad \subseteq Nat
      OBVIOUS
    <3> HIDE DEF Bad
    <3> QED BY <3>1, NatMin
  <2>2. i # 0
    BY <1>4, <1>9, <2>1 DEF EndOf
  <2>3. i \in 1..len /\ i - 1 \in 0..len /\ i - 1 \notin Bad
    BY <2>1, <2>2
  <2>4. offsets[i] = HeaderLen + f[i - 1]
    BY <1>1, <2>3 DEF InARow
  <2>5. EndOf(i) = HeaderLen + f[i - 1] + d[i]
    BY <1>3, <2>2, <2>3, <2>4 DEF EndOf
  <2>6. f[i] = f[i - 1] + d[i] /\ f[i - 1] \in Nat /\ d[i] \in Nat
    BY <1>3, <1>9, <2>3
  <2>7. EndOf(i) = HeaderLen + f[i]
    BY <1>4, <2>5, <2>6
  <2> QED BY <2>1, <2>7
<1>11. ASSUME NEW i \in 0..len PROVE EndOf(i) = HeaderLen + f[i] /\ EndOf(i) \in Nat
  <2>1. EndOf(i) = HeaderLen + f[i]
    BY <1>10
  <2>2. PICK x, y \in Nat : x = HeaderLen /\ y = f[i]
    BY <1>4, <1>9
  <2> QED BY <2>1, <2>2
<1>12. len \in 0..len
  OBVIOUS
<1>13. f[len] \in Nat /\ f[len] = TotalLen(tables)
  BY <1>6, <1>7, <1>9, <1>12
<1>14. HeaderLen + TotalLen(tables) = EndOf(len)
  BY <1>11, <1>12, <1>13
<1> QED BY <1>1, <1>4, <1>11, <1>13, <1>14

LEMMA Replaced ==
  ASSUME tables \in Seq(Image), n \in 1..Len(tables), NEW im \in Image, InARow,
         tables' = [tables EXCEPT ![n] = im], UNCHANGED <<offsets, input>>,
         Size(im) = Size(tables[n])
  PROVE  /\ tables' \in Seq(Image) /\ Len(tables') = Len(tables) /\ tables'[n] = im
         /\ \A i \in 1..Len(tables) : i # n => tables'[i] = tables[i]
         /\ InARow'
<1>1. PICK len \in Nat : len = Len(tables) /\ tables \in [1..len -> Image]
  OBVIOUS
<1>2. tables' \in [1..len -> Image]
  BY <1>1
<1>3. tables' \in Seq(Image) /\ Len(tables') = len
  BY <1>2
<1>4. tables'[n] = im /\ \A i \in 1..len : i # n => tables'[i] = tables[i]
  BY <1>1
<1>5. \A i \in 1..len : Size(tables'[i]) = Size(tables[i])
  BY <1>1, <1>4
<1>6. ASSUME NEW i \in 1..len PROVE offsets'[i] = EndOf(i - 1)'
  <2>1. HeaderLen' = HeaderLen
    BY DEF HeaderLen, Count
  <2>2. i - 1 # 0 => i - 1 \in 1..len
    OBVIOUS
  <2>3. i - 1 # 0 => Size(tables'[i - 1]) = Size(tables[i - 1])
    BY <1>5, <2>2
  <2>4. EndOf(i - 1)' = IF i - 1 = 0 THEN HeaderLen ELSE offsets[i - 1] + Size(tables'[i - 1])
    BY <2>1 DEF EndOf, Size, Bytes
  <2>5. EndOf(i - 1)' = EndOf(i - 1)
    BY <2>3, <2>4 DEF EndOf
  <2> QED BY <1>1, <2>5 DEF InARow
<1> QED BY <1>1, <1>3, <1>4, <1>6 DEF InARow

-----------------------------------------------------------------------------
(* The loop at its start. *)

LEMMA FirstKeys ==
  ASSUME NEW key \in Key, NEW d, NEW c
  PROVE  Begin(d, key) => (\E K : Keyed(K, c, key)') /\ data' = d /\ at' = 1
<1> SUFFICES ASSUME Begin(d, key) PROVE (\E K : Keyed(K, c, key)') /\ data' = d /\ at' = 1
  OBVIOUS
<1>1. data' = d /\ at' = 1 /\ t1' = XorByte(key \div Base, Base - 1)
      /\ t2' = XorByte(key % Base, Base - 1)
  BY DEF Begin
<1>2. t1' \in Byte /\ t2' \in Byte
  BY <1>1, Halves, Xor
<1>3. PICK K : K = [i \in 1..2 |-> IF i = 1 THEN t1' ELSE t2']
  OBVIOUS
<1>4. K \in [1..2 -> Byte] /\ K[1] = t1' /\ K[2] = t2'
  BY <1>2, <1>3
<1>5. ASSUME NEW i \in 1..2 PROVE K[i] = KeyOf(K, c, key, i)
  <2>1. i = 1 \/ i = 2
    OBVIOUS
  <2> QED BY <1>1, <1>4, <2>1 DEF KeyOf
<1>6. AreKeys(K, c, key, 2)
  BY <1>4, <1>5 DEF AreKeys
<1>7. at' + 1 = 2
  BY <1>1
<1>8. Keyed(K, c, key)'
  BY <1>1, <1>4, <1>6, <1>7 DEF Keyed
<1> QED BY <1>1, <1>8

LEMMA ScramblingBegins ==
  ASSUME NEW key \in Key, NEW p \in Seq(Byte), Begin(p, key)
  PROVE  ScramblingOf(p, key)'
<1>1. (\E K : Keyed(K, p, key)') /\ data' = p /\ at' = 1
  BY FirstKeys
<1>2. PICK K : Keyed(K, p, key)'
  BY <1>1
<1>3. Keyed(K, data, key)'
  BY <1>1, <1>2 DEF Keyed
<1>4. InRegion(Len(p))'
  BY <1>1 DEF InRegion
<1>5. /\ \A i \in 1..(at' - 1) : data'[i] = XorByte(p[i], K[i])
      /\ \A i \in at'..Len(p) : data'[i] = p[i]
  BY <1>1
<1> QED BY <1>3, <1>4, <1>5 DEF ScramblingOf

LEMMA UnscramblingBegins ==
  ASSUME NEW key \in Key, NEW p, NEW c, Scrambled(p, c, key), Begin(c, key)
  PROVE  UnscramblingOf(p, c, key)'
<1>1. (\E K : Keyed(K, c, key)') /\ data' = c /\ at' = 1
  BY FirstKeys
<1>2. p \in Seq(Byte) /\ c \in Seq(Byte) /\ Len(c) = Len(p) /\ Len(p) \in Nat
  BY DEF Scrambled
<1>3. InRegion(Len(p))'
  BY <1>1, <1>2 DEF InRegion
<1>4. /\ \A i \in 1..(at' - 1) : data'[i] = p[i]
      /\ \A i \in at'..Len(p) : data'[i] = c[i]
  BY <1>1
<1> QED BY <1>1, <1>3, <1>4 DEF UnscramblingOf, Scrambled

-----------------------------------------------------------------------------
(* The invariant. *)

Shape == [name : Nat, head : Seq(Byte), names : Seq(Byte), mid : Seq(Byte),
          text : Seq(Byte), padding : Nat]
InputOK ==
  /\ input.version \in Versions /\ input.scramble \in BOOLEAN /\ input.tables \in Seq(Shape)
  /\ \A i \in 1..Count : /\ input.tables[i].names # <<>>
                         /\ HeadRight(input.version, input.tables[i])

(* The strings of an unscrambled table: the text is as it was given, and   *)
(* in a file not scrambled by the writer the padding is, too.              *)
Full(t) == t.text \o Zeros(t.padding)
IsText(t, s) ==
  /\ s \in Seq(Byte) /\ Len(s) = Len(t.text) + t.padding
  /\ \A k \in 1..Len(t.text) : s[k] = t.text[k]
  /\ ~input.scramble => s = Full(t)

Alike(t, im) ==
  /\ im.head = t.head /\ im.mid = t.mid
  /\ Len(im.names) = Len(t.names) /\ Len(im.strings) = Len(t.text) + t.padding
  /\ ~input.scramble => im.key = Checksum(Plain(t))
NamesKept(t, im, scrambled) ==
  IF scrambled THEN Scrambled(t.names, im.names, im.key) ELSE im.names = t.names
StringsKept(t, im, scrambled) ==
  IF scrambled THEN \E s : IsText(t, s) /\ Scrambled(s, im.strings, im.key)
  ELSE IsText(t, im.strings)
AtRest(t, im) ==
  Alike(t, im) /\ NamesKept(t, im, im.scrambled) /\ StringsKept(t, im, im.scrambled)

(* The table in hand, whose names or strings are in the loop. *)
AtNames(t, im) ==
  /\ Alike(t, im) /\ im.scrambled = ~Scrambling
  /\ StringsKept(t, im, im.scrambled)
  /\ IF Scrambling THEN im.names = t.names /\ ScramblingOf(t.names, im.key)
     ELSE UnscramblingOf(t.names, im.names, im.key)
AtStrings(t, im) ==
  /\ Alike(t, im) /\ im.scrambled = ~Scrambling
  /\ NamesKept(t, im, ~im.scrambled)
  /\ IF Scrambling
     THEN /\ IsText(t, im.strings)
          /\ op = "write" => ScramblingOf(t.text, im.key)
          /\ op # "write" => ScramblingOf(im.strings, im.key)
     ELSE \E s : IsText(t, s) /\ UnscramblingOf(s, im.strings, im.key)

InHand == pc \in {"names", "strings"}
Built == IF op = "write" /\ pc # "ready" THEN (IF pc = "table" THEN n - 1 ELSE n) ELSE Count
Frame ==
  /\ InputOK /\ extra \in Nat /\ tables \in Seq(Image) /\ offsets \in Seq(Nat)
  /\ Len(tables) = Built /\ Len(offsets) = Built /\ InARow
  /\ op \in {"write", "scramble", "unscramble", "open"}
  /\ pc \in {"table", "names", "strings", "ready"}
  /\ n \in 1..(Count + 1)
  /\ InHand => n <= Count /\ (op = "write" => input.scramble)
TablesInv ==
  \A i \in 1..Len(tables) : \A t, im :
    t = input.tables[i] /\ im = tables[i] => (i = n /\ InHand) \/ AtRest(t, im)
HandInv ==
  \A t, im : t = input.tables[n] /\ im = tables[n] =>
    (pc = "names" => AtNames(t, im)) /\ (pc = "strings" => AtStrings(t, im))
IInv == Frame /\ TablesInv /\ HandInv

LEMMA InitialInput ==
  ASSUME Init
  PROVE  InputOK
<1>1. PICK inp \in Inputs : \E order \in Bijection(DOMAIN inp.tables, DOMAIN inp.tables) :
         input = [inp EXCEPT !.tables = [i \in DOMAIN @ |-> @[order[i]]]]
  BY DEF Init
<1>2. /\ inp \in [version : Versions, scramble : BOOLEAN, tables : Seq(Shape)]
      /\ \A i \in DOMAIN inp.tables : /\ inp.tables[i].names # <<>>
                                      /\ HeadRight(inp.version, inp.tables[i])
  BY FileAssumption DEF FileAssumption, Input, Shape
<1>3. PICK tabs \in Seq(Shape) : tabs = inp.tables
  BY <1>2
<1>3a. PICK len \in Nat : len = Len(tabs) /\ tabs \in [1..len -> Shape]
  OBVIOUS
<1>4. PICK order \in [1..len -> 1..len] :
        input = [inp EXCEPT !.tables = [i \in 1..len |-> tabs[order[i]]]]
  <2>1. PICK order \in Bijection(DOMAIN tabs, DOMAIN tabs) :
          input = [inp EXCEPT !.tables = [i \in DOMAIN @ |-> @[order[i]]]]
    BY <1>1, <1>3
  <2>2. DOMAIN tabs = 1..len
    BY <1>3a
  <2>3. order \in [1..len -> 1..len]
    BY <2>2 DEF Bijection, Surjection
  <2>4. input = [inp EXCEPT !.tables = [i \in 1..len |-> tabs[order[i]]]]
    BY <1>2, <1>3, <2>1, <2>2
  <2> QED BY <2>3, <2>4
<1>5. PICK new : new = [i \in 1..len |-> tabs[order[i]]]
  OBVIOUS
<1>6. new \in Seq(Shape) /\ Len(new) = len /\ \A i \in 1..len : new[i] = tabs[order[i]]
  BY <1>3a, <1>4, <1>5
<1>7. input.tables = new /\ input.version = inp.version /\ input.scramble = inp.scramble
  BY <1>2, <1>4, <1>5
<1> QED BY <1>2, <1>3, <1>3a, <1>4, <1>6, <1>7 DEF InputOK, Count

(* Tables of the call and tables in the file. *)
LEMMA Texts ==
  ASSUME NEW t \in Shape
  PROVE  /\ Full(t) \in Seq(Byte) /\ Len(Full(t)) = Len(t.text) + t.padding /\ IsText(t, Full(t))
         /\ Plain(t) \in Image /\ Plain(t).strings = Full(t) /\ Checksum(Plain(t)) \in Key
         /\ Len(t.text) \in Nat /\ t.padding \in Nat
<1>1. t.text \in Seq(Byte) /\ t.padding \in Nat /\ 0 \in Byte
  BY Xor DEF Shape
<1>2. PICK x, z, m : x = t.text /\ m = t.padding /\ z = Zeros(m)
  OBVIOUS
<1>3. x \in Seq(Byte) /\ m \in Nat
  BY <1>1, <1>2
<1>4. z \in Seq(Byte) /\ Len(z) = m
  <2>1. z \in [1..m -> Byte]
    BY <1>1, <1>2 DEF Zeros
  <2> QED BY <1>3, <2>1
<1>5. /\ x \o z \in Seq(Byte) /\ Len(x \o z) = Len(x) + m
      /\ \A i \in 1..Len(x) : (x \o z)[i] = x[i]
  BY <1>3, <1>4, Joined
<1>6. Full(t) = x \o z
  BY <1>2 DEF Full
<1>7. 0 \in Key
  <2>1. PICK b \in Nat : b = Base /\ b > 0
    BY Xor
  <2>2. b * b \in Nat /\ b * b > 0
    BY ONLY <2>1
  <2> QED BY <2>1, <2>2 DEF Key
<1>8. Plain(t) \in Image /\ Plain(t).strings = Full(t)
  BY <1>2, <1>5, <1>6, <1>7 DEF Plain, Image, Full, Shape
<1>9. IsText(t, Full(t))
  BY <1>2, <1>5, <1>6 DEF IsText
<1>10. Len(x) \in Nat
  BY <1>3
<1> QED BY <1>2, <1>3, <1>5, <1>6, <1>8, <1>9, <1>10, Sizes

LEMMA PlainAgain ==
  ASSUME NEW t \in Shape, NEW im \in Image, AtRest(t, im), ~im.scrambled, ~input.scramble
  PROVE  Bytes(im) = Bytes(Plain(t)) /\ Checksum(im) = Checksum(Plain(t))
<1>1. im.head = t.head /\ im.mid = t.mid /\ im.names = t.names /\ im.strings = Full(t)
  BY DEF AtRest, Alike, NamesKept, StringsKept, IsText
<1>2. /\ Plain(t).head = t.head /\ Plain(t).mid = t.mid /\ Plain(t).names = t.names
      /\ Plain(t).strings = Full(t)
  BY DEF Plain, Full
<1>3. Bytes(im) = Bytes(Plain(t))
  BY <1>1, <1>2 DEF Bytes
<1> QED BY <1>3 DEF Checksum

(* What is said of a table depends on the call alone. *)
LEMMA Steady ==
  ASSUME UNCHANGED input, NEW t, NEW im
  PROVE  /\ AtRest(t, im)' <=> AtRest(t, im)
         /\ Alike(t, im)' <=> Alike(t, im)
         /\ \A s : IsText(t, s)' <=> IsText(t, s)
         /\ \A b \in BOOLEAN : StringsKept(t, im, b)' <=> StringsKept(t, im, b)
<1>1. \A s : IsText(t, s)' <=> IsText(t, s)
  BY DEF IsText
<1>2. Alike(t, im)' <=> Alike(t, im)
  BY DEF Alike
<1>3. \A b \in BOOLEAN : StringsKept(t, im, b)' <=> StringsKept(t, im, b)
  BY <1>1 DEF StringsKept
<1>4. StringsKept(t, im, im.scrambled)' <=> StringsKept(t, im, im.scrambled)
  BY <1>1 DEF StringsKept
<1> QED BY <1>1, <1>2, <1>3, <1>4 DEF AtRest

(* The table in hand. *)
LEMMA InHandTable ==
  ASSUME IInv, n <= Count
  PROVE  /\ n \in 1..Count /\ Count \in Nat /\ input.tables[n] \in Shape
         /\ (pc # "table" \/ op # "write") => n \in 1..Len(tables) /\ tables[n] \in Image
<1>1. Count \in Nat /\ n \in 1..Count
  BY DEF IInv, Frame, InputOK, Count
<1>2. input.tables[n] \in Shape
  BY <1>1 DEF IInv, Frame, InputOK, Count
<1>3. (pc # "table" \/ op # "write") => n \in 1..Len(tables)
  BY <1>1 DEF IInv, Frame, Built
<1>4. (pc # "table" \/ op # "write") => tables[n] \in Image
  BY <1>3 DEF IInv, Frame
<1> QED BY <1>1, <1>2, <1>3, <1>4

-----------------------------------------------------------------------------
(* One lemma per action. *)

LEMMA KeyOfImage ==
  ASSUME NEW im \in Image
  PROVE  /\ im.key \in Key /\ im.names \in Seq(Byte) /\ im.strings \in Seq(Byte)
         /\ im.head \in Seq(Byte) /\ im.mid \in Seq(Byte) /\ im.scrambled \in BOOLEAN
  BY DEF Image

(* In the loop what is said of the table in hand stays true. *)
LEMMA LoopKeepsNames ==
  ASSUME NEW t \in Shape, NEW im \in Image, AtNames(t, im), Loop
  PROVE  AtNames(t, im)'
<1>1. UNCHANGED <<input, op>> /\ im.key \in Key
  BY KeyOfImage DEF Loop, fvars
<1>2. Scrambling' = Scrambling
  BY <1>1 DEF Scrambling
<1>3. Alike(t, im)' /\ (im.scrambled = ~Scrambling)' /\ StringsKept(t, im, im.scrambled)'
  BY <1>1, <1>2, Steady, KeyOfImage DEF AtNames
<1>4. CASE Scrambling
  <2>1. im.names = t.names /\ ScramblingOf(t.names, im.key) /\ (ScrambleChunk \/ Remainder)
    BY <1>4 DEF AtNames, Loop
  <2>2. ScramblingOf(t.names, im.key)'
    BY <1>1, <2>1, ScrambleChunkStep, ScrambleRemainder
  <2> QED BY <1>2, <1>3, <1>4, <2>1, <2>2 DEF AtNames
<1>5. CASE ~Scrambling
  <2>1. UnscramblingOf(t.names, im.names, im.key) /\ (UnscrambleChunk \/ Remainder)
    BY <1>5 DEF AtNames, Loop
  <2>2. UnscramblingOf(t.names, im.names, im.key)'
    BY <1>1, <2>1, UnscrambleChunkStep, UnscrambleRemainder
  <2> QED BY <1>2, <1>3, <1>5, <2>2 DEF AtNames
<1> QED BY <1>4, <1>5

LEMMA LoopKeepsStrings ==
  ASSUME NEW t \in Shape, NEW im \in Image, AtStrings(t, im), Loop
  PROVE  AtStrings(t, im)'
<1>1. UNCHANGED <<input, op>> /\ im.key \in Key
  BY KeyOfImage DEF Loop, fvars
<1>2. Scrambling' = Scrambling
  BY <1>1 DEF Scrambling
<1>3. Alike(t, im)' /\ (im.scrambled = ~Scrambling)' /\ NamesKept(t, im, ~im.scrambled)'
  BY <1>1, <1>2, Steady DEF AtStrings, NamesKept
<1>4. CASE Scrambling
  <2>1. IsText(t, im.strings) /\ (ScrambleChunk \/ Remainder)
    BY <1>4 DEF AtStrings, Loop
  <2>2. IsText(t, im.strings)'
    BY <1>1, <2>1, Steady
  <2>3. op = "write" => ScramblingOf(t.text, im.key)'
    BY <1>1, <1>4, <2>1, ScrambleChunkStep, ScrambleRemainder DEF AtStrings
  <2>4. op # "write" => ScramblingOf(im.strings, im.key)'
    BY <1>1, <1>4, <2>1, ScrambleChunkStep, ScrambleRemainder DEF AtStrings
  <2> QED BY <1>1, <1>2, <1>3, <1>4, <2>2, <2>3, <2>4 DEF AtStrings
<1>5. CASE ~Scrambling
  <2>1. PICK s : IsText(t, s) /\ UnscramblingOf(s, im.strings, im.key)
    BY <1>5 DEF AtStrings
  <2>2. UnscrambleChunk \/ Remainder
    BY <1>5 DEF Loop
  <2>3. UnscramblingOf(s, im.strings, im.key)'
    BY <1>1, <2>1, <2>2, UnscrambleChunkStep, UnscrambleRemainder
  <2>4. IsText(t, s)'
    BY <1>1, <2>1, Steady
  <2> QED BY <1>2, <1>3, <1>5, <2>3, <2>4 DEF AtStrings
<1> QED BY <1>4, <1>5

(* A step that leaves the tables alone, and none or the same in hand. *)
LEMMA TablesStay ==
  ASSUME TablesInv, UNCHANGED <<input, tables>>,
         \A i \in 1..Len(tables) : (i = n /\ InHand) => (i = n /\ InHand)'
  PROVE  TablesInv'
<1> SUFFICES ASSUME NEW i \in 1..Len(tables), NEW t, NEW im, t = input.tables[i],
                    im = tables[i], ~(i = n /\ InHand)'
             PROVE  AtRest(t, im)'
  BY DEF TablesInv
<1>1. AtRest(t, im)
  BY DEF TablesInv
<1> QED BY <1>1, Steady

LEMMA LoopStep ==
  ASSUME IInv, Loop
  PROVE  IInv'
<1>1. UNCHANGED <<input, extra, tables, offsets, op, pc, n>> /\ pc \in {"names", "strings"}
  BY DEF Loop, fvars
<1>2. TablesInv'
  BY <1>1, TablesStay DEF IInv, InHand
<1>3. Frame'
  BY <1>1 DEF IInv, Frame, InputOK, Built, InARow, EndOf, HeaderLen, Count, InHand
<1>4. HandInv'
  <2> SUFFICES ASSUME NEW t, NEW im, t = input.tables[n], im = tables[n]
               PROVE  (pc = "names" => AtNames(t, im)') /\ (pc = "strings" => AtStrings(t, im)')
    BY <1>1 DEF HandInv
  <2>1. n <= Count
    BY <1>1 DEF IInv, Frame, InHand
  <2>2. t \in Shape /\ im \in Image
    BY <1>1, <2>1, InHandTable
  <2>3. (pc = "names" => AtNames(t, im)) /\ (pc = "strings" => AtStrings(t, im))
    BY DEF IInv, HandInv
  <2> QED BY <2>2, <2>3, LoopKeepsNames, LoopKeepsStrings
<1> QED BY <1>2, <1>3, <1>4 DEF IInv

LEMMA Prefix ==
  ASSUME NEW x \in Seq(Byte), NEW s \in Seq(Byte), Len(s) >= Len(x),
         \A k \in 1..Len(x) : s[k] = x[k]
  PROVE  /\ SubSeq(s, 1, Len(x)) = x
         /\ SubSeq(s, Len(x) + 1, Len(s)) \in Seq(Byte)
         /\ Len(SubSeq(s, Len(x) + 1, Len(s))) = Len(s) - Len(x)
<1>1. PICK a, b \in Nat : a = Len(x) /\ b = Len(s) /\ a <= b
  OBVIOUS
<1>2. SubSeq(s, 1, a) \in Seq(Byte) /\ Len(SubSeq(s, 1, a)) = a
      /\ \A k \in 1..a : SubSeq(s, 1, a)[k] = s[k]
  BY <1>1
<1>3. SubSeq(s, 1, a) = x
  BY <1>1, <1>2
<1>4. SubSeq(s, a + 1, b) \in Seq(Byte) /\ Len(SubSeq(s, a + 1, b)) = b - a
  BY <1>1
<1> QED BY <1>1, <1>3, <1>4

(* The table in hand is changed, but not its size. *)
LEMMA TableChanged ==
  ASSUME IInv, n <= Count, pc # "table" \/ op # "write", NEW im \in Image,
         tables' = [tables EXCEPT ![n] = im], UNCHANGED <<input, extra, offsets>>,
         Size(im) = Size(tables[n])
  PROVE  /\ tables' \in Seq(Image) /\ Len(tables') = Len(tables) /\ InARow' /\ tables'[n] = im
         /\ \A i \in 1..Len(tables) : \A t, g :
              i # n /\ t = input'.tables[i] /\ g = tables'[i] => AtRest(t, g)'
<1>1. n \in 1..Len(tables) /\ tables \in Seq(Image) /\ InARow
  BY InHandTable DEF IInv, Frame
<1>2. /\ tables' \in Seq(Image) /\ Len(tables') = Len(tables) /\ tables'[n] = im
      /\ \A i \in 1..Len(tables) : i # n => tables'[i] = tables[i]
      /\ InARow'
  BY <1>1, Replaced
<1>3. ASSUME NEW i \in 1..Len(tables), NEW t, NEW g, i # n, t = input'.tables[i], g = tables'[i]
      PROVE  AtRest(t, g)'
  <2>1. t = input.tables[i] /\ g = tables[i]
    BY <1>2, <1>3
  <2>2. AtRest(t, g)
    BY <1>3, <2>1 DEF IInv, TablesInv
  <2> QED BY <2>2, Steady
<1> QED BY <1>2, <1>3

LEMMA NamesDoneStep ==
  ASSUME IInv, NamesDone
  PROVE  IInv'
<1>1. pc = "names" /\ AtEnd /\ pc' = "strings" /\ UNCHANGED <<input, extra, offsets, op, n>>
  BY DEF NamesDone
<1>2. n <= Count
  BY <1>1 DEF IInv, Frame, InHand
<1>3. PICK t, g : t = input.tables[n] /\ g = tables[n]
  OBVIOUS
<1>4. t \in Shape /\ g \in Image /\ n \in 1..Len(tables)
  BY <1>1, <1>2, <1>3, InHandTable
<1>5. AtNames(t, g)
  BY <1>1, <1>3 DEF IInv, HandInv
<1>6. g.key \in Key /\ g.strings \in Seq(Byte)
  BY <1>4, KeyOfImage
<1>7. PICK d : d = data
  OBVIOUS
<1>8. d \in Seq(Byte) /\ Len(d) = Len(t.names)
      /\ IF Scrambling THEN Scrambled(t.names, d, g.key) ELSE d = t.names
  <2>1. CASE Scrambling
    <3>1. Scrambled(t.names, d, g.key)
      BY <1>1, <1>5, <1>6, <1>7, <2>1, ScramblingDone DEF AtNames
    <3> QED BY <2>1, <3>1 DEF Scrambled
  <2>2. CASE ~Scrambling
    <3>1. d = t.names
      BY <1>1, <1>5, <1>6, <1>7, <2>2, UnscramblingDone DEF AtNames
    <3> QED BY <1>4, <2>2, <3>1 DEF Shape
  <2> QED BY <2>1, <2>2
<1>9. PICK im : im = [g EXCEPT !.names = d]
  OBVIOUS
<1>10. /\ im \in Image /\ im.head = g.head /\ im.mid = g.mid /\ im.names = d
       /\ im.strings = g.strings /\ im.key = g.key /\ im.scrambled = g.scrambled
  BY <1>4, <1>8, <1>9 DEF Image
<1>11. tables' = [tables EXCEPT ![n] = im]
  <2>1. tables' = [tables EXCEPT ![n].names = d]
    BY <1>7 DEF NamesDone
  <2> QED BY <1>3, <1>9, <2>1
<1>12. Size(im) = Size(g)
  <2>1. Len(im.names) = Len(g.names)
    BY <1>5, <1>8, <1>10 DEF AtNames, Alike
  <2> QED BY <1>4, <1>10, <2>1, Sizes
<1>13. Alike(t, im) /\ NamesKept(t, im, ~im.scrambled) /\ StringsKept(t, im, im.scrambled)
  <2>1. Alike(t, im) /\ StringsKept(t, im, im.scrambled)
    BY <1>5, <1>8, <1>10 DEF AtNames, Alike, StringsKept
  <2>2. NamesKept(t, im, ~im.scrambled)
    BY <1>5, <1>8, <1>10 DEF AtNames, NamesKept
  <2> QED BY <2>1, <2>2
<1>14. Begin(Region, g.key)
  BY <1>3 DEF NamesDone
<1>15. Scrambling' = Scrambling /\ im.scrambled = ~Scrambling
  BY <1>1, <1>5, <1>10 DEF Scrambling, AtNames
<1>16. AtStrings(t, im)'
  <2>1. CASE Scrambling
    <3>1. IsText(t, im.strings)
      BY <1>13, <1>15, <2>1 DEF StringsKept
    <3>2. CASE op = "write"
      <4>1. t.text \in Seq(Byte) /\ g.strings \in Seq(Byte) /\ Len(g.strings) >= Len(t.text)
            /\ \A k \in 1..Len(t.text) : g.strings[k] = t.text[k]
        BY <1>4, <1>10, <3>1, Texts DEF IsText, Shape
      <4>2. Region = t.text
        BY <1>3, <3>2, <4>1, Prefix DEF Region, TextLen
      <4>3. ScramblingOf(t.text, g.key)'
        BY <1>6, <1>14, <4>1, <4>2, ScramblingBegins
      <4> QED BY <1>1, <1>10, <1>13, <1>15, <2>1, <3>1, <3>2, <4>3, Steady DEF AtStrings, NamesKept
    <3>3. CASE op # "write"
      <4>1. Begin(g.strings, g.key)
        BY <1>3, <1>14, <3>3 DEF Region
      <4>2. ScramblingOf(g.strings, g.key)'
        BY <1>6, <4>1, ScramblingBegins
      <4> QED BY <1>1, <1>10, <1>13, <1>15, <2>1, <3>1, <3>3, <4>2, Steady DEF AtStrings, NamesKept
    <3> QED BY <3>2, <3>3
  <2>2. CASE ~Scrambling
    <3>1. PICK s : IsText(t, s) /\ Scrambled(s, g.strings, g.key)
      BY <1>10, <1>13, <1>15, <2>2 DEF StringsKept
    <3>2. Begin(g.strings, g.key)
      BY <1>3, <1>14, <2>2 DEF Region, Scrambling
    <3>3. UnscramblingOf(s, g.strings, g.key)'
      BY <1>6, <3>1, <3>2, UnscramblingBegins
    <3>4. IsText(t, s)'
      BY <1>1, <3>1, Steady
    <3> QED BY <1>1, <1>10, <1>13, <1>15, <2>2, <3>3, <3>4, Steady DEF AtStrings, NamesKept
  <2> QED BY <2>1, <2>2
<1>17. /\ tables' \in Seq(Image) /\ Len(tables') = Len(tables) /\ InARow' /\ tables'[n] = im
       /\ \A i \in 1..Len(tables) : \A u, h :
            i # n /\ u = input'.tables[i] /\ h = tables'[i] => AtRest(u, h)'
  BY <1>1, <1>2, <1>3, <1>10, <1>11, <1>12, TableChanged
<1>18. HandInv'
  BY <1>1, <1>3, <1>16, <1>17 DEF HandInv
<1>19. TablesInv'
  BY <1>1, <1>17 DEF TablesInv, InHand
<1>20. Frame'
  BY <1>1, <1>17 DEF IInv, Frame, InputOK, Built, Count, InHand
<1> QED BY <1>18, <1>19, <1>20 DEF IInv

LEMMA StringsDoneStep ==
  ASSUME IInv, StringsDone
  PROVE  IInv'
<1>1. /\ pc = "strings" /\ AtEnd /\ pc' = "table" /\ n' = n + 1
      /\ UNCHANGED <<input, extra, offsets, op>>
  BY DEF StringsDone
<1>2. n <= Count
  BY <1>1 DEF IInv, Frame, InHand
<1>3. PICK t, g : t = input.tables[n] /\ g = tables[n]
  OBVIOUS
<1>4. t \in Shape /\ g \in Image /\ n \in 1..Len(tables) /\ n \in 1..Count /\ Count \in Nat
  BY <1>1, <1>2, <1>3, InHandTable
<1>5. AtStrings(t, g)
  BY <1>1, <1>3 DEF IInv, HandInv
<1>6. g.key \in Key /\ g.strings \in Seq(Byte)
  BY <1>4, KeyOfImage
<1>7. PICK d, o, e : d = data /\ o = Outside /\ e = d \o o
  OBVIOUS
<1>8. /\ e \in Seq(Byte) /\ Len(e) = Len(g.strings)
      /\ IF Scrambling THEN \E s : IsText(t, s) /\ Scrambled(s, e, g.key) ELSE IsText(t, e)
  <2>1. CASE Scrambling /\ op = "write"
    <3>1. /\ t.text \in Seq(Byte) /\ g.strings \in Seq(Byte)
          /\ Len(g.strings) = Len(t.text) + t.padding /\ Len(t.text) \in Nat /\ t.padding \in Nat
          /\ \A k \in 1..Len(t.text) : g.strings[k] = t.text[k]
      BY <1>4, <1>5, <2>1, Texts DEF AtStrings, IsText, Shape
    <3>2. o = SubSeq(g.strings, Len(t.text) + 1, Len(g.strings))
      BY <1>3, <1>7, <2>1 DEF Outside, TextLen
    <3>3. o \in Seq(Byte) /\ Len(o) = t.padding
      <4>1. Len(g.strings) >= Len(t.text)
        BY <3>1
      <4>2. o \in Seq(Byte) /\ Len(o) = Len(g.strings) - Len(t.text)
        BY <3>1, <3>2, <4>1, Prefix
      <4> QED BY <3>1, <4>2
    <3>4. Scrambled(t.text, d, g.key)
      BY <1>1, <1>5, <1>6, <1>7, <2>1, ScramblingDone DEF AtStrings
    <3>5. PICK s : /\ Scrambled(s, e, g.key) /\ Len(s) = Len(t.text) + Len(o)
                   /\ \A i \in 1..Len(t.text) : s[i] = t.text[i]
      <4>1. \E s : /\ Scrambled(s, d \o o, g.key) /\ Len(s) = Len(t.text) + Len(o)
                   /\ \A i \in 1..Len(t.text) : s[i] = t.text[i]
        <5>1. PICK key \in Key : key = g.key
          BY <1>6
        <5>2. PICK p : p = t.text
          OBVIOUS
        <5>3. Scrambled(p, d, key) /\ o \in Seq(Byte)
          BY <3>3, <3>4, <5>1, <5>2
        <5>4. \E s : /\ Scrambled(s, d \o o, key) /\ Len(s) = Len(p) + Len(o)
                     /\ \A i \in 1..Len(p) : s[i] = p[i]
          BY ONLY <5>3, Extended
        <5> QED BY <5>1, <5>2, <5>4
      <4> QED BY <1>7, <4>1
    <3>6. s \in Seq(Byte) /\ e \in Seq(Byte) /\ Len(e) = Len(s)
      BY <3>5 DEF Scrambled
    <3>7. input.scramble
      BY <1>1, <2>1 DEF IInv, Frame, InHand
    <3>8. IsText(t, s)
      BY <3>3, <3>5, <3>6, <3>7 DEF IsText
    <3> QED BY <2>1, <3>1, <3>3, <3>5, <3>6, <3>8
  <2>2. CASE op # "write"
    <3>1. o = <<>>
      BY <1>7, <2>2 DEF Outside
    <3>2. CASE Scrambling
      <4>1. Scrambled(g.strings, d, g.key)
        BY <1>1, <1>5, <1>6, <1>7, <2>2, <3>2, ScramblingDone DEF AtStrings
      <4>2. e = d
        BY <1>7, <3>1, <4>1 DEF Scrambled
      <4> QED BY <1>5, <3>2, <4>1, <4>2 DEF Scrambled, AtStrings
    <3>3. CASE ~Scrambling
      <4>1. PICK s : IsText(t, s) /\ UnscramblingOf(s, g.strings, g.key)
        BY <1>5, <3>3 DEF AtStrings
      <4>2. d = s
        BY <1>1, <1>6, <1>7, <4>1, UnscramblingDone
      <4>3. e = s
        BY <1>7, <3>1, <4>1, <4>2 DEF IsText
      <4> QED BY <1>5, <3>3, <4>1, <4>3 DEF IsText, AtStrings, Alike
    <3> QED BY <3>2, <3>3
  <2> QED BY <2>1, <2>2 DEF Scrambling
<1>9. PICK scr \in BOOLEAN : scr <=> Scrambling
  OBVIOUS
<1>10. PICK im : im = [g EXCEPT !.strings = e, !.scrambled = scr]
  OBVIOUS
<1>11. /\ im \in Image /\ im.head = g.head /\ im.mid = g.mid /\ im.names = g.names
       /\ im.strings = e /\ im.key = g.key /\ im.scrambled = scr
  BY <1>4, <1>8, <1>9, <1>10 DEF Image
<1>12. tables' = [tables EXCEPT ![n] = im]
  <2>1. tables' = [tables EXCEPT ![n].strings = e, ![n].scrambled = Scrambling]
    BY <1>7 DEF StringsDone
  <2>2. Scrambling = scr
    BY <1>9 DEF Scrambling
  <2> QED BY <1>3, <1>4, <1>10, <2>1, <2>2
<1>13. Size(im) = Size(g)
  BY <1>4, <1>8, <1>11, Sizes
<1>14. AtRest(t, im)
  <2>1. Alike(t, im)
    BY <1>5, <1>8, <1>11 DEF AtStrings, Alike
  <2>2. NamesKept(t, im, im.scrambled)
    BY <1>5, <1>9, <1>11 DEF AtStrings, NamesKept
  <2>3. StringsKept(t, im, im.scrambled)
    BY <1>8, <1>9, <1>11 DEF StringsKept
  <2> QED BY <2>1, <2>2, <2>3 DEF AtRest
<1>15. /\ tables' \in Seq(Image) /\ Len(tables') = Len(tables) /\ InARow' /\ tables'[n] = im
       /\ \A i \in 1..Len(tables) : \A u, h :
            i # n /\ u = input'.tables[i] /\ h = tables'[i] => AtRest(u, h)'
  BY <1>1, <1>2, <1>3, <1>11, <1>12, <1>13, TableChanged
<1>16. AtRest(t, im)'
  BY <1>1, <1>14, Steady
<1>17. TablesInv'
  BY <1>1, <1>3, <1>15, <1>16 DEF TablesInv
<1>18. HandInv'
  BY <1>1 DEF HandInv
<1>19. Frame'
  <2>1. Len(tables)' = Built' /\ Len(offsets)' = Built'
    BY <1>1, <1>4, <1>15 DEF IInv, Frame, Built, Count
  <2>2. n' \in 1..(Count + 1)
    BY <1>1, <1>4
  <2> QED BY <1>1, <1>15, <2>1, <2>2 DEF IInv, Frame, InputOK, Count, InHand
<1> QED BY <1>17, <1>18, <1>19 DEF IInv

LEMMA SkipTableStep ==
  ASSUME IInv, SkipTable
  PROVE  IInv'
<1>1. /\ pc = "table" /\ op # "write" /\ n <= Count /\ n' = n + 1
      /\ UNCHANGED <<input, extra, tables, offsets, op, pc>>
  BY DEF SkipTable
<1>2. TablesInv'
  BY <1>1, TablesStay DEF IInv, InHand
<1>3. HandInv'
  BY <1>1 DEF HandInv
<1>4. n' \in 1..(Count + 1)
  BY <1>1, InHandTable
<1>5. Frame'
  BY <1>1, <1>4 DEF IInv, Frame, InputOK, Built, InARow, EndOf, HeaderLen, Count, InHand
<1> QED BY <1>2, <1>3, <1>5 DEF IInv

LEMMA TablesDoneStep ==
  ASSUME IInv, TablesDone
  PROVE  IInv'
<1>1. /\ pc = "table" /\ n > Count /\ pc' = "ready"
      /\ UNCHANGED <<input, extra, tables, offsets, op, n>>
  BY DEF TablesDone
<1>2. TablesInv'
  BY <1>1, TablesStay DEF IInv, InHand
<1>3. HandInv'
  BY <1>1 DEF HandInv
<1>4. Built = Count /\ Built' = Count
  BY <1>1 DEF IInv, Frame, Built, Count, InputOK
<1>5. Frame'
  BY <1>1, <1>4 DEF IInv, Frame, InputOK, InARow, EndOf, HeaderLen, Count, InHand
<1> QED BY <1>2, <1>3, <1>5 DEF IInv

LEMMA StartAllStep ==
  ASSUME IInv, pc = "ready", pc' \in {"ready", "table"}, n' \in {n, 1},
         op' \in {"scramble", "unscramble", "open", op}, pc' = "table" => op' # "write",
         UNCHANGED <<input, extra, tables, offsets>>
  PROVE  IInv'
<1>1. TablesInv'
  BY TablesStay DEF IInv, InHand
<1>2. HandInv'
  BY DEF HandInv
<1>3. Built = Count /\ Built' = Count
  BY DEF Built, Count
<1>4. n' \in 1..(Count + 1)
  BY DEF IInv, Frame, InputOK, Count
<1>5. Frame'
  BY <1>3, <1>4 DEF IInv, Frame, InputOK, InARow, EndOf, HeaderLen, Count, InHand
<1> QED BY <1>1, <1>2, <1>5 DEF IInv

(* A table goes up to the next one, whatever follows the file. *)
LEMMA Slices ==
  ASSUME IInv, Built = Count, NEW i \in 1..Count
  PROVE  /\ SliceEnd(i) = offsets[i] + Size(tables[i])
         /\ offsets[i] \in Nat /\ Size(tables[i]) \in Nat /\ offsets[i] = EndOf(i - 1)
<1>1. /\ Count \in Nat /\ Len(tables) = Count /\ Len(offsets) = Count
      /\ tables \in Seq(Image) /\ offsets \in Seq(Nat) /\ InARow /\ extra \in Nat
  BY DEF IInv, Frame, InputOK, Count
<1>2. offsets[i] \in Nat /\ tables[i] \in Image /\ offsets[i] = EndOf(i - 1)
  BY <1>1 DEF InARow
<1>3. Size(tables[i]) \in Nat
  BY <1>2, Sizes
<1>4. CASE i < Count
  <2>1. i + 1 \in 1..Count /\ i + 1 - 1 = i /\ i # 0
    BY <1>1, <1>4
  <2>2. offsets[i + 1] = EndOf(i)
    BY <1>1, <2>1 DEF InARow
  <2> QED BY <1>2, <1>3, <1>4, <2>1, <2>2 DEF SliceEnd, EndOf
<1>5. CASE i = Count
  <2>1. FileSize = EndOf(Count) /\ FileSize \in Nat
    <3>1. HeaderLen + TotalLen(tables) = EndOf(Len(tables)) /\ EndOf(Count) \in Nat
      BY <1>1, Totals
    <3> QED BY <1>1, <3>1 DEF FileSize
  <2>2. Smaller(FileSize, FileSize + extra) = FileSize
    BY <1>1, <2>1 DEF Smaller
  <2>3. SliceEnd(i) = EndOf(i)
    BY <1>5, <2>1, <2>2 DEF SliceEnd
  <2> QED BY <1>2, <1>3, <1>5, <2>3 DEF EndOf
<1> QED BY <1>1, <1>2, <1>3, <1>4, <1>5

LEMMA StartTableStep ==
  ASSUME IInv, StartTable
  PROVE  IInv'
<1>1. /\ pc = "table" /\ op # "write" /\ n <= Count /\ ~Skips(tables[n])
      /\ UNCHANGED <<input, extra, offsets, op, n>>
  BY DEF StartTable
<1>2. PICK t, g : t = input.tables[n] /\ g = tables[n]
  OBVIOUS
<1>3. t \in Shape /\ g \in Image /\ n \in 1..Len(tables) /\ n \in 1..Count /\ Count \in Nat
  BY <1>1, <1>2, InHandTable
<1>4. AtRest(t, g)
  BY <1>1, <1>2, <1>3 DEF IInv, TablesInv, InHand
<1>5. InSlice(n)
  <2>1. Built = Count
    BY <1>1 DEF Built
  <2>2. /\ SliceEnd(n) = offsets[n] + Size(tables[n])
        /\ offsets[n] \in Nat /\ Size(tables[n]) \in Nat
    BY <1>3, <2>1, Slices
  <2> QED BY <2>2 DEF InSlice
<1>6. PICK key : /\ key = IF Scrambling THEN Checksum(g) ELSE g.key
                 /\ tables' = [tables EXCEPT ![n].key = key] /\ Begin(g.names, key)
                 /\ pc' = "names"
  BY <1>2, <1>5 DEF StartTable
<1>7. key \in Key /\ g.names \in Seq(Byte)
  BY <1>3, <1>6, KeyOfImage, Sizes
<1>8. PICK im : im = [g EXCEPT !.key = key]
  OBVIOUS
<1>9. /\ im \in Image /\ im.head = g.head /\ im.mid = g.mid /\ im.names = g.names
      /\ im.strings = g.strings /\ im.key = key /\ im.scrambled = g.scrambled
  BY <1>3, <1>7, <1>8 DEF Image
<1>10. Size(im) = Size(g)
  BY <1>3, <1>9, Sizes
<1>11. im.scrambled = ~Scrambling /\ Scrambling' = Scrambling
  BY <1>1, <1>2, <1>3, <1>9, KeyOfImage DEF Skips, Scrambling
<1>12. Alike(t, im)
  <2>1. ~input.scramble => key = Checksum(Plain(t))
    <3>1. CASE Scrambling
      BY <1>3, <1>4, <1>6, <1>9, <1>11, <3>1, PlainAgain
    <3>2. CASE ~Scrambling
      BY <1>4, <1>6, <3>2 DEF AtRest, Alike
    <3> QED BY <3>1, <3>2
  <2> QED BY <1>4, <1>9, <2>1 DEF AtRest, Alike
<1>13. AtNames(t, im)'
  <2>1. CASE Scrambling
    <3>1. im.names = t.names
      BY <1>4, <1>9, <1>11, <2>1 DEF AtRest, NamesKept
    <3>2. ScramblingOf(t.names, key)'
      BY <1>6, <1>7, <1>9, <3>1, ScramblingBegins
    <3>3. StringsKept(t, im, im.scrambled)
      BY <1>4, <1>9, <1>11, <2>1 DEF AtRest, StringsKept
    <3>4. StringsKept(t, im, im.scrambled)' /\ Alike(t, im)'
      BY <1>1, <1>9, <1>12, <3>3, Steady, KeyOfImage
    <3> QED BY <1>9, <1>11, <2>1, <3>1, <3>2, <3>4 DEF AtNames
  <2>2. CASE ~Scrambling
    <3>1. Scrambled(t.names, g.names, key)
      BY <1>4, <1>6, <1>9, <1>11, <2>2 DEF AtRest, NamesKept
    <3>2. UnscramblingOf(t.names, g.names, key)'
      BY <1>6, <1>7, <3>1, UnscramblingBegins
    <3>3. StringsKept(t, im, im.scrambled)
      BY <1>4, <1>6, <1>9, <1>11, <2>2 DEF AtRest, StringsKept
    <3>4. StringsKept(t, im, im.scrambled)' /\ Alike(t, im)'
      BY <1>1, <1>9, <1>12, <3>3, Steady, KeyOfImage
    <3> QED BY <1>9, <1>11, <2>2, <3>2, <3>4 DEF AtNames
  <2> QED BY <2>1, <2>2
<1>14. tables' = [tables EXCEPT ![n] = im]
  BY <1>2, <1>6, <1>8
<1>15. /\ tables' \in Seq(Image) /\ Len(tables') = Len(tables) /\ InARow' /\ tables'[n] = im
       /\ \A i \in 1..Len(tables) : \A u, h :
            i # n /\ u = input'.tables[i] /\ h = tables'[i] => AtRest(u, h)'
  BY <1>1, <1>2, <1>9, <1>10, <1>14, TableChanged
<1>16. HandInv'
  BY <1>1, <1>2, <1>6, <1>13, <1>15 DEF HandInv
<1>17. TablesInv'
  BY <1>1, <1>6, <1>15 DEF TablesInv, InHand
<1>18. Frame'
  BY <1>1, <1>6, <1>15 DEF IInv, Frame, InputOK, Built, Count, InHand
<1> QED BY <1>16, <1>17, <1>18 DEF IInv

LEMMA WriteTableStep ==
  ASSUME IInv, WriteTable
  PROVE  IInv'
<1>1. op = "write" /\ pc = "table" /\ n <= Count /\ UNCHANGED <<input, extra, op>>
  BY DEF WriteTable
<1>2. PICK t : t = input.tables[n]
  OBVIOUS
<1>3. t \in Shape /\ n \in 1..Count /\ Count \in Nat
  BY <1>1, <1>2, InHandTable
<1>4. PICK key, im : key = Checksum(Plain(t)) /\ im = [Plain(t) EXCEPT !.key = key]
  OBVIOUS
<1>5. /\ tables' = Append(tables, im) /\ offsets' = Append(offsets, HeaderLen + TotalLen(tables))
      /\ \/ input.scramble /\ Begin(t.names, key) /\ pc' = "names" /\ n' = n
         \/ ~input.scramble /\ n' = n + 1 /\ pc' = pc
  BY <1>2, <1>4 DEF WriteTable, Plain
<1>6. key \in Key /\ Plain(t) \in Image /\ Plain(t).strings = Full(t)
  BY <1>3, <1>4, Texts
<1>7. /\ im \in Image /\ im.head = t.head /\ im.mid = t.mid /\ im.names = t.names
      /\ im.strings = Full(t) /\ im.key = key /\ im.scrambled = FALSE
  BY <1>4, <1>6 DEF Image, Plain
<1>8. IsText(t, im.strings) /\ Len(im.strings) = Len(t.text) + t.padding /\ t.names \in Seq(Byte)
  BY <1>3, <1>7, Texts DEF Shape
<1>9. /\ Alike(t, im) /\ NamesKept(t, im, im.scrambled) /\ StringsKept(t, im, im.scrambled)
  BY <1>4, <1>7, <1>8 DEF Alike, NamesKept, StringsKept
<1>10. PICK m \in Nat : /\ m = n - 1 /\ m + 1 = n /\ Len(tables) = m /\ Len(offsets) = m
                        /\ tables \in Seq(Image) /\ offsets \in Seq(Nat)
  BY <1>1, <1>3 DEF IInv, Frame, Built
<1>11. /\ tables' \in Seq(Image) /\ Len(tables') = n /\ tables'[n] = im
       /\ \A i \in 1..m : tables'[i] = tables[i]
  BY <1>5, <1>7, <1>10
<1>12. PICK start \in Nat : start = HeaderLen + TotalLen(tables) /\ start = EndOf(m)
  <2>1. /\ HeaderLen + TotalLen(tables) = EndOf(Len(tables))
        /\ \A i \in 0..Len(tables) : EndOf(i) \in Nat
    BY <1>3, <1>10, Totals DEF IInv, Frame
  <2>2. EndOf(m) \in Nat
    BY <1>10, <2>1
  <2> QED BY <1>10, <2>1, <2>2
<1>13. /\ offsets' \in Seq(Nat) /\ Len(offsets') = n /\ offsets'[n] = start
       /\ \A i \in 1..m : offsets'[i] = offsets[i]
  BY <1>5, <1>10, <1>12
<1>14. InARow'
  <2>1. HeaderLen' = HeaderLen
    BY <1>1 DEF HeaderLen, Count
  <2>2. ASSUME NEW i \in 0..m PROVE EndOf(i)' = EndOf(i)
    <3>1. i # 0 => offsets'[i] = offsets[i] /\ tables'[i] = tables[i]
      BY <1>11, <1>13
    <3>2. i # 0 => Size(tables'[i]) = Size(tables[i])
      BY <3>1
    <3>3. EndOf(i)' = IF i = 0 THEN HeaderLen ELSE offsets'[i] + Size(tables'[i])
      BY <2>1 DEF EndOf, Size, Bytes
    <3> QED BY <3>1, <3>2, <3>3 DEF EndOf
  <2>3. ASSUME NEW i \in 1..n PROVE offsets'[i] = EndOf(i - 1)'
    <3>1. i - 1 \in 0..m
      BY <1>10
    <3>2. EndOf(i - 1)' = EndOf(i - 1)
      BY <2>2, <3>1
    <3>3. CASE i = n
      BY <1>10, <1>12, <1>13, <3>2, <3>3
    <3>4. CASE i # n
      <4>1. i \in 1..m
        BY <1>10, <3>4
      <4> QED BY <1>10, <1>13, <3>2, <4>1 DEF IInv, Frame, InARow
    <3> QED BY <3>3, <3>4
  <2> QED BY <1>11, <2>3 DEF InARow
<1>15. ASSUME NEW i \in 1..m, NEW u, NEW h, u = input'.tables[i], h = tables'[i]
       PROVE  AtRest(u, h)'
  <2>1. u = input.tables[i] /\ h = tables[i] /\ i \in 1..Len(tables)
    BY <1>1, <1>10, <1>11, <1>15
  <2>2. AtRest(u, h)
    BY <1>1, <2>1 DEF IInv, TablesInv, InHand
  <2> QED BY <1>1, <2>2, Steady
<1>16. CASE input.scramble /\ Begin(t.names, key) /\ pc' = "names" /\ n' = n
  <2>1. ScramblingOf(t.names, im.key)'
    BY <1>6, <1>7, <1>8, <1>16, ScramblingBegins
  <2>2. StringsKept(t, im, im.scrambled)' /\ Alike(t, im)'
    BY <1>1, <1>7, <1>9, Steady
  <2>3. Scrambling'
    BY <1>1 DEF Scrambling
  <2>4. AtNames(t, im)'
    BY <1>7, <2>1, <2>2, <2>3 DEF AtNames
  <2>5. HandInv'
    BY <1>1, <1>2, <1>11, <1>16, <2>4 DEF HandInv
  <2>6. TablesInv'
    <3>1. \A i \in 1..n : i = n \/ i \in 1..m
      BY <1>10
    <3> QED BY <1>1, <1>11, <1>15, <1>16, <3>1 DEF TablesInv, InHand
  <2>7. Frame'
    <3>1. Built' = n
      BY <1>1, <1>16 DEF Built
    <3> QED BY <1>1, <1>3, <1>11, <1>13, <1>14, <1>16, <3>1 DEF IInv, Frame, InputOK, Count, InHand
  <2> QED BY <2>5, <2>6, <2>7 DEF IInv
<1>17. CASE ~input.scramble /\ n' = n + 1 /\ pc' = pc
  <2>1. AtRest(t, im)'
    BY <1>1, <1>9, Steady DEF AtRest
  <2>2. HandInv'
    BY <1>1, <1>17 DEF HandInv
  <2>3. TablesInv'
    <3>1. \A i \in 1..n : i = n \/ i \in 1..m
      BY <1>10
    <3> QED BY <1>1, <1>2, <1>11, <1>15, <2>1, <3>1 DEF TablesInv
  <2>4. Frame'
    <3>1. Built' = n
      BY <1>1, <1>3, <1>17 DEF Built
    <3>2. n' \in 1..(Count + 1)
      BY <1>3, <1>17
    <3> QED BY <1>1, <1>11, <1>13, <1>14, <1>17, <3>1, <3>2 DEF IInv, Frame, InputOK, Count, InHand
  <2> QED BY <2>2, <2>3, <2>4 DEF IInv
<1> QED BY <1>5, <1>16, <1>17

LEMMA InitIInv == Init => IInv
<1> SUFFICES ASSUME Init PROVE IInv
  OBVIOUS
<1>1. InputOK
  BY InitialInput
<1>2. /\ extra \in Nat /\ tables = <<>> /\ offsets = <<>> /\ op = "write" /\ pc = "table" /\ n = 1
  BY FileAssumption DEF Init, FileAssumption
<1>3. Count \in Nat
  BY <1>1 DEF InputOK, Count
<1>4. Frame
  <2>1. n \in 1..(Count + 1) /\ Built = 0
    BY <1>2, <1>3 DEF Built
  <2> QED BY <1>1, <1>2, <2>1 DEF Frame, InARow, InHand
<1>5. TablesInv /\ HandInv
  BY <1>2 DEF TablesInv, HandInv
<1> QED BY <1>4, <1>5 DEF IInv

LEMMA NextIInv == IInv /\ [Next]_vars => IInv'
<1> SUFFICES ASSUME IInv, [Next]_vars PROVE IInv'
  OBVIOUS
<1>1. CASE UNCHANGED vars
  <2>1. UNCHANGED <<input, extra, tables, offsets, op, pc, n, data, at, t1, t2>>
    BY <1>1 DEF vars, fvars, svars
  <2>2. Frame'
    BY <2>1 DEF IInv, Frame, InputOK, Built, InARow, EndOf, HeaderLen, Count, InHand
  <2>3. TablesInv'
    BY <2>1, TablesStay DEF IInv, InHand
  <2>4. ASSUME NEW t, NEW im
        PROVE  (AtNames(t, im)' <=> AtNames(t, im)) /\ (AtStrings(t, im)' <=> AtStrings(t, im))
    BY <2>1 DEF AtNames, AtStrings, Alike, StringsKept, NamesKept, IsText, Scrambling,
                ScramblingOf, UnscramblingOf, Keyed, InRegion
  <2>5. HandInv'
    BY <2>1, <2>4 DEF IInv, HandInv
  <2> QED BY <2>2, <2>3, <2>5 DEF IInv
<1>2. CASE WriteTable
  BY <1>2, WriteTableStep
<1>3. CASE SkipTable
  BY <1>3, SkipTableStep
<1>4. CASE StartTable
  BY <1>4, StartTableStep
<1>5. CASE Loop
  BY <1>5, LoopStep
<1>6. CASE NamesDone
  BY <1>6, NamesDoneStep
<1>7. CASE StringsDone
  BY <1>7, StringsDoneStep
<1>8. CASE TablesDone
  BY <1>8, TablesDoneStep
<1>9. ASSUME NEW tool \in {"scramble", "unscramble"}, StartTool(tool)
      PROVE  IInv'
  <2>1. /\ pc = "ready" /\ UNCHANGED <<input, extra, tables, offsets>>
        /\ \/ UNCHANGED <<op, pc, n>>
           \/ op' = tool /\ pc' = "table" /\ n' = 1
    BY <1>9 DEF StartTool
  <2> QED BY <2>1, StartAllStep
<1>10. CASE Open
  BY <1>10, StartAllStep DEF Open
<1>11. CASE Rest
  BY <1>1, <1>11 DEF Rest
<1> QED BY <1>1, <1>2, <1>3, <1>4, <1>5, <1>6, <1>7, <1>8, <1>9, <1>10, <1>11 DEF Next

LEMMA Invariance == Spec => []IInv
  BY InitIInv, NextIInv, PTL DEF Spec

-----------------------------------------------------------------------------
(* The results. *)

LEMMA TextKeptAlways == IInv => TextKept
<1> SUFFICES ASSUME IInv, pc = "ready", NEW i \in 1..Count
             PROVE  /\ ~tables[i].scrambled =>
                         /\ tables[i].names = input.tables[i].names
                         /\ SubSeq(tables[i].strings, 1, Len(input.tables[i].text))
                              = input.tables[i].text
                         /\ ~input.scramble => Bytes(tables[i]) = Bytes(Plain(input.tables[i]))
                    /\ ~input.scramble => tables[i].key = Checksum(Plain(input.tables[i]))
  BY DEF TextKept
<1>1. PICK t, im : t = input.tables[i] /\ im = tables[i]
  OBVIOUS
<1>2. t \in Shape /\ im \in Image /\ i \in 1..Len(tables)
  BY <1>1 DEF IInv, Frame, InputOK, Built, Count
<1>3. AtRest(t, im)
  BY <1>1, <1>2 DEF IInv, TablesInv, InHand
<1>4. ~input.scramble => im.key = Checksum(Plain(t))
  BY <1>3 DEF AtRest, Alike
<1>5. ASSUME ~im.scrambled
      PROVE  /\ im.names = t.names /\ SubSeq(im.strings, 1, Len(t.text)) = t.text
             /\ ~input.scramble => Bytes(im) = Bytes(Plain(t))
  <2>1. im.names = t.names /\ IsText(t, im.strings)
    BY <1>3, <1>5 DEF AtRest, NamesKept, StringsKept
  <2>2. /\ t.text \in Seq(Byte) /\ im.strings \in Seq(Byte) /\ Len(im.strings) >= Len(t.text)
        /\ \A k \in 1..Len(t.text) : im.strings[k] = t.text[k]
    BY <1>2, <2>1, Texts DEF IsText, Shape
  <2>3. SubSeq(im.strings, 1, Len(t.text)) = t.text
    BY <2>2, Prefix
  <2> QED BY <1>2, <1>3, <1>5, <2>1, <2>3, PlainAgain
<1> QED BY <1>1, <1>4, <1>5

LEMMA SlicesAlways == IInv => SlicesAreTables
<1> SUFFICES ASSUME IInv PROVE SlicesAreTables
  OBVIOUS
<1>1. pc # "panic"
  BY DEF IInv, Frame
<1>2. ASSUME pc = "ready", NEW i \in 1..Count
      PROVE  SliceEnd(i) = offsets[i] + Size(tables[i])
  BY <1>2, Slices DEF Built
<1> QED BY <1>1, <1>2 DEF SlicesAreTables

LEMMA DetectionAlways == IInv => DetectionRight
<1> DEFINE Excused ==
      \/ input.version = "X" /\ 4 * Count + 44 > Final
      \/ /\ input.version = "Wii" /\ First.head = <<>>
         /\ input.tables[1].names[1] = 0 \/ First.scrambled \/ Final >= Page
      \/ input.version = "Wii" /\ Len(First.head) \in 4..7 /\ First.scrambled
<1> SUFFICES ASSUME IInv, pc = "ready", Count > 0, Detect # input.version
             PROVE  Excused
  BY DEF DetectionRight
<1>1. Count \in Nat /\ 1 \in 1..Count /\ input.version \in Versions
  BY DEF IInv, Frame, InputOK, Count
<1>2. PICK t, im : t = input.tables[1] /\ im = First
  OBVIOUS
<1>3. /\ t \in Shape /\ im \in Image /\ 1 \in 1..Len(tables)
      /\ t.names # <<>> /\ HeadRight(input.version, t)
  BY <1>1, <1>2 DEF IInv, Frame, InputOK, Built, Count, First
<1>4. AtRest(t, im)
  BY <1>2, <1>3 DEF IInv, TablesInv, InHand, First
<1>5. im.head = t.head /\ Len(im.names) = Len(t.names) /\ (~im.scrambled => im.names = t.names)
  BY <1>4 DEF AtRest, Alike, NamesKept
<1>6. /\ t.head \in Seq(Byte) /\ t.names \in Seq(Byte)
      /\ im.names \in Seq(Byte) /\ im.head \in Seq(Byte)
  BY <1>3, KeyOfImage DEF Shape
<1>7. PICK h, k, m, l \in Nat : h = Len(t.head) /\ k = Len(t.names) /\ m = Len(im.mid) /\ l = Len(im.strings)
  BY <1>3, <1>6 DEF Image
<1>7a. h \in Nat /\ k \in Nat /\ m \in Nat /\ l \in Nat
  OBVIOUS
<1>8. PICK bytes : bytes = Bytes(im)
  OBVIOUS
<1>9. /\ bytes \in Seq(Byte) /\ Len(bytes) = h + k + m + l
      /\ Final = 32 + Len(bytes)
      /\ \A i \in 1..h : bytes[i] = im.head[i]
      /\ \A i \in 1..k : bytes[h + i] = im.names[i]
  <2>1. /\ bytes \in Seq(Byte) /\ Size(im) = 32 + h + k + m + l /\ Len(bytes) = Size(im) - 32
        /\ \A i \in 1..h : bytes[i] = im.head[i]
        /\ \A i \in 1..k : bytes[h + i] = im.names[i]
    BY <1>3, <1>5, <1>7, <1>8, Sizes
  <2>2. Final = Size(im)
    BY <1>2 DEF Final
  <2>3. PICK y, w \in Nat : y = Size(im) /\ w = Len(bytes)
    BY <1>3, <2>1, Sizes
  <2>4. w = y - 32 /\ y = 32 + h + k + m + l
    BY <2>1, <2>3
  <2>5. w = h + k + m + l /\ y = 32 + w
    BY ONLY <1>7a, <2>3, <2>4
  <2> QED BY <2>1, <2>2, <2>3, <2>5
<1>10. k > 0
  BY <1>3, <1>6, <1>7
<1>11. PICK z \in Nat : z = Len(bytes) /\ z = h + k + m + l /\ Final = 32 + z
  BY <1>9
<1>12. offsets[1] = 8 + 4 * Count
  <2>1. offsets[1] = EndOf(0)
    BY <1>3 DEF IInv, Frame, InARow
  <2> QED BY <2>1 DEF EndOf, HeaderLen
<1>13. \A i \in 1..z : bytes[i] \in Nat
  <2>1. PICK b \in Nat : b = Base
    BY Xor
  <2>2. ASSUME NEW i \in 1..z PROVE bytes[i] \in Nat
    <3>1. bytes[i] \in 0..(b - 1)
      BY <1>9, <1>11, <2>1 DEF Byte
    <3> QED BY <3>1
  <2> QED BY <2>2
<1>14. Page \in Nat
  BY FileAssumption DEF FileAssumption
<1>15. CASE input.version \in {"Switch", "New3ds"}
  <2>1. Detect = input.version
    BY <1>1, <1>15 DEF Detect
  <2> QED BY <2>1
<1>16. CASE input.version = "X"
  <2>1. CASE offsets[1] + 36 > Final
    BY <1>1, <1>11, <1>12, <1>16, <2>1
  <2>2. CASE ~(offsets[1] + 36 > Final)
    <3>1. /\ h >= 8 /\ (\A i \in 5..8 : t.head[i] = 0)
          /\ t.head[1] * Page + t.head[2] <= 32 + h
      BY <1>3, <1>7, <1>16 DEF HeadRight
    <3>2. 1 \in 1..h /\ 2 \in 1..h /\ \A i \in 5..8 : i \in 1..h
      BY <1>7, <3>1
    <3>3. bytes[1] = t.head[1] /\ bytes[2] = t.head[2] /\ \A i \in 5..8 : bytes[i] = 0
      BY <1>5, <1>9, <3>1, <3>2
    <3>4. Word32 = t.head[1] * Page + t.head[2]
      BY <1>2, <1>8, <3>3 DEF Word32
    <3>5. h <= z
      BY ONLY <1>7a, <1>11
    <3>6. Word32 <= Final
      <4>1. PICK x, y \in Nat : x = t.head[1] /\ y = t.head[2]
        <5>1. 1 \in 1..z /\ 2 \in 1..z
          BY <1>7a, <1>11, <3>1, <3>5
        <5> QED BY <1>13, <3>3, <5>1
      <4>2. x * Page \in Nat
        BY <1>14
      <4>3. PICK w \in Nat : w = x * Page
        BY <4>2
      <4>4. w + y <= 32 + h
        BY <3>1, <4>1, <4>3
      <4>5. w + y <= 32 + z
        BY ONLY <1>7a, <1>11, <3>5, <4>1, <4>3, <4>4
      <4> QED BY <1>11, <3>4, <4>1, <4>3, <4>5
    <3>7. ZeroAt36
      BY <1>2, <1>8, <3>3 DEF ZeroAt36
    <3> QED BY <1>1, <1>16, <2>2, <3>6, <3>7 DEF Detect
  <2> QED BY <2>1, <2>2
<1>17. CASE input.version = "Wii"
  <2>1. ~(offsets[1] + 36 > Final) /\ Word32 <= Final /\ ZeroAt36
    BY <1>1, <1>17 DEF Detect
  <2>2. z >= 16
    <3>1. 8 + 4 * Count + 36 <= 32 + z
      BY <1>1, <1>11, <1>12, <2>1
    <3> QED BY <1>1, <3>1
  <2>3. \A i \in 5..8 : bytes[i] = 0
    BY <1>2, <1>8, <2>1 DEF ZeroAt36
  <2>4. \/ t.head = <<>>
        \/ h = 4 /\ k >= 4 /\ \E i \in 1..4 : t.names[i] # 0
        \/ h > 4 /\ \E i \in 5..8 : i <= h /\ t.head[i] # 0
    BY <1>3, <1>7, <1>17 DEF HeadRight
  <2>5. CASE t.head = <<>>
    <3>1. CASE im.scrambled
      BY <1>2, <1>5, <1>17, <2>5, <3>1
    <3>2. CASE ~im.scrambled /\ t.names[1] # 0
      <4>1. h = 0
        BY <1>7, <2>5
      <4>2. bytes[1] = t.names[1]
        <5>1. 1 \in 1..k /\ h + 1 = 1
          BY <1>7, <1>10, <4>1
        <5> QED BY <1>5, <1>9, <3>2, <5>1
      <4>3. PICK x, y \in Nat : x = bytes[1] /\ y = bytes[2]
        <5>1. 1 \in 1..z /\ 2 \in 1..z
          BY <2>2
        <5> QED BY <1>13, <5>1
      <4>4. Word32 = x * Page + y /\ x > 0
        BY <1>2, <1>8, <3>2, <4>2, <4>3 DEF Word32
      <4>5. PICK p \in Nat : p = Page
        BY <1>14
      <4>6. x * p >= p /\ x * p \in Nat
        BY ONLY <4>3, <4>4, <4>5
      <4>7. PICK w \in Nat : w = x * p /\ w >= p
        BY <4>6
      <4>8. Final >= Page
        BY <1>11, <2>1, <4>3, <4>4, <4>5, <4>7
      <4> QED BY <1>2, <1>5, <1>17, <2>5, <4>8
    <3>3. CASE t.names[1] = 0
      BY <1>2, <1>5, <1>17, <2>5, <3>3
    <3> QED BY <3>1, <3>2, <3>3
  <2>6. CASE h = 4 /\ k >= 4 /\ \E i \in 1..4 : t.names[i] # 0
    <3>1. PICK i \in 1..4 : t.names[i] # 0
      BY <2>6
    <3>2. CASE im.scrambled
      <4>1. Len(First.head) \in 4..7
        BY <1>2, <1>5, <1>7, <2>6
      <4> QED BY <1>2, <1>17, <3>2, <4>1
    <3>3. CASE ~im.scrambled
      <4>1. i \in 1..k /\ h + i \in 5..8
        BY <1>7, <2>6
      <4>2. bytes[h + i] = t.names[i]
        BY <1>5, <1>9, <3>3, <4>1
      <4> QED BY <2>3, <3>1, <4>1, <4>2
    <3> QED BY <3>2, <3>3
  <2>7. CASE h > 4 /\ \E i \in 5..8 : i <= h /\ t.head[i] # 0
    <3>1. PICK i \in 5..8 : i <= h /\ t.head[i] # 0
      BY <2>7
    <3>2. i \in 1..h
      BY <1>7, <3>1
    <3>3. bytes[i] = t.head[i]
      BY <1>5, <1>9, <3>2
    <3> QED BY <2>3, <3>1, <3>3
  <2> QED BY <2>4, <2>5, <2>6, <2>7
<1> QED BY <1>1, <1>15, <1>16, <1>17 DEF Versions

(* However often a file is scrambled, unscrambled and opened               *)
(* (scramble_data, unscramble_data, LegacyBytes::new), a table that is not *)
(* scrambled has the names and the text it was written with, and in a file *)
(* not scrambled by its writer all its bytes and the same key.             *)
THEOREM TextKeptCorrect == Spec => []TextKept
  BY Invariance, TextKeptAlways, PTL

(* for_each_table_mut hands each table on as a whole and alone, whatever   *)
(* bytes follow the file, so that no index into the slice panics.          *)
THEOREM SlicesCorrect == Spec => []SlicesAreTables
  BY Invariance, SlicesAlways, PTL

(* detect_version finds the version a file was written in, but for the     *)
(* three cases DetectionRight names.                                       *)
THEOREM DetectionCorrect == Spec => []DetectionRight
  BY Invariance, DetectionAlways, PTL
=============================================================================
