-------------------------- MODULE ModernFile_proofs --------------------------
(***************************************************************************)
(* Theorems about ModernWriter and ModernFile: any sequence of tables, of  *)
(* any size, that is written to a file of the modern format and read back. *)
(***************************************************************************)
EXTENDS ModernFile, ProofBasics

-----------------------------------------------------------------------------
(* Tables and labels. *)

Entry == [label : Label, at : Nat]

LEMMA Labels ==
  ASSUME NEW l \in Label
  PROVE  SizeOf(l) \in Nat /\ SizeOf(l) >= 1 /\ l = [hashed |-> l.hashed, of |-> l.of]
         /\ l.hashed \in BOOLEAN /\ (~l.hashed => l.of \in Texts)
<1>1. TextLen \in [Texts -> Nat]
  BY WriterAssumption DEF WriterAssumption
<1>2. CASE l \in [hashed : {TRUE}, of : Hashes]
  <2>1. l = [hashed |-> l.hashed, of |-> l.of] /\ l.hashed = TRUE
    BY <1>2
  <2>2. SizeOf(l) = 4
    BY <2>1 DEF SizeOf
  <2>3. l.hashed \in BOOLEAN /\ l.hashed
    BY <2>1, Zenon
  <2>4. SizeOf(l) \in Nat /\ SizeOf(l) >= 1
    BY <2>2
  <2> QED BY <2>1, <2>3, <2>4, Zenon
<1>3. CASE l \in [hashed : {FALSE}, of : Texts]
  <2>1. l = [hashed |-> l.hashed, of |-> l.of] /\ l.hashed = FALSE /\ l.of \in Texts
    BY <1>3
  <2>2. TextLen[l.of] \in Nat
    BY <1>1, <2>1
  <2>3. SizeOf(l) = TextLen[l.of] + 1
    BY <2>1 DEF SizeOf
  <2>4. SizeOf(l) \in Nat /\ SizeOf(l) >= 1
    BY <2>2, <2>3
  <2> QED BY <2>1, <2>4
<1> QED BY <1>2, <1>3 DEF Label

LEMMA TextLabels ==
  ASSUME NEW s \in Texts
  PROVE  TextLabel(s) \in Label /\ ~TextLabel(s).hashed /\ TextLabel(s).of = s
BY DEF TextLabel, Label

(* The type of the cells in a column, and their values. *)
Width0(tab, c) == Width(tab.columns[c].type)
Fits(tab, c, v) ==
  CASE tab.columns[c].type = "text" -> v \in Texts
    [] tab.columns[c].type = "key" -> v \in Hashes
    [] OTHER -> v \in Nat

LEMMA Tables ==
  ASSUME NEW f \in Files, NEW x \in 1..Len(f)
  PROVE  /\ f \in Seq(Table) /\ f[x] \in Table /\ f[x].name \in Label /\ f[x].base \in Nat
         /\ f[x].columns \in Seq(Column) /\ Len(f[x].columns) \in Nat
         /\ f[x].rows \in Seq(Seq(Nat \cup Texts)) /\ Len(f[x].rows) \in Nat
         /\ f[x] = [name |-> f[x].name, base |-> f[x].base, columns |-> f[x].columns,
                    rows |-> f[x].rows]
         /\ \A c \in 1..Len(f[x].columns) :
              /\ f[x].columns[c] = [type |-> f[x].columns[c].type, label |-> f[x].columns[c].label]
              /\ f[x].columns[c].label \in Label /\ f[x].columns[c].type \in Types
              /\ Width0(f[x], c) \in Nat /\ Width0(f[x], c) >= 1
         /\ \A r \in 1..Len(f[x].rows) :
              /\ f[x].rows[r] \in Seq(Nat \cup Texts) /\ Len(f[x].rows[r]) = Len(f[x].columns)
              /\ \A c \in 1..Len(f[x].columns) : Fits(f[x], c, f[x].rows[r][c])
<1> DEFINE tab == f[x]
<1>1. f \in Seq(Table) /\ \A r \in 1..Len(tab.rows) : RowFits(tab.columns, tab.rows[r])
  <2>1. f \in Seq(Table) /\ \A y \in DOMAIN f : \A r \in DOMAIN f[y].rows : RowFits(f[y].columns, f[y].rows[r])
    BY WriterAssumption, Zenon DEF WriterAssumption
  <2>2. x \in DOMAIN f
    BY <2>1
  <2>3. tab \in Table
    BY <2>1, <2>2
  <2>4. DOMAIN tab.rows = 1..Len(tab.rows)
    BY <2>3 DEF Table
  <2> QED BY <2>1, <2>2, <2>4
<1>2. tab \in Table
  BY <1>1
<1> HIDE DEF tab
<1>3. /\ tab.name \in Label /\ tab.base \in Nat
      /\ tab.columns \in Seq(Column) /\ Len(tab.columns) \in Nat
      /\ tab.rows \in Seq(Seq(Nat \cup Texts)) /\ Len(tab.rows) \in Nat
      /\ tab = [name |-> tab.name, base |-> tab.base, columns |-> tab.columns, rows |-> tab.rows]
  BY <1>2 DEF Table
<1>4. ASSUME NEW c \in 1..Len(tab.columns)
      PROVE  /\ tab.columns[c] = [type |-> tab.columns[c].type, label |-> tab.columns[c].label]
             /\ tab.columns[c].label \in Label /\ tab.columns[c].type \in Types
             /\ Width0(tab, c) \in Nat /\ Width0(tab, c) >= 1
  <2>1. tab.columns[c] \in Column
    BY <1>3
  <2> QED BY <2>1 DEF Column, Width0, Width
<1>5. ASSUME NEW r \in 1..Len(tab.rows)
      PROVE  /\ tab.rows[r] \in Seq(Nat \cup Texts) /\ Len(tab.rows[r]) = Len(tab.columns)
             /\ \A c \in 1..Len(tab.columns) : Fits(tab, c, tab.rows[r][c])
  <2>1. tab.rows[r] \in Seq(Nat \cup Texts)
    BY <1>3
  <2>2. RowFits(tab.columns, tab.rows[r])
    BY <1>1 DEF tab
  <2>3. DOMAIN tab.columns = 1..Len(tab.columns)
    BY <1>3
  <2>4. ASSUME NEW c \in 1..Len(tab.columns)
        PROVE  Fits(tab, c, tab.rows[r][c])
    BY <2>2, <2>3 DEF RowFits, Fits
  <2> QED BY <2>1, <2>2, <2>4 DEF RowFits
<1> QED BY <1>1, <1>2, <1>3, <1>4, <1>5 DEF tab

-----------------------------------------------------------------------------
(* The label table. *)

Chained(ps, nx) ==
  /\ ps \in Seq(Entry) /\ nx \in Nat /\ nx >= 1
  /\ \A a \in 1..Len(ps) : ps[a].at >= 1 /\ ps[a].at + SizeOf(ps[a].label) <= nx
  /\ \A a, b \in 1..Len(ps) : a < b => ps[a].at + SizeOf(ps[a].label) <= ps[b].at

(* What a pointer to a label is in a set of entries. *)
Points(S, ptr, l) == IF IsEmpty(l) THEN ptr = 0 ELSE [label |-> l, at |-> ptr] \in S
Pairs == {pairs[a] : a \in 1..Len(pairs)}

LEMMA Entries ==
  ASSUME NEW e \in Entry
  PROVE  e.label \in Label /\ e.at \in Nat /\ e = [label |-> e.label, at |-> e.at]
BY DEF Entry

LEMMA GetStep ==
  ASSUME Chained(pairs, next), NEW l \in Label, Get(l)
  PROVE  /\ Chained(pairs, next)' /\ Pairs \subseteq Pairs' /\ Pointer(l) \in Nat
         /\ Points(Pairs', Pointer(l), l)
         /\ pairs = <<>> /\ next = 1 /\ ~IsEmpty(l) => [label |-> l, at |-> 1] \in Pairs'
<1>1. pairs \in Seq(Entry) /\ next \in Nat /\ next >= 1 /\ Len(pairs) \in Nat
  BY DEF Chained
<1>2. SizeOf(l) \in Nat /\ SizeOf(l) >= 1
  BY Labels
<1>3. CASE IsEmpty(l)
  <2>1. pairs' = pairs /\ next' = next /\ Pointer(l) = 0
    BY <1>3 DEF Get, Pointer
  <2> QED BY <1>3, <2>1 DEF Chained, Pairs, Points
<1>4. CASE ~IsEmpty(l) /\ Known(l) # {}
  <2> DEFINE a == CHOOSE b \in Known(l) : TRUE
  <2>1. pairs' = pairs /\ next' = next /\ Pointer(l) = pairs[a].at
    BY <1>4 DEF Get, Pointer
  <2>2. a \in Known(l)
    BY <1>4
  <2> HIDE DEF a
  <2>3. a \in 1..Len(pairs) /\ pairs[a].label = l
    BY <1>1, <2>2 DEF Known
  <2>4. pairs[a] = [label |-> l, at |-> pairs[a].at] /\ pairs[a].at \in Nat
    <3>1. pairs[a] \in Entry
      BY <1>1, <2>3
    <3> QED BY <2>3, <3>1, Entries
  <2>5. [label |-> l, at |-> Pointer(l)] \in Pairs
    BY <2>1, <2>3, <2>4 DEF Pairs
  <2>6. pairs # <<>>
    BY <2>3
  <2> QED BY <1>4, <2>1, <2>4, <2>5, <2>6 DEF Chained, Pairs, Points
<1>5. CASE ~IsEmpty(l) /\ Known(l) = {}
  <2> DEFINE e == [label |-> l, at |-> NextFree]
  <2>1. /\ pairs' = Append(pairs, e) /\ next' = NextFree + SizeOf(l)
        /\ Pointer(l) = NextFree
    BY <1>5 DEF Get, Pointer
  <2>2. NextFree \in Nat /\ NextFree >= next /\ NextFree >= 1 /\ (next = 1 => NextFree = 1)
    BY <1>1 DEF NextFree
  <2>3. e \in Entry /\ e.label = l /\ e.at = NextFree
    BY <2>2 DEF Entry
  <2> HIDE DEF e
  <2>4. /\ pairs' \in Seq(Entry) /\ Len(pairs') = Len(pairs) + 1 /\ pairs'[Len(pairs) + 1] = e
        /\ \A a \in 1..Len(pairs) : pairs'[a] = pairs[a]
    BY <1>1, <2>1, <2>3
  <2>5. next' \in Nat /\ next' >= next /\ next' >= 1 /\ e.at + SizeOf(e.label) = next' /\ e.at >= next /\ e.at >= 1
    BY <1>1, <1>2, <2>1, <2>2, <2>3
  <2>6. ASSUME NEW a \in 1..Len(pairs)
        PROVE  /\ pairs[a].at \in Nat /\ SizeOf(pairs[a].label) \in Nat
               /\ pairs[a].at >= 1 /\ pairs[a].at + SizeOf(pairs[a].label) <= next
    <3>1. pairs[a] \in Entry
      BY <1>1
    <3>2. pairs[a].at \in Nat /\ SizeOf(pairs[a].label) \in Nat
      BY <3>1, Entries, Labels
    <3> QED BY <3>2 DEF Chained
  <2>7. \A a \in 1..Len(pairs') : pairs'[a].at >= 1 /\ pairs'[a].at + SizeOf(pairs'[a].label) <= next'
    <3> SUFFICES ASSUME NEW a \in 1..Len(pairs')
                 PROVE  pairs'[a].at >= 1 /\ pairs'[a].at + SizeOf(pairs'[a].label) <= next'
      OBVIOUS
    <3>1. CASE a = Len(pairs) + 1
      BY <2>2, <2>4, <2>5, <3>1
    <3>2. CASE a # Len(pairs) + 1
      <4>1. a \in 1..Len(pairs)
        BY <1>1, <2>4, <3>2
      <4> QED BY <1>1, <2>4, <2>5, <2>6, <4>1, SMTT(30)
    <3> QED BY <3>1, <3>2
  <2>8. \A a, b \in 1..Len(pairs') : a < b => pairs'[a].at + SizeOf(pairs'[a].label) <= pairs'[b].at
    <3> SUFFICES ASSUME NEW a \in 1..Len(pairs'), NEW b \in 1..Len(pairs'), a < b
                 PROVE  pairs'[a].at + SizeOf(pairs'[a].label) <= pairs'[b].at
      OBVIOUS
    <3>1. a \in 1..Len(pairs) /\ pairs'[a] = pairs[a]
      BY <1>1, <2>4
    <3>2. CASE b = Len(pairs) + 1
      BY <1>1, <2>4, <2>5, <2>2, <2>3, <2>6, <3>1, <3>2
    <3>3. CASE b # Len(pairs) + 1
      <4>1. b \in 1..Len(pairs)
        BY <1>1, <2>4, <3>3
      <4> QED BY <2>4, <3>1, <4>1 DEF Chained
    <3> QED BY <3>2, <3>3
  <2>9. Chained(pairs, next)'
    BY <2>4, <2>5, <2>7, <2>8 DEF Chained
  <2>10. Pairs \subseteq Pairs' /\ e \in Pairs'
    <3>1. Len(pairs) + 1 \in 1..Len(pairs') /\ 1..Len(pairs) \subseteq 1..Len(pairs')
      BY <1>1, <2>4
    <3> QED BY <2>4, <3>1 DEF Pairs
  <2>11. Points(Pairs', Pointer(l), l)
    BY <1>5, <2>1, <2>10 DEF Points, e
  <2> QED BY <2>1, <2>2, <2>9, <2>10, <2>11 DEF e
<1> QED BY <1>3, <1>4, <1>5

LEMMA PointsStays ==
  ASSUME NEW S, NEW T, S \subseteq T, NEW ptr, NEW l, Points(S, ptr, l)
  PROVE  Points(T, ptr, l)
BY DEF Points

-----------------------------------------------------------------------------
(* The cells of a table, row by row. *)

LEMMA Product ==
  ASSUME NEW a \in Nat, NEW b \in Nat, NEW w \in Nat, a <= b
  PROVE  a * w \in Nat /\ b * w \in Nat /\ a * w <= b * w /\ (a < b => a * w + w <= b * w)
<1>1. PICK d \in Nat : b = a + d
  <2>1. b - a \in Nat /\ b = a + (b - a)
    OBVIOUS
  <2> QED BY <2>1
<1>2. a * w \in Nat /\ d * w \in Nat
  OBVIOUS
<1>3. b * w = a * w + d * w
  BY <1>1
<1>4. a < b => d * w >= w
  <2> SUFFICES ASSUME a < b PROVE d * w >= w
    OBVIOUS
  <2>1. PICK h \in Nat : d = h + 1
    <3>1. d - 1 \in Nat /\ d = d - 1 + 1
      BY <1>1
    <3> QED BY <3>1
  <2>2. d * w = h * w + w /\ h * w \in Nat
    BY <2>1
  <2> QED BY <2>2
<1> QED BY <1>2, <1>3, <1>4

(* The place of the cell in row r, column c, of w columns. *)
Place(w, r, c) == (r - 1) * w + c

LEMMA Places ==
  ASSUME NEW w \in Nat, NEW r \in Nat, r >= 1, NEW c \in 1..w
  PROVE  /\ Place(w, r, c) \in Nat /\ Place(w, r, c) >= 1
         /\ \A s \in Nat, d \in 1..w : s >= 1 =>
              /\ r < s => Place(w, r, c) < Place(w, s, d)
              /\ Place(w, r, c) = Place(w, s, d) => r = s /\ c = d
         /\ \A s \in Nat : (Place(w, r, c) <= s * w <=> r <= s)
<1>0. w >= 1 /\ r - 1 \in Nat
  OBVIOUS
<1>1. (r - 1) * w \in Nat
  BY <1>0, Product
<1>2. Place(w, r, c) \in Nat /\ Place(w, r, c) >= 1
  BY <1>1 DEF Place
<1>3. ASSUME NEW s \in Nat, s >= 1, NEW d \in 1..w, NEW q \in Nat, q >= 1, NEW e \in 1..w, q < s
      PROVE  Place(w, q, e) < Place(w, s, d)
  <2>1. q - 1 \in Nat /\ s - 1 \in Nat /\ q - 1 < s - 1
    BY <1>3
  <2>2. (q - 1) * w \in Nat /\ (s - 1) * w \in Nat /\ (q - 1) * w + w <= (s - 1) * w
    BY <2>1, Product
  <2> QED BY <2>2 DEF Place
<1>4. ASSUME NEW s \in Nat, s >= 1, NEW d \in 1..w, Place(w, r, c) = Place(w, s, d)
      PROVE  r = s /\ c = d
  <2>1. Place(w, s, d) \in Nat
    <3>1. s - 1 \in Nat
      BY <1>4
    <3>2. (s - 1) * w \in Nat
      BY <3>1, Product
    <3> QED BY <3>2 DEF Place
  <2>2. ~(r < s)
    BY <1>2, <1>3, <1>4, <2>1
  <2>3. ~(s < r)
    BY <1>2, <1>3, <1>4, <2>1
  <2>4. r = s
    BY <1>4, <2>2, <2>3
  <2> QED BY <1>1, <1>4, <2>4 DEF Place
<1>5. ASSUME NEW s \in Nat
      PROVE  Place(w, r, c) <= s * w <=> r <= s
  <2>1. CASE r <= s
    <3>1. (r - 1) * w + w <= s * w /\ s * w \in Nat
      BY <1>0, <2>1, Product
    <3> QED BY <1>1, <2>1, <3>1 DEF Place
  <2>2. CASE r > s
    <3>1. s <= r - 1
      BY <2>2
    <3>2. s * w <= (r - 1) * w /\ s * w \in Nat
      BY <1>0, <3>1, Product
    <3> QED BY <1>1, <2>2, <3>2 DEF Place
  <2> QED BY <2>1, <2>2
<1> QED BY <1>2, <1>3, <1>4, <1>5

LEMMA PlacesApart ==
  ASSUME NEW w \in Nat, NEW r \in Nat, r >= 1, NEW c \in 1..w, NEW s \in Nat, s >= 1, NEW d \in 1..w
  PROVE  /\ Place(w, r, c) \in Nat /\ Place(w, r, c) >= 1
         /\ r < s => Place(w, r, c) < Place(w, s, d)
         /\ Place(w, r, c) = Place(w, s, d) => r = s /\ c = d
<1>1. Place(w, r, c) \in Nat /\ Place(w, r, c) >= 1
  BY Places
<1>2. r < s => Place(w, r, c) < Place(w, s, d)
  BY Places
<1>3. Place(w, r, c) = Place(w, s, d) => r = s /\ c = d
  BY Places
<1> QED BY <1>1, <1>2, <1>3

LEMMA Grid ==
  ASSUME NEW w \in Nat, w >= 1, NEW m \in Nat, m >= 1
  PROVE  LET r == ((m - 1) \div w) + 1
             c == ((m - 1) % w) + 1
         IN  r \in Nat /\ r >= 1 /\ c \in 1..w /\ m = Place(w, r, c)
<1> DEFINE q == (m - 1) \div w
           d == (m - 1) % w
<1>1. q \in Int /\ d \in 0..(w - 1) /\ m - 1 = w * q + d
  OBVIOUS
<1> HIDE DEF q, d
<1>2. q >= 0
  <2> SUFFICES ASSUME q < 0 PROVE FALSE
    BY <1>1
  <2>1. PICK h \in Nat : q = 0 - h - 1
    <3>1. 0 - q - 1 \in Nat /\ q = 0 - (0 - q - 1) - 1
      BY <1>1
    <3> QED BY <3>1
  <2>2. w * q = 0 - w * h - w /\ w * h \in Nat
    BY <2>1
  <2> QED BY <1>1, <2>2
<1>3. q + 1 \in Nat /\ q + 1 >= 1 /\ d + 1 \in 1..w /\ m = (q + 1 - 1) * w + (d + 1)
  <2>1. w * q = q * w /\ q + 1 - 1 = q
    BY <1>1
  <2> QED BY <1>1, <1>2, <2>1
<1> QED BY <1>3 DEF Place, q, d

(* So the places are those up to the number of rows times columns. *)
LEMMA AllPlaces ==
  ASSUME NEW w \in Nat, NEW h \in Nat
  PROVE  /\ \A r \in 1..h, c \in 1..w : Place(w, r, c) \in 1..(h * w)
         /\ \A m \in 1..(h * w) : \E r \in 1..h, c \in 1..w : m = Place(w, r, c)
<1>1. h * w \in Nat /\ (w = 0 => h * w = 0)
  <2>1. h * w \in Nat
    BY Product
  <2>2. w = 0 => h * w = 0
    OBVIOUS
  <2> QED BY <2>1, <2>2
<1>2. ASSUME NEW r \in 1..h, NEW c \in 1..w
      PROVE  Place(w, r, c) \in 1..(h * w)
  <2>1. r \in Nat /\ r >= 1
    OBVIOUS
  <2>2. Place(w, r, c) \in Nat /\ Place(w, r, c) >= 1
    BY <2>1, PlacesApart
  <2>3. Place(w, r, c) <= h * w <=> r <= h
    BY <2>1, Places
  <2> QED BY <1>1, <2>2, <2>3
<1>3. ASSUME NEW m \in 1..(h * w)
      PROVE  \E r \in 1..h, c \in 1..w : m = Place(w, r, c)
  <2>1. m \in Nat /\ m >= 1 /\ m <= h * w /\ w >= 1
    BY <1>1
  <2> DEFINE r == ((m - 1) \div w) + 1
             c == ((m - 1) % w) + 1
  <2>2. r \in Nat /\ r >= 1 /\ c \in 1..w /\ m = Place(w, r, c)
    BY <2>1, Grid
  <2> HIDE DEF r, c
  <2>3. Place(w, r, c) <= h * w <=> r <= h
    BY <2>2, Places
  <2> QED BY <2>1, <2>2, <2>3
<1> QED BY <1>2, <1>3

(* Where the columns of a row end. *)
Pre(tab) ==
  CHOOSE f : IsRunningSum(f, [c \in 1..Len(tab.columns) |-> Width0(tab, c)], Len(tab.columns))
RowWidth(tab) == Pre(tab)[Len(tab.columns)]

LEMMA Widths ==
  ASSUME NEW f \in Files, NEW x \in 1..Len(f)
  PROVE  LET tab == f[x]
         IN  /\ Pre(tab) \in [0..Len(tab.columns) -> Nat] /\ Pre(tab)[0] = 0
             /\ \A c \in 1..Len(tab.columns) : Pre(tab)[c] = Pre(tab)[c - 1] + Width0(tab, c)
             /\ \A a, b \in 0..Len(tab.columns) : a <= b => Pre(tab)[a] <= Pre(tab)[b]
             /\ RowWidth(tab) \in Nat /\ (Len(tab.columns) = 0 => RowWidth(tab) = 0)
<1> DEFINE tab == f[x]
           h == Len(tab.columns)
           d == [c \in 1..h |-> Width0(tab, c)]
<1>1. h \in Nat /\ \A c \in 1..h : Width0(tab, c) \in Nat
  BY Tables
<1> HIDE DEF h, tab
<1>2. \A c \in 1..h : d[c] \in Nat /\ d[c] = Width0(tab, c)
  BY <1>1
<1> HIDE DEF d
<1>3. IsRunningSum(Pre(tab), d, h)
  <2>1. \E g : IsRunningSum(g, d, h)
    BY <1>1, <1>2, RunningSums
  <2> QED BY <2>1 DEF Pre, d, h
<1>4. /\ Pre(tab) \in [0..h -> Nat] /\ Pre(tab)[0] = 0
      /\ \A c \in 1..h : Pre(tab)[c] = Pre(tab)[c - 1] + d[c]
  <2>1. \A g : IsRunningSum(g, d, h) =>
               g \in [0..h -> Nat] /\ g[0] = 0 /\ \A c \in 1..h : g[c] = g[c - 1] + d[c]
    BY <1>1, <1>2, RunningSums
  <2> QED BY <1>3, <2>1
<1>5. \A a, b \in 0..h : a <= b => Pre(tab)[a] <= Pre(tab)[b]
  BY <1>1, <1>2, <1>3, RunningSumsRise
<1>6. RowWidth(tab) \in Nat /\ (h = 0 => RowWidth(tab) = 0)
  BY <1>1, <1>4 DEF RowWidth, h
<1> QED BY <1>2, <1>4, <1>5, <1>6 DEF h, tab

-----------------------------------------------------------------------------
(* Sorting the keys. *)

Key == Nat \X Nat

LEMMA KeyOrder ==
  /\ \A a \in Key : Before(a, a)
  /\ \A a, b \in Key : Before(a, b) \/ Before(b, a)
  /\ \A a, b \in Key : Before(a, b) /\ Before(b, a) => a = b
  /\ \A a, b, c \in Key : Before(a, b) /\ Before(b, c) => Before(a, c)
<1>1. \A a \in Key : a[1] \in Nat /\ a[2] \in Nat /\ a = <<a[1], a[2]>>
  BY DEF Key
<1>2. ASSUME NEW a \in Key, NEW b \in Key, Before(a, b), Before(b, a) PROVE a = b
  <2>1. a[1] = b[1] /\ a[2] = b[2]
    BY <1>1, <1>2 DEF Before
  <2>2. a = <<a[1], a[2]>> /\ b = <<b[1], b[2]>>
    BY <1>1
  <2> QED BY <2>1, <2>2
<1>3. \A a, b \in Key : Before(a, b) \/ Before(b, a)
  BY <1>1 DEF Before
<1>4. \A a, b, c \in Key : Before(a, b) /\ Before(b, c) => Before(a, c)
  BY <1>1 DEF Before
<1> QED BY <1>2, <1>3, <1>4

LEMMA SortedKeys ==
  ASSUME NEW ks \in Seq(Key),
         \A a, b \in 1..Len(ks) : ks[a] = ks[b] => a = b
  PROVE  /\ Sorted(ks) \in Seq(Key) /\ Len(Sorted(ks)) = Len(ks)
         /\ \A a \in 1..Len(ks) : \E b \in 1..Len(ks) : Sorted(ks)[a] = ks[b]
         /\ \A a, b \in 1..Len(ks) : a < b => Before(Sorted(ks)[a], Sorted(ks)[b])
<1> DEFINE m == Len(ks)
           upTo(key) == {y \in 1..m : Before(ks[y], key)}
           rank == [b \in 1..m |-> Cardinality(upTo(ks[b]))]
<1>1. m \in Nat /\ DOMAIN ks = 1..m /\ (\A a \in 1..m : ks[a] \in Key) /\ ToSet(ks) = {ks[a] : a \in 1..m}
  BY DEF ToSet
<1> HIDE DEF m
<1>2. IsFiniteSet(1..m) /\ Cardinality(1..m) = m
  <2>1. 1 \in Int /\ m \in Int /\ (IF 1 > m THEN 0 ELSE m - 1 + 1) = m
    BY <1>1
  <2> QED BY <2>1, FS_Interval
<1>3. \A key : IsFiniteSet(upTo(key)) /\ Cardinality(upTo(key)) \in Nat /\ Cardinality(upTo(key)) <= m
  <2> SUFFICES ASSUME NEW key
               PROVE  IsFiniteSet(upTo(key)) /\ Cardinality(upTo(key)) \in Nat /\ Cardinality(upTo(key)) <= m
    OBVIOUS
  <2>1. upTo(key) \in SUBSET (1..m)
    OBVIOUS
  <2> HIDE DEF upTo
  <2>2. IsFiniteSet(upTo(key)) /\ Cardinality(upTo(key)) <= m
    <3>1. PICK U \in SUBSET (1..m) : U = upTo(key)
      BY <2>1
    <3>2. IsFiniteSet(U) /\ Cardinality(U) <= Cardinality(1..m)
      BY <1>2, FS_Subset
    <3> QED BY <1>2, <3>1, <3>2
  <2> QED BY <2>2, FS_CardinalityType
<1>4. ASSUME NEW a \in 1..m, NEW b \in 1..m, a # b, Before(ks[a], ks[b])
      PROVE  Cardinality(upTo(ks[a])) < Cardinality(upTo(ks[b]))
  <2>1. upTo(ks[a]) \in SUBSET upTo(ks[b])
    BY <1>1, <1>4, KeyOrder
  <2>2. b \in upTo(ks[b]) /\ b \notin upTo(ks[a])
    BY <1>1, <1>4, KeyOrder DEF m
  <2> HIDE DEF upTo
  <2>3. Cardinality(upTo(ks[a])) <= Cardinality(upTo(ks[b])) /\ Cardinality(upTo(ks[a])) # Cardinality(upTo(ks[b]))
    BY <1>3, <2>1, <2>2, FS_Subset
  <2> QED BY <1>3, <2>3
<1>5. \A a \in 1..m : Cardinality(upTo(ks[a])) \in 1..m
  <2> SUFFICES ASSUME NEW a \in 1..m PROVE Cardinality(upTo(ks[a])) \in 1..m
    OBVIOUS
  <2>1. a \in upTo(ks[a])
    BY <1>1, KeyOrder
  <2> HIDE DEF upTo
  <2>2. Cardinality(upTo(ks[a])) # 0
    BY <1>3, <2>1, FS_EmptySet
  <2> QED BY <1>1, <1>3, <2>2
<1>6. \A a, b \in 1..m : rank[a] = rank[b] => a = b
  <2> SUFFICES ASSUME NEW a \in 1..m, NEW b \in 1..m, a # b PROVE rank[a] # rank[b]
    OBVIOUS
  <2>1. Before(ks[a], ks[b]) \/ Before(ks[b], ks[a])
    BY <1>1, KeyOrder
  <2>2. rank[a] = Cardinality(upTo(ks[a])) /\ rank[b] = Cardinality(upTo(ks[b]))
    OBVIOUS
  <2> HIDE DEF rank, upTo
  <2>3. Cardinality(upTo(ks[a])) \in Nat /\ Cardinality(upTo(ks[b])) \in Nat
    BY <1>3
  <2> QED BY <1>4, <2>1, <2>2, <2>3
<1>7. \A x \in 1..m : \E b \in 1..m : rank[b] = x
  <2>1. rank \in [1..m -> 1..m]
    <3>1. \A b \in 1..m : Cardinality(upTo(ks[b])) \in 1..m
      BY <1>5
    <3> HIDE DEF upTo
    <3> QED BY <3>1
  <2> HIDE DEF rank
  <2>2. rank \in Injection(1..m, 1..m)
    BY <1>6, <2>1 DEF Injection, IsInjective
  <2>3. rank \in Surjection(1..m, 1..m)
    BY <1>1, <1>2, <2>2, FS_Injection
  <2> QED BY <2>3, Zenon DEF Surjection
<1>8. \A b \in 1..m : rank[b] = Cardinality(upTo(ks[b]))
  OBVIOUS
<1>9. Sorted(ks) = [x \in 1..m |-> CHOOSE key \in ToSet(ks) : Cardinality(upTo(key)) = x]
  BY <1>1 DEF Sorted
<1> HIDE DEF rank
<1>10. ASSUME NEW x \in 1..m
       PROVE  \E b \in 1..m : Sorted(ks)[x] = ks[b] /\ Cardinality(upTo(ks[b])) = x
  <2>1. PICK b \in 1..m : rank[b] = x
    BY <1>7
  <2> DEFINE c == CHOOSE key \in ToSet(ks) : Cardinality(upTo(key)) = x
  <2>2. ks[b] \in ToSet(ks) /\ Cardinality(upTo(ks[b])) = x
    BY <1>1, <1>8, <2>1
  <2>3. Sorted(ks)[x] = c
    BY <1>9
  <2> HIDE DEF upTo
  <2>4. c \in ToSet(ks) /\ Cardinality(upTo(c)) = x
    BY <2>2
  <2> HIDE DEF c
  <2>5. PICK d \in 1..m : c = ks[d]
    BY <1>1, <2>4
  <2> QED BY <2>3, <2>4, <2>5
<1>11. Sorted(ks) \in Seq(Key) /\ Len(Sorted(ks)) = m
  <2>1. \A x \in 1..m : Sorted(ks)[x] \in Key
    BY <1>1, <1>10
  <2>2. Sorted(ks) = [x \in 1..m |-> Sorted(ks)[x]]
    BY <1>9
  <2>3. Sorted(ks) \in [1..m -> Key]
    BY <2>1, <2>2
  <2> QED BY <1>1, <2>3
<1>12. ASSUME NEW x \in 1..m, NEW y \in 1..m, x < y
       PROVE  Before(Sorted(ks)[x], Sorted(ks)[y])
  <2>1. PICK a \in 1..m : Sorted(ks)[x] = ks[a] /\ Cardinality(upTo(ks[a])) = x
    BY <1>10
  <2>2. PICK b \in 1..m : Sorted(ks)[y] = ks[b] /\ Cardinality(upTo(ks[b])) = y
    BY <1>10
  <2>3. Before(ks[a], ks[b]) \/ Before(ks[b], ks[a])
    BY <1>1, KeyOrder
  <2>4. ASSUME Before(ks[b], ks[a]), a # b PROVE FALSE
    <3>1. Cardinality(upTo(ks[b])) < Cardinality(upTo(ks[a]))
      BY <1>4, <2>4
    <3> HIDE DEF upTo
    <3> QED BY <1>12, <2>1, <2>2, <3>1
  <2>5. a # b
    <3> HIDE DEF upTo
    <3> QED BY <1>12, <2>1, <2>2
  <2> QED BY <2>1, <2>2, <2>3, <2>4, <2>5
<1>13. \A a \in 1..m : \E b \in 1..m : Sorted(ks)[a] = ks[b]
  BY <1>10
<1> QED BY <1>11, <1>12, <1>13 DEF m

(* The first column of hashes. *)
LEMMA PrimaryColumn ==
  ASSUME NEW cs, NEW h \in Nat, Len(cs) = h
  PROVE  /\ Primary(cs) \in 0..h
         /\ Primary(cs) # 0 => cs[Primary(cs)].type = "key"
         /\ \A c \in 1..h : cs[c].type = "key" => Primary(cs) # 0 /\ Primary(cs) <= c
<1> DEFINE T == {c \in 1..Len(cs) : IsKey(cs[c])}
<1>1. Primary(cs) = IF T # {} THEN Min(T) ELSE 0
  BY DEF Primary, SelectInSeq
<1>2. T \subseteq Nat /\ T = {c \in 1..h : cs[c].type = "key"}
  BY DEF IsKey
<1> HIDE DEF T
<1>3. T # {} => Min(T) \in T /\ \A c \in T : Min(T) <= c
  <2>1. T # {} => \E x \in T : \A y \in T : x <= y
    BY <1>2, NatMin
  <2> QED BY <2>1, Zenon DEF Min
<1>4. CASE T = {}
  BY <1>1, <1>2, <1>4
<1>5. CASE T # {}
  <2>1. PICK p \in T : p = Primary(cs) /\ \A c \in T : p <= c
    BY <1>1, <1>3, <1>5
  <2>2. p \in 1..h /\ cs[p].type = "key"
    BY <1>2, <2>1
  <2>3. \A c \in 1..h : cs[c].type = "key" => p <= c
    BY <1>2, <2>1
  <2> QED BY <2>1, <2>2, <2>3
<1> QED BY <1>4, <1>5

-----------------------------------------------------------------------------
(* The writer: what it has of the current table. *)

Columns(tab) == Len(tab.columns)
Rows(tab) == Len(tab.rows)
Key1(tab) == Primary(tab.columns)

(* The name is the first label, unless it is empty. *)
NameOK(tab, S) == ~IsEmpty(tab.name) => [label |-> tab.name, at |-> 1] \in S

ColsOK(tab, cs, m, S) ==
  /\ cs \in Seq([type : Types, name : Nat]) /\ Len(cs) = m
  /\ \A c \in 1..m : cs[c].type = tab.columns[c].type
                     /\ Points(S, cs[c].name, tab.columns[c].label)

(* The first m cells.  Every cell is behind those of the rows before it    *)
(* and of the columns in front of it.                                      *)
Cell == [at : Nat, width : Nat, val : Nat]
CellOK(tab, cell, r, c, S) ==
  /\ cell.at = (r - 1) * RowWidth(tab) + Pre(tab)[c - 1] /\ cell.width = Width0(tab, c)
  /\ IF tab.columns[c].type = "text" THEN Points(S, cell.val, TextLabel(tab.rows[r][c]))
     ELSE cell.val = tab.rows[r][c]
CellsOK(tab, cs, m, S) ==
  /\ cs \in Seq(Cell) /\ Len(cs) = m
  /\ \A r \in 1..Rows(tab) : \A c \in 1..Columns(tab) :
       Place(Columns(tab), r, c) <= m => CellOK(tab, cs[Place(Columns(tab), r, c)], r, c, S)

(* The keys of the rows that have theirs in the first m cells. *)
KeysOK(tab, ks, m) ==
  /\ ks \in Seq(Key) /\ Len(ks) <= Rows(tab)
  /\ Key1(tab) = 0 => ks = <<>>
  /\ Key1(tab) # 0 => \A r \in 1..Rows(tab) : Place(Columns(tab), r, Key1(tab)) <= m <=> r <= Len(ks)
  /\ \A a \in 1..Len(ks) : ks[a] = <<tab.rows[a][Key1(tab)], tab.base + a - 1>>

SortedOK(tab, ks) ==
  /\ ks \in Seq(Key) /\ Len(ks) = IF Key1(tab) = 0 THEN 0 ELSE Rows(tab)
  /\ \A a, b \in 1..Len(ks) : a < b => ks[a][1] < ks[b][1]
  /\ \A a \in 1..Len(ks) : ks[a][2] + 1 \in 1..Rows(tab)
                           /\ tab.rows[ks[a][2] + 1][Key1(tab)] = ks[a][1]

(* The tables that are written.                                            *)
Apart(S, len) ==
  /\ S \subseteq Entry
  /\ \A x \in S : x.at >= 1 /\ x.at + SizeOf(x.label) <= len
  /\ \A x, y \in S : x # y => x.at + SizeOf(x.label) <= y.at \/ y.at + SizeOf(y.label) <= x.at

ImageOK(im, tab) ==
  /\ im.nCols = Columns(tab) /\ im.nRows = Rows(tab) /\ im.base = tab.base
  /\ im.colsAt = TableHeaderSize /\ im.keysAt = TableHeaderSize + 3 * Columns(tab)
  /\ im.rowsAt = im.keysAt + 8 * Len(im.keys)
  /\ im.rowLen = IF Columns(tab) = 0 \/ Rows(tab) = 0 THEN 0 ELSE RowWidth(tab)
  /\ im.stringsAt = im.rowsAt + Rows(tab) * RowWidth(tab)
  /\ im.stringsLen \in Nat /\ im.size = PaddedLength(im.stringsAt + im.stringsLen)
  /\ NameOK(tab, im.strings) /\ ColsOK(tab, im.cols, Columns(tab), im.strings)
  /\ CellsOK(tab, im.cells, Columns(tab) * Rows(tab), im.strings)
  /\ SortedOK(tab, im.keys) /\ Apart(im.strings, im.stringsLen)

(* The phases of a table. *)
NothingPlaced == cursor = 1 /\ written = 1 /\ placed = {}
InName ==
  /\ k = 1 /\ pairs = <<>> /\ next = 1 /\ cols = <<>> /\ cells = <<>> /\ keys = <<>>
  /\ NothingPlaced
InColumns ==
  /\ k \in 1..(Columns(Tab) + 1) /\ NameOK(Tab, Pairs) /\ ColsOK(Tab, cols, k - 1, Pairs)
  /\ cells = <<>> /\ keys = <<>> /\ NothingPlaced
InRows ==
  /\ k \in 1..(CellCount + 1) /\ NameOK(Tab, Pairs) /\ ColsOK(Tab, cols, Columns(Tab), Pairs)
  /\ CellsOK(Tab, cells, k - 1, Pairs) /\ KeysOK(Tab, keys, k - 1) /\ NothingPlaced
InKeys ==
  /\ NameOK(Tab, Pairs) /\ ColsOK(Tab, cols, Columns(Tab), Pairs)
  /\ CellsOK(Tab, cells, CellCount, Pairs) /\ KeysOK(Tab, keys, CellCount) /\ NothingPlaced
  /\ k = 1
InLabels ==
  /\ k \in 1..(Len(pairs) + 1) /\ NameOK(Tab, Pairs) /\ ColsOK(Tab, cols, Columns(Tab), Pairs)
  /\ CellsOK(Tab, cells, CellCount, Pairs) /\ SortedOK(Tab, keys)
  /\ cursor \in Nat /\ written = cursor /\ placed = {pairs[a] : a \in 1..(k - 1)}

Phases == {"name", "columns", "rows", "keys", "labels", "header", "done", "error"}
Common ==
  /\ file \in Files /\ pc \in Phases /\ Chained(pairs, next)
  /\ t \in 1..(Len(file) + 1) /\ (pc \notin {"header", "done"} => t \in 1..Len(file))
  /\ images \in Seq(Range(images)) /\ Len(images) = t - 1
  /\ \A x \in 1..(t - 1) : ImageOK(images[x], file[x])
WInv ==
  /\ Common
  /\ pc = "name" => InName
  /\ pc = "columns" => InColumns
  /\ pc = "rows" => InRows
  /\ pc = "keys" => InKeys
  /\ pc = "labels" => InLabels
  /\ pc = "error" => NothingPlaced
  /\ pc \in {"header", "done"} => t = Len(file) + 1 /\ placed = {} /\ pairs = <<>>
  /\ pc = "done" => offsets = [x \in 1..Len(images) |-> SizeUpTo(x - 1) + HeaderLen]

LEMMA CurrentTable ==
  ASSUME Common, pc \notin {"header", "done"}
  PROVE  /\ file \in Files /\ t \in 1..Len(file) /\ Tab = file[t]
         /\ CellCount = Columns(Tab) * Rows(Tab) /\ CellCount \in Nat
         /\ Columns(Tab) \in Nat /\ Rows(Tab) \in Nat /\ Key1(Tab) \in 0..Columns(Tab)
<1>1. file \in Files /\ t \in 1..Len(file)
  BY DEF Common
<1>2. Columns(Tab) \in Nat /\ Rows(Tab) \in Nat
  BY <1>1, Tables DEF Columns, Rows, Tab
<1>3. Key1(Tab) \in 0..Columns(Tab)
  BY <1>2, PrimaryColumn DEF Key1, Columns
<1>4. CellCount = Columns(Tab) * Rows(Tab) /\ CellCount \in Nat
  <2>1. CellCount = Columns(Tab) * Rows(Tab)
    BY DEF CellCount, Columns, Rows
  <2>2. \A a, b \in Nat : a * b \in Nat
    BY Product
  <2> QED BY <1>2, <2>1, <2>2
<1> QED BY <1>1, <1>2, <1>3, <1>4 DEF Tab

(* What stays true when labels are added. *)
LEMMA OKStays ==
  ASSUME NEW S, NEW T, S \subseteq T, NEW tab
  PROVE  /\ NameOK(tab, S) => NameOK(tab, T)
         /\ \A cs, m : ColsOK(tab, cs, m, S) => ColsOK(tab, cs, m, T)
         /\ \A cs, m : CellsOK(tab, cs, m, S) => CellsOK(tab, cs, m, T)
<1>1. \A ptr, l : Points(S, ptr, l) => Points(T, ptr, l)
  BY PointsStays
<1>2. \A cell, r, c : CellOK(tab, cell, r, c, S) => CellOK(tab, cell, r, c, T)
  BY <1>1 DEF CellOK
<1> QED BY <1>1, <1>2 DEF NameOK, ColsOK, CellsOK

LEMMA CommonStays ==
  ASSUME Common, UNCHANGED <<file, t, images>>, pc' \in Phases \ {"header", "done"},
         pc \notin {"header", "done"}, Chained(pairs, next)'
  PROVE  Common'
BY DEF Common, ImageOK, Range

LEMMA NameStep ==
  ASSUME WInv, WriteName
  PROVE  WInv'
<1>1. Common /\ InName /\ pc = "name" /\ pc' = "columns" /\ Get(Tab.name)
  BY DEF WInv, WriteName
<1>2. UNCHANGED <<file, t, k, cols, cells, keys, cursor, written, placed, images, offsets>>
  BY DEF WriteName
<1>3. Tab.name \in Label /\ Columns(Tab) \in Nat
  BY <1>1, CurrentTable, Tables DEF Columns
<1>4. Chained(pairs, next)' /\ (~IsEmpty(Tab.name) => [label |-> Tab.name, at |-> 1] \in Pairs')
  BY <1>1, <1>3, GetStep DEF Common, InName
<1>5. Common'
  BY <1>1, <1>2, <1>4, CommonStays DEF Phases
<1>6. Tab' = Tab
  BY <1>2 DEF Tab
<1>7. ColsOK(Tab, <<>>, 0, Pairs')
  BY DEF ColsOK
<1>8. InColumns'
  <2>1. NameOK(Tab, Pairs')
    BY <1>4 DEF NameOK
  <2>2. cols' = <<>> /\ k' = 1 /\ cells' = <<>> /\ keys' = <<>> /\ NothingPlaced'
    BY <1>1, <1>2 DEF InName, NothingPlaced
  <2>3. k' - 1 = 0 /\ k' \in 1..(Columns(Tab) + 1)
    BY <1>3, <2>2
  <2> QED BY <1>6, <1>7, <2>1, <2>2, <2>3 DEF InColumns, NameOK, ColsOK
<1> QED BY <1>1, <1>5, <1>8 DEF WInv

LEMMA AsItIs ==
  ASSUME NEW p \in Nat, FitsU16(p)
  PROVE  AsU16(p) = p
<1>1. U16Max \in Nat /\ p <= U16Max
  BY WriterAssumption DEF FitsU16
<1> QED BY <1>1 DEF AsU16

LEMMA ColumnStep ==
  ASSUME WInv, WriteColumn
  PROVE  WInv'
<1> DEFINE c == Tab.columns[k]
           S == Pairs'
<1>1. Common /\ InColumns /\ pc = "columns" /\ k <= Columns(Tab)
  BY DEF WInv, WriteColumn, Columns
<1>2. UNCHANGED <<file, t, cells, keys, cursor, written, placed, images, offsets>> /\ Get(c.label)
  BY DEF WriteColumn
<1>3. file \in Files /\ t \in 1..Len(file) /\ Tab = file[t] /\ Columns(Tab) \in Nat
  BY <1>1, CurrentTable
<1>4. k \in 1..Columns(Tab)
  BY <1>1, <1>3 DEF InColumns
<1>5. c.label \in Label /\ c.type \in Types
  BY <1>3, <1>4, Tables DEF Columns
<1>6. Chained(pairs, next)' /\ Pairs \subseteq S /\ Pointer(c.label) \in Nat
      /\ Points(S, Pointer(c.label), c.label)
  BY <1>1, <1>2, <1>5, GetStep DEF Common
<1>7. Tab' = Tab
  BY <1>2 DEF Tab
<1>8. NothingPlaced' /\ cells' = <<>> /\ keys' = <<>>
  BY <1>1, <1>2 DEF InColumns, NothingPlaced
<1>9. CASE pc' = "error"
  <2>1. Common'
    BY <1>1, <1>2, <1>6, <1>9, CommonStays DEF Phases
  <2> QED BY <1>8, <1>9, <2>1 DEF WInv
<1>10. CASE /\ FitsU16(Pointer(c.label))
            /\ cols' = Append(cols, [type |-> c.type, name |-> AsU16(Pointer(c.label))])
            /\ k' = k + 1 /\ UNCHANGED pc
  <2> DEFINE e == [type |-> c.type, name |-> Pointer(c.label)]
  <2>1. Common'
    BY <1>1, <1>2, <1>6, <1>10, CommonStays DEF Phases
  <2>2. NameOK(Tab, S) /\ ColsOK(Tab, cols, k - 1, S)
    BY <1>1, <1>6, OKStays DEF InColumns
  <2>3. e \in [type : Types, name : Nat] /\ e.type = c.type /\ Points(S, e.name, c.label)
    BY <1>5, <1>6
  <2>4. cols' = Append(cols, e)
    <3>1. AsU16(Pointer(c.label)) = Pointer(c.label)
      BY <1>6, <1>10, AsItIs
    <3> QED BY <1>10, <3>1
  <2> HIDE DEF e
  <2>5. ColsOK(Tab, cols', k, S)
    <3>1. cols \in Seq([type : Types, name : Nat]) /\ Len(cols) = k - 1
      BY <2>2 DEF ColsOK
    <3>2. /\ cols' \in Seq([type : Types, name : Nat]) /\ Len(cols') = k /\ cols'[k] = e
          /\ \A x \in 1..(k - 1) : cols'[x] = cols[x]
      BY <1>4, <2>3, <2>4, <3>1
    <3>3. ASSUME NEW x \in 1..k
          PROVE  cols'[x].type = Tab.columns[x].type /\ Points(S, cols'[x].name, Tab.columns[x].label)
      <4>1. CASE x = k
        BY <2>3, <3>2, <4>1
      <4>2. CASE x # k
        <5>1. x \in 1..(k - 1)
          BY <1>4, <4>2
        <5> QED BY <2>2, <3>2, <5>1 DEF ColsOK
      <4> QED BY <4>1, <4>2
    <3> QED BY <3>2, <3>3 DEF ColsOK
  <2>6. k' - 1 = k /\ k' \in 1..(Columns(Tab) + 1)
    BY <1>3, <1>4, <1>10
  <2>7. InColumns'
    BY <1>7, <1>8, <2>2, <2>5, <2>6 DEF InColumns, NameOK, ColsOK
  <2>8. pc' = "columns"
    BY <1>1, <1>10
  <2> QED BY <2>1, <2>7, <2>8 DEF WInv
<1> QED BY <1>9, <1>10 DEF WriteColumn

LEMMA RowsStart ==
  ASSUME WInv, ColumnsDone
  PROVE  WInv'
<1>1. Common /\ InColumns /\ pc = "columns" /\ pc' = "rows" /\ k > Columns(Tab) /\ k' = 1
      /\ UNCHANGED <<file, t, pairs, next, cols, cells, keys, cursor, written, placed, images, offsets>>
  BY DEF WInv, ColumnsDone, Columns
<1>2. file \in Files /\ t \in 1..Len(file) /\ Tab = file[t] /\ Columns(Tab) \in Nat
      /\ CellCount \in Nat /\ Key1(Tab) \in 0..Columns(Tab) /\ Rows(Tab) \in Nat
  BY <1>1, CurrentTable
<1>3. Common'
  BY <1>1, CommonStays DEF Phases, Common, Chained
<1>4. k - 1 = Columns(Tab)
  BY <1>1, <1>2 DEF InColumns
<1>5. Tab' = Tab /\ Pairs' = Pairs /\ CellCount' = CellCount
  BY <1>1 DEF Tab, Pairs, CellCount
<1>6. ASSUME NEW r \in 1..Rows(Tab), NEW c \in 1..Columns(Tab)
      PROVE  ~(Place(Columns(Tab), r, c) <= 0)
  <2>1. PICK w \in Nat : w = Columns(Tab)
    BY <1>2
  <2>2. PICK q \in Nat : q = r /\ q >= 1
    BY <1>2
  <2>3. PICK d \in 1..w : d = c
    BY <2>1
  <2>4. Place(w, q, d) \in Nat /\ Place(w, q, d) >= 1
    BY <2>2, Places
  <2> QED BY <2>1, <2>2, <2>3, <2>4
<1>7. CellsOK(Tab, <<>>, 0, Pairs)
  BY <1>6 DEF CellsOK
<1>8. KeysOK(Tab, <<>>, 0)
  <2>1. Key1(Tab) # 0 => Key1(Tab) \in 1..Columns(Tab)
    BY <1>2
  <2>2. <<>> \in Seq(Key) /\ Len(<<>>) = 0
    OBVIOUS
  <2> QED BY <1>2, <1>6, <2>1, <2>2 DEF KeysOK
<1>9. InRows'
  <2>1. NameOK(Tab, Pairs) /\ ColsOK(Tab, cols, Columns(Tab), Pairs)
    BY <1>1, <1>4 DEF InColumns
  <2>2. cols' = cols /\ k' - 1 = 0 /\ k' \in 1..(CellCount + 1) /\ cells' = <<>> /\ keys' = <<>> /\ NothingPlaced'
    BY <1>1, <1>2 DEF InColumns, NothingPlaced
  <2> QED BY <1>5, <1>7, <1>8, <2>1, <2>2 DEF InRows, NameOK, ColsOK, CellsOK, KeysOK
<1> QED BY <1>1, <1>3, <1>9 DEF WInv

(* Where a row of cells ends, and the whole of the rows. *)
CameLast(f, x, cs, S, m, r, c) ==
  /\ f \in Files /\ x \in 1..Len(f) /\ CellsOK(f[x], cs, m, S)
  /\ r \in 1..Rows(f[x]) /\ c \in 1..Columns(f[x]) /\ m = Place(Columns(f[x]), r, c)

LEMMA CellEnd ==
  ASSUME NEW f, NEW x, NEW S, NEW cs, NEW m, NEW r, NEW c, CameLast(f, x, cs, S, m, r, c)
  PROVE  cs # <<>> /\ Last(cs).at + Last(cs).width = (r - 1) * RowWidth(f[x]) + Pre(f[x])[c]
<1> DEFINE tab == f[x]
<1>0. /\ f \in Files /\ x \in 1..Len(f) /\ CellsOK(f[x], cs, m, S)
      /\ r \in 1..Rows(f[x]) /\ c \in 1..Columns(f[x]) /\ m = Place(Columns(f[x]), r, c)
  BY DEF CameLast
<1>1. Columns(tab) \in Nat /\ Rows(tab) \in Nat
  BY <1>0, Tables DEF Columns, Rows
<1>2. m \in Nat /\ m >= 1
  <2>1. PICK w \in Nat : w = Columns(tab)
    BY <1>0, <1>1
  <2>2. PICK q \in Nat : q = r /\ q >= 1
    BY <1>0, <1>1
  <2>3. c \in 1..w
    BY <1>0, <2>1
  <2>4. Place(w, q, c) \in Nat /\ Place(w, q, c) >= 1
    BY <2>2, <2>3, Places
  <2> QED BY <1>0, <2>1, <2>2, <2>4
<1>3. cs \in Seq(Cell) /\ Len(cs) = m /\ CellOK(tab, cs[m], r, c, S)
  BY <1>0, <1>2 DEF CellsOK
<1>4. cs # <<>> /\ Last(cs) = cs[m]
  BY <1>2, <1>3 DEF Last
<1>5. /\ Pre(tab)[c] = Pre(tab)[c - 1] + Width0(tab, c) /\ Pre(tab)[c - 1] \in Nat
      /\ Width0(tab, c) \in Nat /\ RowWidth(tab) \in Nat
  <2>1. c \in 1..Len(tab.columns) /\ c - 1 \in 0..Len(tab.columns)
    BY <1>0, <1>1 DEF Columns
  <2> QED BY <1>0, <2>1, Widths, Tables
<1>6. r - 1 \in Nat /\ (r - 1) * RowWidth(tab) \in Nat
  BY <1>0, <1>1, <1>5, Product, SMTT(30)
<1>7. cs[m].at = (r - 1) * RowWidth(tab) + Pre(tab)[c - 1] /\ cs[m].width = Width0(tab, c)
  BY <1>3 DEF CellOK
<1> QED BY <1>4, <1>5, <1>6, <1>7

(* The cell that comes next. *)
ComesNext(f, x, cs, S, m, r, c) ==
  /\ f \in Files /\ x \in 1..Len(f) /\ CellsOK(f[x], cs, m - 1, S)
  /\ m \in Nat /\ m >= 1 /\ m <= Columns(f[x]) * Rows(f[x])
  /\ r \in Nat /\ r >= 1 /\ c \in 1..Columns(f[x]) /\ m = Place(Columns(f[x]), r, c)

LEMMA NextCell ==
  ASSUME NEW f, NEW x, NEW S, NEW cs, NEW m, NEW r, NEW c, ComesNext(f, x, cs, S, m, r, c)
  PROVE  /\ r \in 1..Rows(f[x])
         /\ (IF cs = <<>> THEN 0 ELSE Last(cs).at + Last(cs).width)
              = (r - 1) * RowWidth(f[x]) + Pre(f[x])[c - 1]
<1> DEFINE tab == f[x]
<1>0. /\ f \in Files /\ x \in 1..Len(f) /\ CellsOK(f[x], cs, m - 1, S)
      /\ m \in Nat /\ m >= 1 /\ m <= Columns(f[x]) * Rows(f[x])
      /\ r \in Nat /\ r >= 1 /\ c \in 1..Columns(f[x]) /\ m = Place(Columns(f[x]), r, c)
  BY DEF ComesNext
<1>1. PICK w \in Nat, h \in Nat : w = Columns(tab) /\ h = Rows(tab)
  BY <1>0, Tables DEF Columns, Rows
<1>2. w >= 1 /\ m <= w * h /\ m <= h * w
  <2>1. w = 0 => w * h = 0
    OBVIOUS
  <2>2. w * h = h * w
    OBVIOUS
  <2> QED BY <1>0, <1>1, <2>1, <2>2
<1>3. r \in Nat /\ r >= 1 /\ c \in 1..w /\ m = Place(w, r, c)
  BY <1>0, <1>1
<1>4. r <= h
  BY <1>2, <1>3, Places
<1>5. /\ Pre(tab) \in [0..w -> Nat] /\ Pre(tab)[0] = 0 /\ RowWidth(tab) \in Nat
      /\ RowWidth(tab) = Pre(tab)[w]
  BY <1>0, <1>1, Widths DEF Columns, RowWidth
<1>6. cs \in Seq(Cell) /\ Len(cs) = m - 1
  BY <1>0 DEF CellsOK
<1>7. (IF cs = <<>> THEN 0 ELSE Last(cs).at + Last(cs).width) = (r - 1) * RowWidth(tab) + Pre(tab)[c - 1]
  <2>1. CASE c # 1
    <3>1. PICK d \in 1..w : d = c - 1
      BY <1>3, <2>1
    <3>2. m - 1 = Place(w, r, d)
      <4>1. PICK y \in Nat : y = (r - 1) * w
        <5>1. r - 1 \in Nat
          BY <1>3
        <5> QED BY <5>1, Product
      <4> QED BY <1>3, <3>1, <4>1 DEF Place
    <3>3. r \in 1..Rows(tab) /\ d \in 1..Columns(tab) /\ m - 1 = Place(Columns(tab), r, d)
      BY <1>1, <1>3, <1>4, <3>2
    <3>5. CameLast(f, x, cs, S, m - 1, r, d)
      BY <1>0, <3>3 DEF CameLast
    <3>4. cs # <<>> /\ Last(cs).at + Last(cs).width = (r - 1) * RowWidth(tab) + Pre(tab)[d]
      BY <3>5, CellEnd
    <3> QED BY <3>1, <3>4
  <2>2. CASE c = 1 /\ r = 1
    <3>1. m = 1
      <4>1. (1 - 1) * w = 0
        OBVIOUS
      <4> QED BY <1>3, <2>2, <4>1 DEF Place
    <3>2. cs = <<>>
      BY <1>6, <3>1
    <3>3. (r - 1) * RowWidth(tab) = 0
      BY <1>5, <2>2
    <3> QED BY <1>5, <2>2, <3>2, <3>3
  <2>3. CASE c = 1 /\ r # 1
    <3>1. PICK q \in 1..h : q = r - 1
      BY <1>3, <1>4, <2>3
    <3>2. m - 1 = Place(w, q, w)
      <4>1. PICK a \in Nat : q = a + 1
        <5>1. q - 1 \in Nat /\ q = q - 1 + 1
          BY <3>1
        <5> QED BY <5>1
      <4>2. PICK y \in Nat : y = a * w
        BY Product
      <4>3. q * w = y + w /\ (q - 1) * w = y
        <5>1. (a + 1) * w = a * w + w /\ q - 1 = a
          BY <4>1
        <5> QED BY <4>1, <4>2, <5>1
      <4>4. m = q * w + 1
        BY <1>3, <2>3, <3>1 DEF Place
      <4> QED BY <4>2, <4>3, <4>4 DEF Place
    <3>3. q \in 1..Rows(tab) /\ w \in 1..Columns(tab) /\ m - 1 = Place(Columns(tab), q, w)
      BY <1>1, <1>2, <3>1, <3>2
    <3>7. CameLast(f, x, cs, S, m - 1, q, w)
      BY <1>0, <3>3 DEF CameLast
    <3>4. cs # <<>> /\ Last(cs).at + Last(cs).width = (q - 1) * RowWidth(tab) + Pre(tab)[w]
      BY <3>7, CellEnd
    <3>5. (q - 1) * RowWidth(tab) + RowWidth(tab) = q * RowWidth(tab)
      <4>1. PICK v \in Nat : v = RowWidth(tab)
        BY <1>5
      <4>2. PICK a \in Nat : q = a + 1
        <5>1. q - 1 \in Nat /\ q = q - 1 + 1
          BY <3>1
        <5> QED BY <5>1
      <4>3. (a + 1) * v = a * v + v /\ q - 1 = a
        BY <4>2
      <4> QED BY <4>1, <4>2, <4>3
    <3>6. q * RowWidth(tab) \in Nat
      <4>1. q \in Nat
        BY <3>1
      <4> QED BY <1>5, <4>1, Product
    <3> QED BY <1>5, <2>3, <3>1, <3>4, <3>5, <3>6
  <2> QED BY <2>1, <2>2, <2>3
<1>8. r \in 1..h
  BY <1>3, <1>4
<1> QED BY <1>1, <1>3, <1>7, <1>8

(* A key is added when its column comes by. *)
LEMMA KeyStep ==
  ASSUME NEW f \in Files, NEW x \in 1..Len(f), NEW ks,
         NEW r \in 1..Rows(f[x]), NEW c \in 1..Columns(f[x]), NEW m,
         m = Place(Columns(f[x]), r, c), KeysOK(f[x], ks, m - 1)
  PROVE  KeysOK(f[x], IF c = Key1(f[x]) THEN Append(ks, <<f[x].rows[r][c], f[x].base + r - 1>>) ELSE ks, m)
<1> DEFINE tab == f[x]
           p == Key1(tab)
           e == <<tab.rows[r][c], tab.base + r - 1>>
<1>1. PICK w \in Nat, h \in Nat : w = Columns(tab) /\ h = Rows(tab)
  BY Tables DEF Columns, Rows
<1>2. p \in 0..w /\ (p # 0 => tab.columns[p].type = "key")
  BY <1>1, PrimaryColumn DEF Key1, Columns
<1>3. r \in 1..h /\ c \in 1..w /\ m = Place(w, r, c)
  BY <1>1
<1>4. m \in Nat /\ m >= 1
  BY <1>3, Places
<1>5. ASSUME NEW s \in 1..h, NEW d \in 1..w
      PROVE  /\ Place(w, s, d) \in Nat /\ (s = r /\ d = c <=> Place(w, s, d) = m)
             /\ (s < r => Place(w, s, d) < m) /\ (r < s => m < Place(w, s, d))
  <2>1. s \in Nat /\ s >= 1 /\ r \in Nat /\ r >= 1
    BY <1>3
  <2>2. /\ Place(w, s, d) \in Nat /\ (s < r => Place(w, s, d) < Place(w, r, c))
        /\ (Place(w, s, d) = Place(w, r, c) => s = r /\ d = c)
    <3>1. c \in 1..w
      BY <1>3
    <3>2. Place(w, s, d) \in Nat /\ (s < r => Place(w, s, d) < Place(w, r, c))
      BY <2>1, <3>1, PlacesApart
    <3>3. Place(w, s, d) = Place(w, r, c) => s = r /\ d = c
      BY <2>1, <3>1, PlacesApart
    <3> QED BY <3>2, <3>3
  <2>3. r < s => Place(w, r, c) < Place(w, s, d)
    BY <1>3, <2>1, PlacesApart
  <2> QED BY <1>3, <2>2, <2>3
<1>6. ks \in Seq(Key) /\ Len(ks) <= h /\ Len(ks) \in Nat /\ (p = 0 => ks = <<>>)
      /\ (p # 0 => \A s \in 1..h : Place(w, s, p) <= m - 1 <=> s <= Len(ks))
      /\ \A a \in 1..Len(ks) : ks[a] = <<tab.rows[a][p], tab.base + a - 1>>
  BY <1>1, SMTT(30) DEF KeysOK
<1>7. CASE c # p
  <2>1. p # 0 => \A s \in 1..h : Place(w, s, p) <= m <=> s <= Len(ks)
    <3> SUFFICES ASSUME p # 0, NEW s \in 1..h PROVE Place(w, s, p) <= m <=> s <= Len(ks)
      OBVIOUS
    <3>1. p \in 1..w
      BY <1>2
    <3>2. Place(w, s, p) \in Nat /\ Place(w, s, p) # m
      BY <1>5, <1>7, <3>1
    <3>3. Place(w, s, p) <= m - 1 <=> s <= Len(ks)
      BY <1>6
    <3> QED BY <1>4, <3>2, <3>3
  <2> QED BY <1>1, <1>6, <1>7, <2>1 DEF KeysOK
<1>8. CASE c = p
  <2>1. p # 0 /\ p \in 1..w
    BY <1>3, <1>8
  <2>2. Len(ks) = r - 1
    <3>1. ~(r <= Len(ks))
      BY <1>3, <1>4, <1>6, <1>8, <2>1
    <3>2. r - 1 >= 1 => r - 1 <= Len(ks)
      <4>1. SUFFICES ASSUME r - 1 >= 1 PROVE r - 1 <= Len(ks)
        OBVIOUS
      <4>2. PICK s \in 1..h : s = r - 1
        BY <1>3, <4>1
      <4>3. Place(w, s, p) < m /\ Place(w, s, p) \in Nat
        BY <1>3, <1>5, <2>1, <4>2
      <4> QED BY <1>4, <1>6, <2>1, <4>2, <4>3
    <3> QED BY <1>3, <1>6, <3>1, <3>2
  <2>3. e \in Key
    <3>1. x \in 1..Len(f) /\ r \in 1..Len(tab.rows) /\ c \in 1..Len(tab.columns)
      BY DEF Rows, Columns
    <3>2. Fits(tab, c, tab.rows[r][c]) /\ tab.base \in Nat
      BY <3>1, Tables
    <3>3. tab.columns[c].type = "key"
      BY <1>2, <1>8, <2>1
    <3>4. tab.rows[r][c] \in Hashes /\ Hashes \subseteq Nat
      BY <3>2, <3>3, WriterAssumption DEF Fits, WriterAssumption
    <3>5. tab.base + r - 1 \in Nat
      BY <1>3, <3>2
    <3> QED BY <3>4, <3>5 DEF Key
  <2> HIDE DEF e
  <2> DEFINE new == Append(ks, e)
  <2>4. new \in Seq(Key) /\ Len(new) = r /\ new[r] = e /\ \A a \in 1..(r - 1) : new[a] = ks[a]
    BY <1>3, <1>6, <2>2, <2>3
  <2> HIDE DEF new
  <2>5. ASSUME NEW s \in 1..h PROVE Place(w, s, p) <= m <=> s <= Len(new)
    BY <1>3, <1>4, <1>5, <1>8, <2>4, SMTT(30)
  <2>6. ASSUME NEW a \in 1..Len(new) PROVE new[a] = <<tab.rows[a][p], tab.base + a - 1>>
    <3>1. CASE a = r
      BY <1>8, <2>4, <3>1 DEF e
    <3>2. CASE a # r
      <4>1. a \in 1..(r - 1)
        BY <1>3, <2>4, <3>2
      <4> QED BY <1>6, <2>2, <2>4, <4>1
    <3> QED BY <3>1, <3>2
  <2>7. KeysOK(tab, new, m)
    BY <1>1, <1>3, <2>1, <2>4, <2>5, <2>6 DEF KeysOK
  <2> QED BY <1>8, <2>7 DEF new, e
<1> QED BY <1>7, <1>8

LEMMA CellStep ==
  ASSUME WInv, WriteCell
  PROVE  WInv'
<1> DEFINE c == CellColumn
           r == CellRow
           col == Tab.columns[c]
           v == Tab.rows[r][c]
           text == col.type = "text"
           S == Pairs'
<1>1. Common /\ InRows /\ pc = "rows" /\ k <= CellCount
  BY DEF WInv, WriteCell
<1>2. UNCHANGED <<file, pc, t, cols, cursor, written, placed, images, offsets>> /\ k' = k + 1
  BY DEF WriteCell
<1>3. /\ IF text THEN Get(TextLabel(v)) ELSE UNCHANGED <<pairs, next>>
      /\ cells' = Append(cells, [at |-> RowBytes, width |-> Width(col.type),
                                 val |-> IF text THEN Pointer(TextLabel(v)) ELSE v])
      /\ keys' = IF c = Primary(Tab.columns) THEN Append(keys, <<v, RowId(r)>>) ELSE keys
  BY DEF WriteCell
<1>4. file \in Files /\ t \in 1..Len(file) /\ Tab = file[t] /\ CellCount = Columns(Tab) * Rows(Tab)
      /\ CellCount \in Nat /\ Columns(Tab) \in Nat /\ Rows(Tab) \in Nat
  BY <1>1, CurrentTable
<1>5. k \in Nat /\ k >= 1 /\ CellsOK(Tab, cells, k - 1, Pairs) /\ KeysOK(Tab, keys, k - 1)
  BY <1>1, <1>4 DEF InRows
<1>6. /\ r \in 1..Rows(Tab) /\ c \in 1..Columns(Tab) /\ k = Place(Columns(Tab), r, c)
      /\ RowBytes = (r - 1) * RowWidth(Tab) + Pre(Tab)[c - 1]
  <2>1. k <= Columns(file[t]) * Rows(file[t]) /\ CellsOK(file[t], cells, k - 1, Pairs)
    BY <1>1, <1>4, <1>5
  <2>2. r = ((k - 1) \div Columns(file[t])) + 1 /\ c = ((k - 1) % Columns(file[t])) + 1
        /\ RowBytes = IF cells = <<>> THEN 0 ELSE Last(cells).at + Last(cells).width
    BY <1>4 DEF CellRow, CellColumn, Columns, RowBytes
  <2> HIDE DEF c, r
  <2>4. PICK w \in Nat, h \in Nat : w = Columns(file[t]) /\ h = Rows(file[t])
    BY <1>4
  <2>5. w >= 1
    <3>1. w = 0 => w * h = 0
      OBVIOUS
    <3> QED BY <1>5, <2>1, <2>4, <3>1
  <2>6. r \in Nat /\ r >= 1 /\ c \in 1..w /\ k = Place(w, r, c)
    BY <1>5, <2>2, <2>4, <2>5, Grid
  <2>3. /\ r \in 1..Rows(file[t]) /\ c \in 1..Columns(file[t]) /\ k = Place(Columns(file[t]), r, c)
        /\ (IF cells = <<>> THEN 0 ELSE Last(cells).at + Last(cells).width)
              = (r - 1) * RowWidth(file[t]) + Pre(file[t])[c - 1]
    <3>1. c \in 1..Columns(file[t]) /\ k = Place(Columns(file[t]), r, c)
      BY <2>4, <2>6
    <3>2. CellsOK(file[t], cells, k - 1, Pairs) /\ k <= Columns(file[t]) * Rows(file[t])
      BY <2>1
    <3>3. file \in Files /\ t \in 1..Len(file) /\ k \in Nat /\ k >= 1 /\ r \in Nat /\ r >= 1
      BY <1>4, <1>5, <2>6
    <3>4. ComesNext(file, t, cells, Pairs, k, r, c)
      BY <3>1, <3>2, <3>3 DEF ComesNext
    <3>5. /\ r \in 1..Rows(file[t])
          /\ (IF cells = <<>> THEN 0 ELSE Last(cells).at + Last(cells).width)
                = (r - 1) * RowWidth(file[t]) + Pre(file[t])[c - 1]
      BY <3>4, NextCell
    <3> QED BY <3>1, <3>5
  <2> QED BY <1>4, <2>2, <2>3
<1> HIDE DEF c, r
<1>7. /\ col.type \in Types /\ Width0(Tab, c) \in Nat /\ Width(col.type) = Width0(Tab, c)
      /\ Fits(Tab, c, v) /\ Tab.base \in Nat
  BY <1>4, <1>6, Tables DEF Columns, Rows, Width0
<1>8. text => v \in Texts
  BY <1>7 DEF Fits
<1>9. ~text => v \in Nat
  BY <1>7, WriterAssumption DEF Fits, WriterAssumption
<1>10. /\ Chained(pairs, next)' /\ Pairs \subseteq S
       /\ text => Pointer(TextLabel(v)) \in Nat /\ Points(S, Pointer(TextLabel(v)), TextLabel(v))
  <2>1. CASE text
    <3>1. TextLabel(v) \in Label /\ Get(TextLabel(v)) /\ Chained(pairs, next)
      BY <1>1, <1>3, <1>8, <2>1, TextLabels DEF Common
    <3> QED BY <3>1, GetStep
  <2>2. CASE ~text
    BY <1>1, <1>3, <2>2 DEF Common, Chained, Pairs
  <2> QED BY <2>1, <2>2
<1>11. Common'
  BY <1>1, <1>2, <1>10, CommonStays DEF Phases
<1>12. Tab' = Tab /\ CellCount' = CellCount
  BY <1>2 DEF Tab, CellCount
<1>13. NameOK(Tab, S) /\ ColsOK(Tab, cols, Columns(Tab), S) /\ CellsOK(Tab, cells, k - 1, S)
  BY <1>1, <1>10, OKStays DEF InRows
<1> DEFINE e == [at |-> RowBytes, width |-> Width(col.type),
                 val |-> IF text THEN Pointer(TextLabel(v)) ELSE v]
<1>14. e \in Cell
  <2>1. Pre(Tab)[c - 1] \in Nat /\ RowWidth(Tab) \in Nat
    <3>1. Pre(Tab) \in [0..Columns(Tab) -> Nat] /\ RowWidth(Tab) \in Nat
      BY <1>4, Widths DEF Columns
    <3>2. c - 1 \in 0..Columns(Tab)
      BY <1>4, <1>6
    <3> QED BY <3>1, <3>2
  <2>2. (r - 1) * RowWidth(Tab) \in Nat
    <3>1. r - 1 \in Nat
      BY <1>4, <1>6
    <3> QED BY <2>1, <3>1, Product
  <2>3. RowBytes \in Nat
    BY <1>6, <2>1, <2>2
  <2> QED BY <1>7, <1>9, <1>10, <2>3 DEF Cell
<1>15. CellOK(Tab, e, r, c, S)
  BY <1>6, <1>7, <1>10 DEF CellOK
<1>16. cells' = Append(cells, e)
  BY <1>3
<1> HIDE DEF e, S
<1>17. CellsOK(Tab, cells', k, S)
  <2>1. cells \in Seq(Cell) /\ Len(cells) = k - 1
    BY <1>13 DEF CellsOK
  <2>2. /\ cells' \in Seq(Cell) /\ Len(cells') = k /\ cells'[k] = e
        /\ \A a \in 1..(k - 1) : cells'[a] = cells[a]
    BY <1>5, <1>14, <1>16, <2>1
  <2>3. ASSUME NEW q \in 1..Rows(Tab), NEW d \in 1..Columns(Tab), Place(Columns(Tab), q, d) <= k
        PROVE  CellOK(Tab, cells'[Place(Columns(Tab), q, d)], q, d, S)
    <3>1. PICK w \in Nat : w = Columns(Tab)
      BY <1>4
    <3>2. Place(w, q, d) \in Nat /\ Place(w, q, d) >= 1 /\ (Place(w, q, d) = Place(w, r, c) => q = r /\ d = c)
      <4>1. q \in Nat /\ q >= 1 /\ r \in Nat /\ r >= 1 /\ d \in 1..w /\ c \in 1..w
        BY <1>4, <1>6, <3>1
      <4> HIDE DEF c, r
      <4> QED BY <4>1, PlacesApart, SMTT(30)
    <3>3. CASE Place(w, q, d) = k
      BY <1>6, <1>15, <2>2, <3>1, <3>2, <3>3
    <3>4. CASE Place(w, q, d) # k
      <4>1. Place(w, q, d) \in 1..(k - 1)
        BY <1>5, <2>3, <3>1, <3>2, <3>4
      <4>2. CellOK(Tab, cells[Place(w, q, d)], q, d, S)
        BY <1>13, <3>1, <4>1 DEF CellsOK
      <4> QED BY <2>2, <3>1, <4>1, <4>2
    <3> QED BY <3>3, <3>4
  <2> QED BY <2>2, <2>3 DEF CellsOK
<1>18. KeysOK(Tab, keys', k)
  <2>1. keys' = IF c = Key1(Tab) THEN Append(keys, <<v, Tab.base + r - 1>>) ELSE keys
    BY <1>3 DEF Key1, RowId
  <2> QED BY <1>4, <1>5, <1>6, <2>1, KeyStep
<1>19. k' \in 1..(CellCount + 1) /\ k' - 1 = k /\ NothingPlaced'
  BY <1>1, <1>2, <1>4, <1>5 DEF InRows, NothingPlaced
<1>20. InRows'
  BY <1>2, <1>12, <1>13, <1>17, <1>18, <1>19 DEF InRows, NameOK, ColsOK, CellsOK, KeysOK, S
<1>21. pc' = "rows"
  BY <1>1, <1>2
<1> QED BY <1>11, <1>20, <1>21 DEF WInv

LEMMA KeysStart ==
  ASSUME WInv, RowsDone
  PROVE  WInv'
<1>1. Common /\ InRows /\ pc = "rows" /\ pc' = "keys" /\ k > CellCount /\ k' = 1
      /\ UNCHANGED <<file, t, pairs, next, cols, cells, keys, cursor, written, placed, images, offsets>>
  BY DEF WInv, RowsDone
<1>2. CellCount \in Nat
  BY <1>1, CurrentTable
<1>3. Common'
  BY <1>1, CommonStays DEF Phases, Common, Chained
<1>4. k - 1 = CellCount
  BY <1>1, <1>2 DEF InRows
<1>5. Tab' = Tab /\ Pairs' = Pairs /\ CellCount' = CellCount /\ (NothingPlaced => NothingPlaced')
  BY <1>1 DEF Tab, Pairs, CellCount, NothingPlaced
<1>6. InKeys'
  BY <1>1, <1>4, <1>5 DEF InRows, InKeys, NameOK, ColsOK, CellsOK, KeysOK
<1> QED BY <1>1, <1>3, <1>6 DEF WInv

LEMMA SortStep ==
  ASSUME WInv, SortKeys
  PROVE  WInv'
<1> DEFINE ks == Sorted(keys)
           twice == \E a \in 1..(Len(ks) - 1) : ks[a][1] = ks[a + 1][1]
<1>1. Common /\ InKeys /\ pc = "keys"
  BY DEF WInv, SortKeys
<1>2. /\ UNCHANGED <<file, t, k, pairs, next, cols, cells, cursor, written, placed, images, offsets>>
      /\ keys' = [a \in DOMAIN ks |-> <<ks[a][1], ks[a][2] - Tab.base>>]
      /\ pc' = IF twice THEN "error" ELSE "labels"
  BY DEF SortKeys
<1> HIDE DEF ks
<1>3. file \in Files /\ t \in 1..Len(file) /\ Tab = file[t] /\ CellCount = Columns(Tab) * Rows(Tab)
      /\ Columns(Tab) \in Nat /\ Rows(Tab) \in Nat /\ Key1(Tab) \in 0..Columns(Tab)
  BY <1>1, CurrentTable
<1>4. Common'
  BY <1>1, <1>2, CommonStays DEF Phases, Common, Chained
<1>5. Tab' = Tab /\ Pairs' = Pairs /\ CellCount' = CellCount /\ NothingPlaced /\ NothingPlaced'
  BY <1>1, <1>2 DEF Tab, Pairs, CellCount, InKeys, NothingPlaced
<1>6. CASE twice
  BY <1>2, <1>4, <1>5, <1>6 DEF WInv
<1>7. CASE ~twice
  <2> DEFINE p == Key1(Tab)
             m == Len(keys)
             h == Rows(Tab)
  <2>1. /\ keys \in Seq(Key) /\ m \in Nat /\ m <= h /\ (p = 0 => keys = <<>>)
        /\ \A a \in 1..m : keys[a] = <<Tab.rows[a][p], Tab.base + a - 1>>
    BY <1>1 DEF InKeys, KeysOK
  <2>2. m = IF p = 0 THEN 0 ELSE h
    <3>1. CASE p = 0
      BY <2>1, <3>1
    <3>2. CASE p # 0 /\ h # 0
      <4>1. PICK w \in Nat : w = Columns(Tab) /\ p \in 1..w
        BY <1>3, <3>2
      <4>2. PICK r \in 1..h : r = h /\ r \in Nat /\ r >= 1
        BY <1>3, <3>2
      <4>3. Place(w, r, p) <= r * w
        BY <4>1, <4>2, Places
      <4>4. CellCount = r * w
        <5>1. w * r = r * w
          BY <4>2
        <5> QED BY <1>3, <4>1, <4>2, <5>1
      <4>5. Place(w, r, p) <= CellCount <=> r <= m
        BY <1>1, <3>2, <4>1 DEF InKeys, KeysOK
      <4> QED BY <1>3, <2>1, <3>2, <4>2, <4>3, <4>4, <4>5
    <3>3. CASE p # 0 /\ h = 0
      BY <2>1, <3>3
    <3> QED BY <3>1, <3>2, <3>3
  <2>3. Tab.base \in Nat
    BY <1>3, Tables
  <2>4. \A a, b \in 1..m : keys[a] = keys[b] => a = b
    <3> SUFFICES ASSUME NEW a \in 1..m, NEW b \in 1..m, keys[a] = keys[b] PROVE a = b
      OBVIOUS
    <3>1. keys[a][2] = Tab.base + a - 1 /\ keys[b][2] = Tab.base + b - 1
      BY <2>1
    <3> QED BY <2>3, <3>1
  <2>5. /\ ks \in Seq(Key) /\ Len(ks) = m
        /\ \A a \in 1..m : \E b \in 1..m : ks[a] = keys[b]
        /\ \A a, b \in 1..m : a < b => Before(ks[a], ks[b])
    BY <2>1, <2>4, SortedKeys DEF ks
  <2> HIDE DEF m, p, h
  <2>6. ASSUME NEW a \in 1..m
        PROVE  /\ keys'[a] = <<ks[a][1], ks[a][2] - Tab.base>> /\ ks[a][1] \in Nat /\ ks[a][2] \in Nat
               /\ \E b \in 1..m : ks[a][1] = Tab.rows[b][p] /\ ks[a][2] - Tab.base = b - 1
    <3>1. ks[a] \in Key /\ DOMAIN ks = 1..m
      BY <2>5
    <3>2. PICK b \in 1..m : ks[a] = keys[b]
      BY <2>5
    <3>3. ks[a][1] = Tab.rows[b][p] /\ ks[a][2] = Tab.base + b - 1
      BY <2>1, <3>2
    <3>4. ks[a][2] - Tab.base = b - 1
      BY <2>1, <2>3, <3>3
    <3> QED BY <1>2, <3>1, <3>3, <3>4 DEF Key
  <2>7. keys' \in Seq(Key) /\ Len(keys') = m
    <3>1. ASSUME NEW a \in 1..m PROVE keys'[a] \in Key
      <4>1. PICK b \in 1..m : ks[a][2] - Tab.base = b - 1
        BY <2>6
      <4>2. b - 1 \in Nat
        BY <2>1
      <4>3. keys'[a] = <<ks[a][1], b - 1>> /\ ks[a][1] \in Nat
        BY <2>6, <4>1
      <4> QED BY <4>2, <4>3 DEF Key
    <3>2. keys' = [a \in 1..m |-> keys'[a]]
      <4>1. DOMAIN ks = 1..m
        BY <2>5
      <4> QED BY <1>2, <4>1
    <3> QED BY <2>1, <3>1, <3>2
  <2>8. ASSUME NEW a \in 1..m, NEW b \in 1..m, a < b
        PROVE  keys'[a][1] < keys'[b][1]
    <3>1. PICK c \in 1..m : c = a + 1 /\ c <= b
      BY <2>1, <2>8
    <3>2. a \in 1..(Len(ks) - 1)
      BY <2>1, <2>5, <2>8
    <3>3. ks[a][1] # ks[c][1]
      BY <1>7, <3>1, <3>2
    <3>7. a < c /\ (c = b \/ c < b)
      BY <2>1, <2>8, <3>1
    <3>4. Before(ks[a], ks[c]) /\ (c = b \/ Before(ks[c], ks[b]))
      BY <2>5, <3>7
    <3>5. ks[a][1] \in Nat /\ ks[b][1] \in Nat /\ ks[c][1] \in Nat
      BY <2>6
    <3>6. ks[a][1] < ks[b][1]
      BY <3>3, <3>4, <3>5 DEF Before
    <3> QED BY <2>6, <3>6
  <2>9. ASSUME NEW a \in 1..m
        PROVE  keys'[a][2] + 1 \in 1..h /\ Tab.rows[keys'[a][2] + 1][p] = keys'[a][1]
    <3>1. PICK b \in 1..m : ks[a][1] = Tab.rows[b][p] /\ ks[a][2] - Tab.base = b - 1
      BY <2>6
    <3>2. keys'[a][1] = Tab.rows[b][p] /\ keys'[a][2] = b - 1
      BY <2>6, <3>1
    <3>3. b - 1 + 1 = b /\ b \in 1..h
      BY <1>3, <2>1 DEF h
    <3> QED BY <3>2, <3>3
  <2>10. SortedOK(Tab, keys')
    BY <2>2, <2>7, <2>8, <2>9 DEF SortedOK, p, h
  <2>11. k' = 1 /\ k' \in 1..(Len(pairs') + 1) /\ cursor' \in Nat /\ written' = cursor'
         /\ placed' = {pairs'[a] : a \in 1..(k' - 1)}
    <3>1. k' = 1 /\ cursor' = 1 /\ written' = 1 /\ placed' = {}
      BY <1>1, <1>2, <1>5 DEF InKeys, NothingPlaced
    <3>2. Len(pairs') \in Nat
      BY <1>4 DEF Common, Chained
    <3>3. 1..(k' - 1) = {}
      BY <3>1
    <3> QED BY <3>1, <3>2, <3>3
  <2>12. InLabels'
    BY <1>1, <1>2, <1>5, <2>10, <2>11 DEF InKeys, InLabels, NameOK, ColsOK, CellsOK, SortedOK
  <2> QED BY <1>2, <1>4, <1>7, <2>12 DEF WInv
<1> QED BY <1>6, <1>7

LEMMA LabelStep ==
  ASSUME WInv, WriteLabel
  PROVE  WInv'
<1> DEFINE p == pairs[k]
<1>1. Common /\ InLabels /\ pc = "labels" /\ k <= Len(pairs)
  BY DEF WInv, WriteLabel
<1>2. /\ UNCHANGED <<file, pc, t, pairs, next, cols, cells, keys, images, offsets>> /\ k' = k + 1
      /\ placed' = placed \cup {[label |-> p.label, at |-> cursor + (p.at - written)]}
      /\ cursor' = cursor + (p.at - written) + SizeOf(p.label)
      /\ written' = p.at + SizeOf(p.label)
  BY DEF WriteLabel, Resync
<1>3. Common'
  BY <1>1, <1>2, CommonStays DEF Phases, Common, Chained
<1>4. Tab' = Tab /\ Pairs' = Pairs /\ CellCount' = CellCount
  BY <1>2 DEF Tab, Pairs, CellCount
<1>5. Len(pairs) \in Nat /\ k \in 1..Len(pairs) /\ pairs \in Seq(Entry)
  BY <1>1 DEF InLabels, Common, Chained
<1>6. p \in Entry
  BY <1>5
<1>7. p.at \in Nat /\ p = [label |-> p.label, at |-> p.at] /\ SizeOf(p.label) \in Nat
  BY <1>6, Entries, Labels
<1>8. cursor \in Nat /\ written = cursor /\ placed = {pairs[a] : a \in 1..(k - 1)}
  BY <1>1 DEF InLabels
<1>9. cursor + (p.at - written) = p.at
  BY <1>7, <1>8
<1>10. placed' = placed \cup {p} /\ cursor' = written' /\ cursor' \in Nat
  BY <1>2, <1>7, <1>9
<1>11. placed' = {pairs'[a] : a \in 1..(k' - 1)}
  <2>1. 1..(k' - 1) = 1..(k - 1) \cup {k}
    BY <1>2, <1>5
  <2> QED BY <1>2, <1>8, <1>10, <2>1
<1>12. k' \in 1..(Len(pairs') + 1)
  BY <1>2, <1>5
<1>13. InLabels'
  BY <1>1, <1>2, <1>4, <1>10, <1>11, <1>12 DEF InLabels, NameOK, ColsOK, CellsOK, SortedOK
<1>14. pc' = "labels"
  BY <1>1, <1>2
<1> QED BY <1>3, <1>13, <1>14 DEF WInv

(* The rows and the length of each, once all cells are there. *)
LEMMA AllCells ==
  ASSUME Common, pc \notin {"header", "done"}, CellsOK(Tab, cells, CellCount, Pairs)
  PROVE  /\ RowBytes = Rows(Tab) * RowWidth(Tab) /\ RowBytes \in Nat
         /\ RowLen = IF Columns(Tab) = 0 \/ Rows(Tab) = 0 THEN 0 ELSE RowWidth(Tab)
<1>1. file \in Files /\ t \in 1..Len(file) /\ Tab = file[t] /\ CellCount = Columns(Tab) * Rows(Tab)
  BY CurrentTable
<1>2. PICK w \in Nat, h \in Nat : w = Columns(Tab) /\ h = Rows(Tab)
  BY CurrentTable
<1>3. PICK v \in Nat : v = RowWidth(Tab)
  BY <1>1, Widths
<1>4. cells \in Seq(Cell) /\ Len(cells) = CellCount
  BY DEF CellsOK
<1>5. CASE w = 0 \/ h = 0
  <2>1. w * h = 0 /\ CellCount = 0
    BY <1>1, <1>2, <1>5
  <2>2. cells = <<>>
    BY <1>4, <2>1
  <2>3. h * v = 0
    <3>1. w = 0 => v = 0
      BY <1>1, <1>2, <1>3, Widths DEF Columns
    <3> QED BY <1>5, <3>1
  <2> QED BY <1>2, <1>3, <1>5, <2>1, <2>2, <2>3 DEF RowBytes, RowLen
<1>6. CASE w # 0 /\ h # 0
  <2>1. w \in 1..Columns(Tab) /\ h \in 1..Rows(Tab) /\ w \in 1..w /\ h >= 1 /\ 1 \in 1..Rows(Tab)
    BY <1>2, <1>6
  <2>2. CellCount = Place(Columns(Tab), h, w)
    <3>1. PICK g \in Nat : h = g + 1
      <4>1. h - 1 \in Nat /\ h = h - 1 + 1
        BY <1>6
      <4> QED BY <4>1
    <3>2. w * (g + 1) = g * w + w /\ g + 1 - 1 = g
      OBVIOUS
    <3> QED BY <1>1, <1>2, <3>1, <3>2 DEF Place
  <2>3. cells # <<>> /\ Last(cells).at + Last(cells).width = (h - 1) * RowWidth(Tab) + Pre(Tab)[w]
    <3>1. /\ CellsOK(file[t], cells, CellCount, Pairs) /\ CellCount = Place(Columns(file[t]), h, w)
          /\ h \in 1..Rows(file[t]) /\ w \in 1..Columns(file[t])
      BY <1>1, <2>1, <2>2
    <3>2. cells # <<>> /\ Last(cells).at + Last(cells).width = (h - 1) * RowWidth(file[t]) + Pre(file[t])[w]
      <4>1. CameLast(file, t, cells, Pairs, CellCount, h, w)
        BY <1>1, <3>1 DEF CameLast
      <4> QED BY <4>1, CellEnd
    <3> QED BY <1>1, <3>2
  <2>4. Pre(Tab)[w] = v
    BY <1>2, <1>3 DEF RowWidth, Columns
  <2>5. RowBytes = h * v
    <3>1. PICK g \in Nat : h = g + 1
      <4>1. h - 1 \in Nat /\ h = h - 1 + 1
        BY <1>6
      <4> QED BY <4>1
    <3>2. (g + 1) * v = g * v + v /\ h - 1 = g
      BY <3>1
    <3> QED BY <1>3, <2>3, <2>4, <3>1, <3>2 DEF RowBytes
  <2>6. Place(w, 1, w) = w /\ w <= CellCount
    <3>1. (1 - 1) * w = 0
      OBVIOUS
    <3>2. Place(w, 1, w) = w
      BY <3>1 DEF Place
    <3>3. Place(w, 1, w) <= h * w
      <4>1. PICK r \in Nat : r = 1 /\ r >= 1 /\ r <= h
        BY <2>1
      <4>2. Place(w, r, w) <= h * w
        BY <2>1, <4>1, Places
      <4> QED BY <4>1, <4>2
    <3>4. h * w = w * h
      OBVIOUS
    <3> QED BY <1>1, <1>2, <3>2, <3>3, <3>4
  <2>7. CellOK(Tab, cells[w], 1, w, Pairs)
    BY <1>2, <2>1, <2>6 DEF CellsOK
  <2>8. cells[w].at + cells[w].width = v
    <3>1. cells[w].at = (1 - 1) * v + Pre(Tab)[w - 1] /\ cells[w].width = Width0(Tab, w)
      BY <1>3, <2>7 DEF CellOK
    <3>2. Pre(Tab)[w] = Pre(Tab)[w - 1] + Width0(Tab, w) /\ Pre(Tab)[w - 1] \in Nat /\ Width0(Tab, w) \in Nat
      <4>1. Pre(Tab) \in [0..w -> Nat] /\ Pre(Tab)[w] = Pre(Tab)[w - 1] + Width0(Tab, w)
        BY <1>1, <1>2, <2>1, Widths DEF Columns
      <4>2. w - 1 \in 0..w
        BY <1>6
      <4>3. Width0(Tab, w) \in Nat
        BY <1>1, <1>2, <2>1, Tables DEF Columns
      <4> QED BY <4>1, <4>2, <4>3
    <3>3. (1 - 1) * v = 0
      OBVIOUS
    <3> QED BY <2>4, <3>1, <3>2, <3>3
  <2>9. CellCount # 0
    BY <1>6, <2>6
  <2>10. RowLen = v
    BY <1>2, <2>8, <2>9 DEF RowLen, Columns
  <2>11. h * v \in Nat
    BY Product
  <2> QED BY <1>2, <1>3, <1>6, <2>5, <2>10, <2>11
<1> QED BY <1>5, <1>6

LEMMA ChainedApart ==
  ASSUME Chained(pairs, next)
  PROVE  Apart(Pairs, next)
<1>1. pairs \in Seq(Entry) /\ Len(pairs) \in Nat /\ \A a \in 1..Len(pairs) : pairs[a] \in Entry
  BY DEF Chained
<1>2. ASSUME NEW x \in Pairs, NEW y \in Pairs, x # y
      PROVE  x.at + SizeOf(x.label) <= y.at \/ y.at + SizeOf(y.label) <= x.at
  <2>1. PICK a \in 1..Len(pairs) : x = pairs[a]
    BY DEF Pairs
  <2>2. PICK b \in 1..Len(pairs) : y = pairs[b]
    BY DEF Pairs
  <2>3. a < b \/ b < a
    BY <1>1, <1>2, <2>1, <2>2
  <2> QED BY <2>1, <2>2, <2>3 DEF Chained
<1> QED BY <1>1, <1>2 DEF Apart, Pairs, Chained

LEMMA TableStep ==
  ASSUME WInv, WriteTable
  PROVE  WInv'
<1>1. Common /\ InLabels /\ pc = "labels" /\ k > Len(pairs)
  BY DEF WInv, WriteTable
<1>2. /\ images' = Append(images, Image) /\ t' = t + 1
      /\ pc' = IF t = Len(file) THEN "header" ELSE "name"
      /\ k' = 1 /\ pairs' = <<>> /\ next' = 1 /\ cols' = <<>> /\ cells' = <<>>
      /\ keys' = <<>> /\ cursor' = 1 /\ written' = 1 /\ placed' = {}
      /\ UNCHANGED <<file, offsets>>
  BY DEF WriteTable
<1>3. file \in Files /\ t \in 1..Len(file) /\ Tab = file[t] /\ CellCount = Columns(Tab) * Rows(Tab)
  BY <1>1, CurrentTable
<1>4. file \in Seq(Table) /\ Len(file) \in Nat /\ t \in Nat /\ t >= 1
  <2>1. file \in Seq(Table)
    BY <1>3, Tables
  <2> QED BY <1>3, <2>1
<1>5. Chained(pairs, next)
  BY <1>1 DEF Common
<1>6. placed = Pairs
  <2>1. Len(pairs) \in Nat
    BY <1>5 DEF Chained
  <2>2. k - 1 = Len(pairs)
    BY <1>1, <2>1 DEF InLabels
  <2> QED BY <1>1, <2>2 DEF InLabels, Pairs
<1>7. /\ NameOK(Tab, Pairs) /\ ColsOK(Tab, cols, Columns(Tab), Pairs)
      /\ CellsOK(Tab, cells, CellCount, Pairs) /\ SortedOK(Tab, keys)
  BY <1>1 DEF InLabels
<1>8. /\ RowBytes = Rows(Tab) * RowWidth(Tab)
      /\ RowLen = IF Columns(Tab) = 0 \/ Rows(Tab) = 0 THEN 0 ELSE RowWidth(Tab)
  BY <1>1, <1>7, AllCells
<1>9. Len(cols) = Columns(Tab)
  BY <1>7 DEF ColsOK
<1>10. ImageOK(Image, Tab)
  <2>1. /\ Image.nCols = Columns(Tab) /\ Image.nRows = Rows(Tab) /\ Image.base = Tab.base
        /\ Image.colsAt = TableHeaderSize /\ Image.keysAt = KeysAt /\ Image.rowsAt = RowsAt
        /\ Image.rowLen = RowLen /\ Image.stringsAt = StringsAt /\ Image.stringsLen = next
        /\ Image.cols = cols /\ Image.keys = keys /\ Image.cells = cells /\ Image.strings = placed
        /\ Image.size = PaddedLength(StringsAt + next)
    BY <1>9 DEF Image, Rows
  <2>2. KeysAt = TableHeaderSize + 3 * Columns(Tab) /\ RowsAt = KeysAt + 8 * Len(keys)
        /\ StringsAt = RowsAt + Rows(Tab) * RowWidth(Tab)
    BY <1>8, <1>9 DEF KeysAt, RowsAt, StringsAt
  <2>3. Apart(Pairs, next) /\ next \in Nat
    BY <1>5, ChainedApart DEF Chained
  <2> HIDE DEF Image
  <2> QED BY <1>3, <1>6, <1>7, <1>8, <2>1, <2>2, <2>3 DEF ImageOK
<1>11. images \in Seq(Range(images)) /\ Len(images) = t - 1
       /\ \A x \in 1..(t - 1) : ImageOK(images[x], file[x])
  BY <1>1 DEF Common
<1> HIDE DEF Image
<1>12. /\ Len(images') = t /\ images'[t] = Image
       /\ \A x \in 1..(t - 1) : images'[x] = images[x]
  <2>1. Len(images) + 1 = t
    BY <1>4, <1>11
  <2> QED BY <1>2, <1>11, <2>1, Appended
<1>13. images' \in Seq(Range(images'))
  BY <1>2, <1>11, Appended
<1>14. \A x \in 1..t : ImageOK(images'[x], file[x])
  <2> SUFFICES ASSUME NEW x \in 1..t PROVE ImageOK(images'[x], file[x])
    OBVIOUS
  <2>1. CASE x = t
    BY <1>3, <1>10, <1>12, <2>1
  <2>2. CASE x # t
    <3>1. x \in 1..(t - 1)
      BY <1>4, <2>2
    <3> QED BY <1>11, <1>12, <3>1
  <2> QED BY <2>1, <2>2
<1>15. Chained(pairs', next')
  <2>1. <<>> \in Seq(Entry) /\ Len(<<>>) = 0
    OBVIOUS
  <2> QED BY <1>2, <2>1 DEF Chained
<1>16. t' - 1 = t /\ t' \in 1..(Len(file') + 1) /\ (pc' = "name" => t' \in 1..Len(file'))
       /\ pc' \in {"name", "header"} /\ (pc' = "header" => t' = Len(file') + 1)
  BY <1>2, <1>3, <1>4
<1>17. Common'
  BY <1>2, <1>3, <1>12, <1>13, <1>14, <1>15, <1>16 DEF Common, Phases
<1> QED BY <1>2, <1>16, <1>17 DEF WInv, InName, NothingPlaced

LEMMA HeaderStep ==
  ASSUME WInv, WriteHeader
  PROVE  WInv'
<1>1. Common /\ pc = "header" /\ pc' = "done" /\ t = Len(file) + 1 /\ placed = {} /\ pairs = <<>>
  BY DEF WInv, WriteHeader
<1>2. /\ UNCHANGED <<file, t, k, pairs, next, cols, cells, keys, cursor, written, placed, images>>
      /\ offsets' = [x \in DOMAIN images |-> SizeUpTo(x - 1) + HeaderLen]
  BY DEF WriteHeader
<1>3. DOMAIN images = 1..Len(images)
  BY <1>1 DEF Common
<1>4. offsets' = [x \in 1..Len(images') |-> SizeUpTo(x - 1)' + HeaderLen']
  BY <1>2, <1>3 DEF SizeUpTo, HeaderLen
<1>5. Common'
  BY <1>1, <1>2 DEF Common, Phases
<1> QED BY <1>1, <1>2, <1>4, <1>5 DEF WInv

LEMMA WriterInit ==
  ASSUME Init
  PROVE  WInv
<1>1. /\ file \in Files /\ t = 1 /\ images = <<>> /\ k = 1 /\ pairs = <<>> /\ next = 1 /\ placed = {}
      /\ pc = (IF file = <<>> THEN "header" ELSE "name")
  BY DEF Init
<1>2. file \in Seq(Table) /\ Len(file) \in Nat
  BY <1>1, WriterAssumption DEF WriterAssumption
<1>3. Chained(pairs, next)
  <2>1. <<>> \in Seq(Entry) /\ Len(<<>>) = 0
    OBVIOUS
  <2> QED BY <1>1, <2>1 DEF Chained
<1>4. file # <<>> => t \in 1..Len(file)
  BY <1>1, <1>2
<1>5. images \in Seq(Range(images)) /\ Len(images) = 0
  BY <1>1
<1>6. Common
  BY <1>1, <1>2, <1>3, <1>4, <1>5 DEF Common, Phases
<1>7. pc = "name" => InName
  BY DEF Init, InName, NothingPlaced
<1>8. pc = "header" => t = Len(file) + 1
  BY <1>1
<1> QED BY <1>1, <1>6, <1>7, <1>8 DEF WInv

LEMMA WriterStays ==
  ASSUME WInv, UNCHANGED wvars
  PROVE  WInv'
<1>1. UNCHANGED <<file, pc, t, k, pairs, next, cols, cells, keys, cursor, written, placed, images, offsets>>
  BY DEF wvars
<1>2. Tab' = Tab /\ CellCount' = CellCount /\ Pairs' = Pairs
  BY <1>1 DEF Tab, CellCount, Pairs
<1>3. Common'
  BY <1>1 DEF WInv, Common, Chained, ImageOK, Range
<1>4. /\ (InName => InName') /\ (InColumns => InColumns') /\ (InRows => InRows') /\ (InKeys => InKeys')
      /\ (InLabels => InLabels') /\ (NothingPlaced => NothingPlaced')
  BY <1>1, <1>2 DEF InName, InColumns, InRows, InKeys, InLabels, NothingPlaced, NameOK, ColsOK,
                    CellsOK, KeysOK, SortedOK
<1>5. [x \in 1..Len(images') |-> SizeUpTo(x - 1)' + HeaderLen'] = [x \in 1..Len(images) |-> SizeUpTo(x - 1) + HeaderLen]
  BY <1>1 DEF SizeUpTo, HeaderLen
<1> QED BY <1>1, <1>3, <1>4, <1>5 DEF WInv

LEMMA WriterAlways == FSpec => []WInv
<1>1. FInit => WInv
  BY WriterInit DEF FInit
<1>2. WInv /\ [FNext]_vars => WInv'
  <2> SUFFICES ASSUME WInv, [FNext]_vars PROVE WInv'
    OBVIOUS
  <2>1. CASE WriterStep
    BY <2>1, NameStep, ColumnStep, RowsStart, CellStep, KeysStart, SortStep, LabelStep, TableStep,
       HeaderStep DEF WriterStep
  <2>2. CASE UNCHANGED wvars
    BY <2>2, WriterStays
  <2>3. UNCHANGED vars => UNCHANGED wvars
    BY DEF vars
  <2> QED BY <2>1, <2>2, <2>3 DEF FNext, Ended
<1> QED BY <1>1, <1>2, PTL DEF FSpec

-----------------------------------------------------------------------------
(* Theorems about what is written. *)

(* In every state of every run, whatever the labels and texts of the       *)
(* tables: what the string table has written is where the columns and      *)
(* cells point to, the names of columns being cut to 16 bits, and no two   *)
(* of its entries share a byte.                                            *)
THEOREM LabelsCorrect == FSpec => []LabelsLand
<1>1. WInv => LabelsLand
  <2> SUFFICES ASSUME WInv PROVE LabelsLand
    OBVIOUS
  <2>1. pc \in Phases /\ Chained(pairs, next)
    BY DEF WInv, Common
  <2>2. Len(pairs) \in Nat /\ pairs \in Seq(Entry)
    BY <2>1 DEF Chained
  <2>3. CASE pc # "labels"
    <3>1. placed = {}
      BY <2>1, <2>3 DEF WInv, Phases, InName, InColumns, InRows, InKeys, NothingPlaced
    <3> QED BY <2>3, <3>1 DEF LabelsLand
  <2>4. CASE pc = "labels"
    <3>1. k \in 1..(Len(pairs) + 1) /\ placed = {pairs[a] : a \in 1..(k - 1)}
      BY <2>4 DEF WInv, InLabels
    <3>2. DOMAIN pairs = 1..Len(pairs)
      BY <2>2
    <3>3. \A p \in placed : \E a \in DOMAIN pairs : pairs[a] = p
      BY <2>2, <3>1, <3>2
    <3>4. ASSUME k > Len(pairs)
          PROVE  /\ \A c \in DOMAIN cols : LeadsTo(cols[c].name, Tab.columns[c].label)
                 /\ \A r \in DOMAIN Tab.rows : \A c \in DOMAIN Tab.columns :
                      Tab.columns[c].type = "text" =>
                        LeadsTo(cells[(r - 1) * Len(Tab.columns) + c].val, TextLabel(Tab.rows[r][c]))
                 /\ \A p, q \in placed :
                      /\ p # q => p.at + SizeOf(p.label) <= q.at \/ q.at + SizeOf(q.label) <= p.at
                      /\ p.at >= 1 /\ p.at + SizeOf(p.label) <= next
      <4>1. k - 1 = Len(pairs)
        BY <2>2, <3>1, <3>4
      <4>2. placed = Pairs
        BY <3>1, <4>1 DEF Pairs
      <4>3. Apart(placed, next)
        BY <2>1, <4>2, ChainedApart
      <4>4. \A ptr, l : Points(placed, ptr, l) => LeadsTo(ptr, l)
        BY DEF Points, LeadsTo
      <4>5. /\ ColsOK(Tab, cols, Columns(Tab), placed) /\ CellsOK(Tab, cells, CellCount, placed)
            /\ CellCount = Columns(Tab) * Rows(Tab)
        BY <2>4, <4>2, CurrentTable DEF WInv, InLabels
      <4>6. /\ file \in Files /\ t \in 1..Len(file) /\ Tab = file[t]
            /\ Columns(Tab) \in Nat /\ Rows(Tab) \in Nat
        BY <2>4, CurrentTable DEF WInv
      <4>7. DOMAIN Tab.rows = 1..Rows(Tab) /\ DOMAIN Tab.columns = 1..Columns(Tab)
        BY <4>6, Tables DEF Rows, Columns
      <4>8. ASSUME NEW c \in DOMAIN cols
            PROVE  LeadsTo(cols[c].name, Tab.columns[c].label)
        <5>1. c \in 1..Columns(Tab)
          BY <4>5 DEF ColsOK
        <5> QED BY <4>4, <4>5, <5>1 DEF ColsOK
      <4>9. ASSUME NEW r \in DOMAIN Tab.rows, NEW c \in DOMAIN Tab.columns,
                   Tab.columns[c].type = "text"
            PROVE  LeadsTo(cells[(r - 1) * Len(Tab.columns) + c].val, TextLabel(Tab.rows[r][c]))
        <5>1. r \in 1..Rows(Tab) /\ c \in 1..Columns(Tab)
          BY <4>7
        <5>2. Place(Columns(Tab), r, c) <= CellCount
          <6>1. PICK w \in Nat : w = Columns(Tab)
            BY <4>6
          <6>2. PICK h \in Nat : h = Rows(Tab)
            BY <4>6
          <6>3. r \in 1..h /\ c \in 1..w /\ CellCount = w * h
            BY <4>5, <5>1, <6>1, <6>2
          <6>4. Place(w, r, c) <= h * w
            <7>1. r \in Nat /\ r >= 1 /\ r <= h
              BY <6>3
            <7> QED BY <6>3, <7>1, Places
          <6>5. h * w = w * h
            OBVIOUS
          <6> QED BY <6>1, <6>3, <6>4, <6>5
        <5>3. CellOK(Tab, cells[Place(Columns(Tab), r, c)], r, c, placed)
          BY <4>5, <5>1, <5>2 DEF CellsOK
        <5>4. Points(placed, cells[Place(Columns(Tab), r, c)].val, TextLabel(Tab.rows[r][c]))
          BY <4>9, <5>3 DEF CellOK
        <5> QED BY <4>4, <5>4 DEF Place, Columns
      <4> QED BY <4>3, <4>8, <4>9 DEF Apart
    <3> QED BY <3>3, <3>4 DEF LabelsLand
  <2> QED BY <2>3, <2>4
<1> QED BY <1>1, WriterAlways, PTL

(* The key table of every table that is written can be searched by         *)
(* halving, and leads each hash to the row that has it.                    *)
THEOREM KeysCorrect == FSpec => []KeyTableSearchable
<1>1. WInv => KeyTableSearchable
  <2> SUFFICES ASSUME WInv, NEW x \in DOMAIN images
               PROVE  LET ks == images[x].keys
                          p == Primary(file[x].columns)
                      IN  /\ \A a, b \in DOMAIN ks : a < b => ks[a][1] < ks[b][1]
                          /\ \A a \in DOMAIN ks : file[x].rows[ks[a][2] + 1][p] = ks[a][1]
                          /\ p # 0 => Len(ks) = Len(file[x].rows)
    BY DEF KeyTableSearchable
  <2>1. x \in 1..(t - 1) /\ ImageOK(images[x], file[x])
    BY DEF WInv, Common
  <2>2. SortedOK(file[x], images[x].keys)
    BY <2>1 DEF ImageOK
  <2>3. DOMAIN images[x].keys = 1..Len(images[x].keys)
    BY <2>2 DEF SortedOK
  <2> QED BY <2>2, <2>3 DEF SortedOK, Key1, Rows
<1> QED BY <1>1, WriterAlways, PTL

(* Where the sections of a table are. *)
LEMMA Sections ==
  ASSUME NEW f \in Files, NEW x \in 1..Len(f), NEW im, ImageOK(im, f[x])
  PROVE  /\ im.colsAt = 48 /\ im.keysAt = 48 + 3 * im.nCols /\ im.rowsAt = im.keysAt + 8 * Len(im.keys)
         /\ im.nCols \in Nat /\ im.nRows \in Nat /\ Len(im.keys) \in Nat
         /\ im.keysAt \in Nat /\ im.rowsAt \in Nat /\ im.stringsAt \in Nat /\ im.stringsLen \in Nat
         /\ im.rowLen * im.nRows = im.nRows * RowWidth(f[x])
         /\ im.stringsAt = im.rowsAt + im.nRows * RowWidth(f[x]) /\ im.nRows * RowWidth(f[x]) \in Nat
         /\ im.size \in Nat /\ im.size % 4 = 0 /\ im.stringsAt + im.stringsLen <= im.size
<1> DEFINE tab == f[x]
<1>1. PICK w \in Nat, h \in Nat : w = Columns(tab) /\ h = Rows(tab)
  BY Tables DEF Columns, Rows
<1>2. PICK v \in Nat : v = RowWidth(tab)
  BY Widths
<1>3. h * v \in Nat
  BY Product
<1>4. Len(im.keys) \in Nat
  BY DEF ImageOK, SortedOK
<1>5. im.nCols = w /\ im.nRows = h /\ im.colsAt = 48 /\ im.keysAt = 48 + 3 * w
  BY <1>1 DEF ImageOK, TableHeaderSize
<1>6. im.rowsAt = im.keysAt + 8 * Len(im.keys) /\ im.stringsAt = im.rowsAt + h * v
      /\ im.stringsLen \in Nat /\ im.size = PaddedLength(im.stringsAt + im.stringsLen)
  BY <1>1, <1>2 DEF ImageOK
<1>7. im.rowLen * im.nRows = h * v
  <2>1. im.rowLen = IF w = 0 \/ h = 0 THEN 0 ELSE v
    BY <1>1, <1>2 DEF ImageOK
  <2>2. w = 0 => v = 0
    BY <1>1, <1>2, Widths DEF Columns
  <2>3. v * h = h * v /\ 0 * h = 0 /\ h * 0 = 0 /\ 0 * v = 0
    OBVIOUS
  <2> QED BY <1>5, <2>1, <2>2, <2>3
<1>8. \A a \in Nat : PaddedLength(a) \in Nat /\ PaddedLength(a) % 4 = 0 /\ a <= PaddedLength(a)
  BY DEF PaddedLength
<1>9. im.keysAt \in Nat /\ im.rowsAt \in Nat /\ im.stringsAt \in Nat /\ im.stringsAt + im.stringsLen \in Nat
  <2>1. PICK a \in Nat, b \in Nat, c \in Nat : a = h * v /\ b = Len(im.keys) /\ c = im.stringsLen
    BY <1>3, <1>4, <1>6
  <2>2. im.keysAt = 48 + 3 * w /\ im.rowsAt = im.keysAt + 8 * b /\ im.stringsAt = im.rowsAt + a
    BY <1>5, <1>6, <2>1
  <2>3. im.keysAt = 48 + 3 * w /\ im.rowsAt = 48 + 3 * w + 8 * b /\ im.stringsAt = 48 + 3 * w + 8 * b + a
    BY <2>2
  <2>4. 48 + 3 * w + 8 * b + a \in Nat /\ 48 + 3 * w + 8 * b \in Nat /\ 48 + 3 * w \in Nat
        /\ 48 + 3 * w + 8 * b + a + c \in Nat
    BY ONLY w \in Nat, a \in Nat, b \in Nat, c \in Nat
  <2> QED BY <2>1, <2>3, <2>4
<1>10. im.size \in Nat /\ im.size % 4 = 0 /\ im.stringsAt + im.stringsLen <= im.size
  BY <1>6, <1>8, <1>9
<1> QED BY <1>1, <1>2, <1>3, <1>4, <1>5, <1>6, <1>7, <1>9, <1>10

LEMMA Sizes ==
  ASSUME Common
  PROVE  /\ Len(images) \in Nat /\ SizeUpTo(0) = 0 /\ HeaderLen \in Nat /\ HeaderLen % 4 = 0
         /\ \A m \in 0..Len(images) : SizeUpTo(m) \in Nat /\ SizeUpTo(m) % 4 = 0
         /\ \A m \in 1..Len(images) : SizeUpTo(m) = SizeUpTo(m - 1) + images[m].size
         /\ \A m \in 0..Len(images) : SizeUpTo(m) <= SizeUpTo(Len(images))
<1> DEFINE h == Len(images)
           d == [m \in 1..h |-> images[m].size]
           up == CHOOSE u : u = [m \in 0..Len(images) |-> IF m = 0 THEN 0 ELSE u[m - 1] + images[m].size]
<1>1. h \in Nat /\ h <= Len(file) /\ \A x \in 1..h : ImageOK(images[x], file[x])
  <2>1. file \in Seq(Table) /\ Len(file) \in Nat
    BY WriterAssumption DEF Common, WriterAssumption
  <2> QED BY <2>1 DEF Common
<1>2. \A m : SizeUpTo(m) = up[m]
  BY DEF SizeUpTo
<1> HIDE DEF h
<1>3. ASSUME NEW m \in 1..h
      PROVE  d[m] = images[m].size /\ d[m] \in Nat /\ d[m] % 4 = 0
  <2>1. file \in Files /\ m \in 1..Len(file)
    <3>1. file \in Seq(Table) /\ Len(file) \in Nat
      BY WriterAssumption DEF Common, WriterAssumption
    <3> QED BY <1>1, <3>1 DEF Common
  <2>2. images[m].size \in Nat /\ images[m].size % 4 = 0
    BY <1>1, <2>1, Sections
  <2> QED BY <2>2
<1> HIDE DEF d
<1>4. ASSUME NEW f
      PROVE  IsRunningSum(f, d, h) <=>
               f = [m \in 0..h |-> IF m = 0 THEN 0 ELSE f[m - 1] + images[m].size]
  <2>1. \A m \in 0..h : m # 0 => m \in 1..h
    BY <1>1
  <2>2. \A m \in 0..h : (IF m = 0 THEN 0 ELSE f[m - 1] + d[m])
                          = IF m = 0 THEN 0 ELSE f[m - 1] + images[m].size
    BY <1>3, <2>1
  <2> QED BY <2>2 DEF IsRunningSum
<1>5. IsRunningSum(up, d, h)
  <2>1. PICK f : IsRunningSum(f, d, h)
    BY <1>1, <1>3, RunningSums
  <2> QED BY <2>1, <1>4, Zenon DEF h
<1> HIDE DEF up
<1>6. up \in [0..h -> Nat] /\ up[0] = 0 /\ \A m \in 1..h : up[m] = up[m - 1] + d[m]
  <2>1. \A f : IsRunningSum(f, d, h) =>
               f \in [0..h -> Nat] /\ f[0] = 0 /\ \A m \in 1..h : f[m] = f[m - 1] + d[m]
    <3>1. h \in Nat /\ \A m \in 1..h : d[m] \in Nat
      BY <1>1, <1>3
    <3> QED BY <3>1, RunningSums, ZenonT(30)
  <2> QED BY <1>5, <2>1
<1>7. \A m \in 0..h : up[m] <= up[h]
  BY <1>1, <1>3, <1>5, RunningSums
<1>8. \A m \in 0..h : up[m] % 4 = 0
  <2> DEFINE T == {m \in 0..h : up[m] % 4 # 0}
  <2> SUFFICES ASSUME T # {} PROVE FALSE
    OBVIOUS
  <2>1. PICK m \in T : \A y \in T : m <= y
    <3>1. T \subseteq Nat
      BY <1>1
    <3> HIDE DEF T
    <3> QED BY <3>1, NatMin
  <2>2. m # 0
    BY <1>6, <2>1
  <2>3. m \in 1..h /\ m - 1 \in 0..h /\ m - 1 \notin T
    BY <1>1, <2>1, <2>2
  <2>4. up[m] = up[m - 1] + d[m] /\ up[m - 1] \in Nat /\ d[m] \in Nat
        /\ up[m - 1] % 4 = 0 /\ d[m] % 4 = 0
    BY <1>3, <1>6, <2>3
  <2> QED BY <2>1, <2>4
<1>9. HeaderLen \in Nat /\ HeaderLen % 4 = 0
  <2>1. HeaderLen = 4 + 4 + 8 + 4 * h
    BY DEF HeaderLen, h
  <2> QED BY <1>1, <2>1
<1> QED BY <1>1, <1>2, <1>3, <1>6, <1>7, <1>8, <1>9 DEF h

(* The table's place in the file: its start, and where the next begins.    *)
LEMMA TablePlaces ==
  ASSUME WInv, pc = "done", NEW x \in 1..Len(images)
  PROVE  /\ offsets[x] = SizeUpTo(x - 1) + HeaderLen /\ SizeUpTo(x - 1) \in Nat /\ HeaderLen \in Nat
         /\ offsets[x] \in Nat /\ offsets[x] % 4 = 0 /\ offsets[x] >= HeaderLen
         /\ images[x].size \in Nat /\ FileLen \in Nat
         /\ offsets[x] + images[x].size = IF x = Len(images) THEN FileLen ELSE offsets[x + 1]
         /\ offsets[x] + images[x].size <= FileLen
         /\ file \in Files /\ x \in 1..Len(file) /\ Len(images) = Len(file) /\ ImageOK(images[x], file[x])
         /\ images[x].stringsAt + images[x].stringsLen <= images[x].size
<1>1. Common /\ t = Len(file) + 1 /\ offsets = [y \in 1..Len(images) |-> SizeUpTo(y - 1) + HeaderLen]
  BY DEF WInv
<1>2. file \in Files /\ Len(images) = Len(file) /\ Len(file) \in Nat /\ ImageOK(images[x], file[x])
  <2>1. file \in Seq(Table)
    BY <1>1, WriterAssumption DEF Common, WriterAssumption
  <2> QED BY <1>1, <2>1 DEF Common
<1> DEFINE h == Len(images)
<1>3. x - 1 \in 0..h /\ x \in 0..h /\ h \in Nat
  BY <1>2
<1>4. /\ SizeUpTo(x - 1) \in Nat /\ SizeUpTo(x - 1) % 4 = 0 /\ HeaderLen \in Nat /\ HeaderLen % 4 = 0
      /\ SizeUpTo(x) = SizeUpTo(x - 1) + images[x].size /\ SizeUpTo(x) \in Nat
      /\ SizeUpTo(x) <= SizeUpTo(h) /\ SizeUpTo(h) \in Nat
  BY <1>1, <1>3, Sizes
<1>5. images[x].size \in Nat /\ images[x].stringsAt + images[x].stringsLen <= images[x].size
  BY <1>2, Sections
<1>6. FileLen = HeaderLen + SizeUpTo(h)
  BY DEF FileLen
<1>7. offsets[x] = SizeUpTo(x - 1) + HeaderLen
  BY <1>1
<1>8. x # h => offsets[x + 1] = SizeUpTo(x) + HeaderLen
  <2> SUFFICES ASSUME x # h PROVE offsets[x + 1] = SizeUpTo(x) + HeaderLen
    OBVIOUS
  <2>1. PICK y \in 1..h : y = x + 1 /\ y - 1 = x
    BY <1>3
  <2> QED BY <1>1, <2>1
<1> HIDE DEF h
<1>11. PICK a \in Nat, b \in Nat, c \in Nat, g \in Nat :
         a = SizeUpTo(x - 1) /\ b = HeaderLen /\ c = images[x].size /\ g = SizeUpTo(h)
  BY <1>4, <1>5
<1>12. /\ offsets[x] = a + b /\ SizeUpTo(x) = a + c /\ a % 4 = 0 /\ b % 4 = 0 /\ a + c <= g
       /\ FileLen = b + g /\ (x # h => offsets[x + 1] = a + c + b) /\ (x = h => a + c = g)
  BY <1>4, <1>6, <1>7, <1>8, <1>11
<1>9. offsets[x] + images[x].size = IF x = h THEN FileLen ELSE offsets[x + 1]
  <2>1. a + b + c = a + c + b /\ (a + c = g => a + b + c = b + g)
    BY <1>11
  <2>2. offsets[x] + images[x].size = a + b + c
    BY <1>11, <1>12
  <2>3. CASE x = h
    <3>1. FileLen = b + g /\ a + c = g
      BY <1>12, <2>3
    <3> QED BY <2>1, <2>2, <2>3, <3>1
  <2>4. CASE x # h
    <3>1. offsets[x + 1] = a + c + b
      BY <1>12, <2>4
    <3> QED BY <2>1, <2>2, <2>4, <3>1
  <2> QED BY <2>3, <2>4
<1>10. offsets[x] \in Nat /\ offsets[x] % 4 = 0 /\ offsets[x] >= HeaderLen /\ FileLen \in Nat
       /\ offsets[x] + images[x].size <= FileLen
  <2>1. a + b \in Nat /\ (a + b) % 4 = 0 /\ a + b >= b /\ b + g \in Nat /\ a + b + c <= b + g
    <3>1. a \in Nat /\ b \in Nat /\ a % 4 = 0 /\ b % 4 = 0 /\ c \in Nat /\ g \in Nat /\ a + c <= g
      BY <1>11, <1>12
    <3> QED BY ONLY <3>1
  <2>2. offsets[x] = a + b /\ FileLen = b + g /\ HeaderLen = b /\ images[x].size = c
    BY <1>11, <1>12
  <2> QED BY <2>1, <2>2
<1> QED BY <1>2, <1>4, <1>5, <1>7, <1>9, <1>10 DEF h

(* Tables of a written file start on multiples of 4, behind the header and *)
(* the table before, and none of their sections reaches into the next.     *)
THEOREM TablesCorrect == FSpec => []TablesApart
<1>1. WInv => TablesApart
  <2> SUFFICES ASSUME WInv, pc = "done", NEW x \in DOMAIN images
               PROVE  LET end == IF x = Len(images) THEN FileLen ELSE offsets[x + 1]
                      IN  /\ offsets[x] % 4 = 0 /\ offsets[x] >= HeaderLen
                          /\ offsets[x] + images[x].stringsAt + images[x].stringsLen <= end
    BY DEF TablesApart
  <2>1. x \in 1..Len(images)
    BY DEF WInv, Common
  <2>2. /\ offsets[x] \in Nat /\ offsets[x] % 4 = 0 /\ offsets[x] >= HeaderLen /\ images[x].size \in Nat
        /\ offsets[x] + images[x].size = IF x = Len(images) THEN FileLen ELSE offsets[x + 1]
        /\ file \in Files /\ x \in 1..Len(file) /\ ImageOK(images[x], file[x])
        /\ images[x].stringsAt + images[x].stringsLen <= images[x].size
    BY <2>1, TablePlaces
  <2>3. images[x].stringsAt \in Nat /\ images[x].stringsLen \in Nat
    BY <2>2, Sections
  <2> QED BY <2>2, <2>3
<1> QED BY <1>1, WriterAlways, PTL

-----------------------------------------------------------------------------
(* The reader finds what it looks for. *)

LEMMA LabelFound ==
  ASSUME Apart(Im.strings, Im.stringsLen), NEW l \in Label, NEW ptr, ~IsEmpty(l),
         [label |-> l, at |-> ptr] \in Im.strings
  PROVE  /\ ptr \in Nat /\ ptr >= 1 /\ ptr + SizeOf(l) <= Im.stringsLen
         /\ l.hashed => LabelAt(ptr) = l
         /\ ~l.hashed => TextAt(ptr) = l.of
<1> DEFINE e == [label |-> l, at |-> ptr]
<1>1. e \in Entry /\ e.label = l /\ e.at = ptr /\ e \in Im.strings
  BY DEF Apart
<1> HIDE DEF e
<1>2. ptr \in Nat /\ ptr >= 1 /\ ptr + SizeOf(l) <= Im.stringsLen
  BY <1>1, Entries DEF Apart
<1>3. ASSUME NEW p \in Im.strings, p.at = ptr PROVE p = e
  <2> SUFFICES ASSUME p # e PROVE FALSE
    OBVIOUS
  <2>1. p.at + SizeOf(p.label) <= e.at \/ e.at + SizeOf(e.label) <= p.at
    BY <1>1 DEF Apart
  <2>2. p \in Entry
    BY DEF Apart
  <2>3. /\ SizeOf(p.label) \in Nat /\ SizeOf(p.label) >= 1
        /\ SizeOf(e.label) \in Nat /\ SizeOf(e.label) >= 1
    BY <1>1, <2>2, Entries, Labels
  <2> QED BY <1>1, <1>2, <1>3, <2>1, <2>3
<1>4. ASSUME l.hashed PROVE LabelAt(ptr) = l
  <2> DEFINE here == {p \in Im.strings : p.at = ptr /\ p.label.hashed}
  <2>1. e \in here
    BY <1>1, <1>4
  <2>2. \A p \in here : p = e
    BY <1>3
  <2>3. LabelAt(ptr) = (CHOOSE p \in here : TRUE).label
    BY <2>1 DEF LabelAt
  <2> HIDE DEF here
  <2>4. (CHOOSE p \in here : TRUE) \in here
    BY <2>1
  <2> QED BY <1>1, <2>2, <2>3, <2>4
<1>5. ASSUME ~l.hashed PROVE TextAt(ptr) = l.of
  <2> DEFINE here == {p \in Im.strings : p.at = ptr /\ ~p.label.hashed}
  <2>1. e \in here
    BY <1>1, <1>5
  <2>2. \A p \in here : p = e
    BY <1>3
  <2>3. TextAt(ptr) = (CHOOSE p \in here : TRUE).label.of
    BY <1>2, <2>1 DEF TextAt
  <2> HIDE DEF here
  <2>4. (CHOOSE p \in here : TRUE) \in here
    BY <2>1
  <2> QED BY <1>1, <2>2, <2>3, <2>4
<1> QED BY <1>2, <1>4, <1>5

(* A pointer to a text, which may be the zero in front. *)
LEMMA TextFound ==
  ASSUME Apart(Im.strings, Im.stringsLen), NEW s \in Texts, NEW ptr,
         Points(Im.strings, ptr, TextLabel(s))
  PROVE  TextAt(ptr) = s
<1>1. TextLabel(s) \in Label /\ ~TextLabel(s).hashed /\ TextLabel(s).of = s
  BY TextLabels
<1>2. CASE IsEmpty(TextLabel(s))
  <2>1. ptr = 0 /\ TextLen[s] = 0
    BY <1>1, <1>2 DEF Points, IsEmpty
  <2>2. \A a \in Texts : TextLen[a] = 0 => a = s
    BY <2>1, WriterAssumption DEF WriterAssumption
  <2>3. TextAt(ptr) = CHOOSE a \in Texts : TextLen[a] = 0
    BY <2>1 DEF TextAt
  <2>4. \E a \in Texts : TextLen[a] = 0
    BY <2>1
  <2>5. (CHOOSE a \in Texts : TextLen[a] = 0) = s
    BY <2>2, <2>4
  <2> QED BY <2>3, <2>5
<1>3. CASE ~IsEmpty(TextLabel(s))
  <2>1. [label |-> TextLabel(s), at |-> ptr] \in Im.strings
    BY <1>3 DEF Points
  <2> QED BY <1>1, <1>3, <2>1, LabelFound
<1> QED BY <1>2, <1>3

(* The label of the table, or of a column, if it is a hash. *)
LEMMA HashFound ==
  ASSUME Apart(Im.strings, Im.stringsLen), NEW l \in Label, l.hashed, NEW ptr,
         Points(Im.strings, ptr, l)
  PROVE  ptr \in Nat /\ ptr >= 1 /\ ptr + 4 <= Im.stringsLen /\ LabelAt(ptr) = l
<1>1. ~IsEmpty(l) /\ SizeOf(l) = 4
  BY DEF IsEmpty, SizeOf
<1>2. [label |-> l, at |-> ptr] \in Im.strings
  BY <1>1 DEF Points
<1> QED BY <1>1, <1>2, LabelFound

(* Cells that come later are further on. *)
LEMMA CellsRise ==
  ASSUME NEW f \in Files, NEW x \in 1..Len(f),
         NEW r \in 1..Rows(f[x]), NEW c \in 1..Columns(f[x]),
         NEW q \in 1..Rows(f[x]), NEW d \in 1..Columns(f[x]),
         (r - 1) * RowWidth(f[x]) + Pre(f[x])[c - 1] = (q - 1) * RowWidth(f[x]) + Pre(f[x])[d - 1]
  PROVE  r = q /\ c = d
<1> DEFINE tab == f[x]
           pre == Pre(tab)
<1>1. PICK w \in Nat, h \in Nat : w = Columns(tab) /\ h = Rows(tab)
  BY Tables DEF Columns, Rows
<1>2. PICK v \in Nat : v = RowWidth(tab)
  BY Widths
<1>3. pre \in [0..w -> Nat] /\ (\A a, b \in 0..w : a <= b => pre[a] <= pre[b]) /\ pre[w] = v
  BY <1>1, <1>2, Widths DEF Columns, RowWidth
<1>4. \A a \in 1..w : pre[a] = pre[a - 1] + Width0(tab, a) /\ Width0(tab, a) \in Nat /\ Width0(tab, a) >= 1
  BY <1>1, Widths, Tables DEF Columns
<1> HIDE DEF pre, tab
<1>5. \A a \in 1..w : a - 1 \in 0..w /\ a \in 0..w
  OBVIOUS
<1>6. ASSUME NEW a \in 1..w
      PROVE  pre[a - 1] \in Nat /\ pre[a] \in Nat /\ pre[a - 1] < pre[a] /\ pre[a] <= v
  <2>1. pre[a - 1] \in Nat /\ pre[a] \in Nat
    BY <1>3, <1>5
  <2>2. pre[a] = pre[a - 1] + Width0(tab, a) /\ Width0(tab, a) \in Nat /\ Width0(tab, a) >= 1
    BY <1>4
  <2>3. pre[a - 1] < pre[a]
    BY <2>1, <2>2, SMTT(30)
  <2>4. a \in 0..w /\ w \in 0..w /\ a <= w
    BY <1>5
  <2>5. pre[a] <= v
    BY <1>3, <2>4
  <2> QED BY <2>1, <2>3, <2>5
<1>7. ASSUME NEW a \in 1..h, NEW b \in 1..h, NEW m \in 1..w, NEW g \in 1..w, a < b
      PROVE  (a - 1) * v + pre[m - 1] < (b - 1) * v + pre[g - 1]
  <2>1. a - 1 \in Nat /\ b - 1 \in Nat /\ a - 1 < b - 1
    BY <1>7
  <2>2. (a - 1) * v \in Nat /\ (b - 1) * v \in Nat /\ (a - 1) * v + v <= (b - 1) * v
    BY <2>1, Product
  <2>3. pre[m - 1] \in Nat /\ pre[m] \in Nat /\ pre[m - 1] < pre[m] /\ pre[m] <= v /\ pre[g - 1] \in Nat
    BY <1>6
  <2>4. pre[m - 1] < v
    BY <2>3, SMTT(30)
  <2>5. PICK y \in Nat, z \in Nat : y = (a - 1) * v /\ z = (b - 1) * v
    BY <2>2
  <2>6. y + v <= z
    BY <2>2, <2>5
  <2>8. PICK m1 \in Nat, g1 \in Nat : m1 = pre[m - 1] /\ g1 = pre[g - 1]
    BY <2>3
  <2>7. y + m1 < z + g1
    <3>1. m1 < v
      BY <2>4, <2>8
    <3> QED BY <2>6, <3>1
  <2> QED BY <2>5, <2>7, <2>8
<1>8. ASSUME NEW m \in 1..w, NEW g \in 1..w, m < g
      PROVE  pre[m - 1] < pre[g - 1]
  <2>1. m \in 0..w /\ g - 1 \in 0..w /\ m <= g - 1
    BY <1>8
  <2>2. pre[m] <= pre[g - 1]
    BY <1>3, <2>1
  <2>3. pre[m - 1] \in Nat /\ pre[m] \in Nat /\ pre[m - 1] < pre[m] /\ pre[g - 1] \in Nat
    BY <1>6
  <2>4. PICK m1 \in Nat, m2 \in Nat, g1 \in Nat : m1 = pre[m - 1] /\ m2 = pre[m] /\ g1 = pre[g - 1]
    BY <2>3
  <2>5. m1 < m2 /\ m2 <= g1
    BY <2>2, <2>3, <2>4
  <2>6. m1 < g1
    BY <2>5
  <2> QED BY <2>4, <2>6
<1>9. r \in 1..h /\ q \in 1..h /\ c \in 1..w /\ d \in 1..w
      /\ (r - 1) * v + pre[c - 1] = (q - 1) * v + pre[d - 1]
  BY <1>1, <1>2 DEF tab, pre
<1>10. (r - 1) * v \in Nat /\ (q - 1) * v \in Nat /\ pre[c - 1] \in Nat /\ pre[d - 1] \in Nat
  <2>1. r - 1 \in Nat /\ q - 1 \in Nat
    BY <1>9
  <2> QED BY <1>6, <1>9, <2>1, Product, SMTT(30)
<1>14. PICK y \in Nat, z \in Nat, c1 \in Nat, d1 \in Nat :
         y = (r - 1) * v /\ z = (q - 1) * v /\ c1 = pre[c - 1] /\ d1 = pre[d - 1]
  BY <1>10
<1>15. y + c1 = z + d1
  BY <1>9, <1>14
<1>11. r = q
  <2>1. r < q => y + c1 < z + d1
    BY <1>7, <1>9, <1>14
  <2>2. q < r => z + d1 < y + c1
    BY <1>7, <1>9, <1>14
  <2>3. ~(r < q) /\ ~(q < r)
    BY <1>15, <2>1, <2>2
  <2> QED BY <1>9, <2>3
<1>12. c1 = d1
  <2>1. y = z
    BY <1>11, <1>14
  <2> QED BY <1>15, <2>1
<1>13. ~(c < d) /\ ~(d < c)
  <2>1. c < d => c1 < d1
    BY <1>8, <1>9, <1>14
  <2>2. d < c => d1 < c1
    BY <1>8, <1>9, <1>14
  <2> QED BY <1>12, <2>1, <2>2
<1> QED BY <1>9, <1>11, <1>13

-----------------------------------------------------------------------------
(* The reader: what it has of the current table.  The types of columns and *)
(* the cells are always right, labels are if they are hashes.              *)

NameIn(tab) == HashedLabels(tab) => name = tab.name
ColsIn(tab, m) ==
  /\ outCols \in Seq(Range(outCols)) /\ Len(outCols) = m
  /\ \A c \in 1..m : outCols[c].type = tab.columns[c].type
                     /\ (HashedLabels(tab) => outCols[c] = tab.columns[c])
RowsIn(tab, m) ==
  /\ outRows \in Seq(Range(outRows)) /\ Len(outRows) = m
  /\ \A r \in 1..m : outRows[r] = tab.rows[r]
PastEnd ==
  \/ ~HashedLabels(file[n])
  \/ /\ Primary(file[n].columns) = 0
     /\ offsets[n] + Im.keysAt + 8 * Len(file[n].rows) > FileLen

RInv ==
  /\ rpc \in {"header", "table", "columns", "rows", "done", "failed"}
  /\ n \in Nat /\ n >= 1 /\ tables \in Seq(Range(tables)) /\ Len(tables) = n - 1
  /\ n - 1 <= Len(images)
  /\ \A x \in 1..(n - 1) : HashedLabels(file[x]) => tables[x] = file[x]
  /\ rpc = "header" => n = 1
  /\ rpc # "header" => pc = "done"
  /\ rpc \in {"table", "columns", "rows", "failed"} => n \in 1..Len(images)
  /\ rpc \in {"header", "table"} => outCols = <<>> /\ outRows = <<>>
  /\ rpc = "columns" =>
       /\ i \in 1..(Columns(file[n]) + 1)
       /\ NameIn(file[n]) /\ ColsIn(file[n], i - 1) /\ outRows = <<>> /\ InData(1)
  /\ rpc = "rows" =>
       /\ i \in 1..(Rows(file[n]) + 1)
       /\ NameIn(file[n]) /\ ColsIn(file[n], Columns(file[n])) /\ RowsIn(file[n], i - 1)
  /\ rpc = "failed" => PastEnd

(* The table that is being read. *)
LEMMA BeingRead ==
  ASSUME WInv, RInv, rpc \in {"table", "columns", "rows"}
  PROVE  /\ pc = "done" /\ n \in 1..Len(images) /\ file \in Files /\ n \in 1..Len(file) /\ n \in Nat
         /\ ImageOK(Im, file[n]) /\ Len(images) \in Nat
         /\ Columns(file[n]) \in Nat /\ Rows(file[n]) \in Nat
         /\ Im.nCols = Columns(file[n]) /\ Im.nRows = Rows(file[n]) /\ Im.base = file[n].base
         /\ Apart(Im.strings, Im.stringsLen)
<1>1. pc = "done" /\ n \in 1..Len(images) /\ n \in Nat
  BY DEF RInv
<1>2. file \in Files /\ n \in 1..Len(file) /\ ImageOK(images[n], file[n])
  BY <1>1, TablePlaces
<1>3. Columns(file[n]) \in Nat /\ Rows(file[n]) \in Nat
  BY <1>2, Tables DEF Columns, Rows
<1>4. Len(images) \in Nat
  BY DEF WInv, Common
<1> QED BY <1>1, <1>2, <1>3, <1>4 DEF ImageOK, Im

(* The labels of columns of hashed labels. *)
LEMMA HashedOnes ==
  ASSUME NEW f \in Files, NEW x \in 1..Len(f), HashedLabels(f[x])
  PROVE  /\ f[x].name \in Label /\ f[x].name.hashed
         /\ \A c \in 1..Columns(f[x]) : f[x].columns[c].label \in Label /\ f[x].columns[c].label.hashed
<1>1. f[x].name \in Label /\ f[x].columns \in Seq(Column)
      /\ \A c \in 1..Len(f[x].columns) : f[x].columns[c].label \in Label
  BY Tables
<1>2. DOMAIN f[x].columns = 1..Len(f[x].columns)
  BY <1>1
<1> QED BY <1>1, <1>2 DEF HashedLabels, Columns

LEMMA NameFound ==
  ASSUME WInv, RInv, rpc = "table", HashedLabels(file[n])
  PROVE  LabelAt(1) = file[n].name /\ 1 + 4 <= Im.stringsLen
<1>1. /\ file \in Files /\ n \in 1..Len(file) /\ ImageOK(Im, file[n])
      /\ Apart(Im.strings, Im.stringsLen)
  BY BeingRead
<1>2. file[n].name \in Label /\ file[n].name.hashed
  BY <1>1, HashedOnes
<1>3. Points(Im.strings, 1, file[n].name)
  <2>1. ~IsEmpty(file[n].name)
    BY <1>2 DEF IsEmpty
  <2> QED BY <1>1, <2>1 DEF ImageOK, NameOK, Points
<1> QED BY <1>1, <1>2, <1>3, HashFound

(* How far the reader reaches, and that it fails only for the keys. *)
LEMMA Reach ==
  ASSUME WInv, RInv, rpc \in {"table", "columns", "rows"}
  PROVE  /\ Im.stringsAt + Im.stringsLen <= TableLen /\ TableLen \in Nat /\ Im.stringsAt \in Nat
         /\ Im.stringsLen \in Nat
         /\ offsets[n] + TableLen > FileLen =>
              /\ Primary(file[n].columns) = 0
              /\ offsets[n] + Im.keysAt + 8 * Len(file[n].rows) > FileLen
<1>1. /\ pc = "done" /\ n \in 1..Len(images) /\ file \in Files /\ n \in 1..Len(file)
      /\ ImageOK(Im, file[n]) /\ Im.nRows = Rows(file[n])
  BY BeingRead
<1>2. /\ Im.colsAt = 48 /\ Im.keysAt = 48 + 3 * Im.nCols /\ Im.rowsAt = Im.keysAt + 8 * Len(Im.keys)
      /\ Im.nCols \in Nat /\ Im.nRows \in Nat /\ Len(Im.keys) \in Nat
      /\ Im.keysAt \in Nat /\ Im.rowsAt \in Nat /\ Im.stringsAt \in Nat /\ Im.stringsLen \in Nat
      /\ Im.rowLen * Im.nRows = Im.nRows * RowWidth(file[n])
      /\ Im.stringsAt = Im.rowsAt + Im.nRows * RowWidth(file[n]) /\ Im.nRows * RowWidth(file[n]) \in Nat
  BY <1>1, Sections
<1>3. /\ offsets[n] \in Nat /\ FileLen \in Nat /\ Im.size \in Nat
      /\ offsets[n] + Im.size <= FileLen /\ Im.stringsAt + Im.stringsLen <= Im.size
  BY <1>1, TablePlaces DEF Im
<1>4. Len(Im.keys) = IF Primary(file[n].columns) = 0 THEN 0 ELSE Im.nRows
  BY <1>1 DEF ImageOK, SortedOK, Key1
<1>5. PICK ka \in Nat, nk \in Nat, nr \in Nat, bytes \in Nat, len \in Nat, at \in Nat, all \in Nat :
        /\ ka = Im.keysAt /\ nk = Len(Im.keys) /\ nr = Im.nRows /\ bytes = Im.nRows * RowWidth(file[n])
        /\ len = Im.stringsLen /\ at = offsets[n] /\ all = FileLen
  BY <1>2, <1>3
<1>6. TableLen = Furthest(Furthest(ka, ka + 8 * nr),
                          Furthest(ka + 8 * nk + bytes, ka + 8 * nk + bytes + len))
  BY <1>2, <1>5 DEF TableLen
<1>7. ka + 8 * nk + bytes + len = Im.stringsAt + Im.stringsLen /\ at + (ka + 8 * nk + bytes + len) <= all
  <2>1. Im.stringsAt + Im.stringsLen = ka + 8 * nk + bytes + len
    BY <1>2, <1>5
  <2>2. PICK size \in Nat : size = Im.size
    BY <1>3
  <2>3. at + size <= all /\ ka + 8 * nk + bytes + len <= size
    BY <1>3, <1>5, <2>1, <2>2
  <2>4. at + (ka + 8 * nk + bytes + len) <= all
    <3>1. at \in Nat /\ ka \in Nat /\ nk \in Nat /\ bytes \in Nat /\ len \in Nat /\ size \in Nat /\ all \in Nat
      BY <1>5, <2>2
    <3> QED BY ONLY <2>3, <3>1
  <2> QED BY <2>1, <2>4
<1>8. nk = 0 \/ nk = nr
  BY <1>4, <1>5
<1>9. TableLen \in Nat /\ ka + 8 * nk + bytes + len <= TableLen
      /\ (at + TableLen > all => TableLen = ka + 8 * nr /\ nk # nr)
  BY <1>6, <1>7, <1>8 DEF Furthest
<1>10. at + TableLen > all => Primary(file[n].columns) = 0 /\ at + ka + 8 * nr > all
  BY <1>4, <1>5, <1>9
<1> QED BY <1>1, <1>2, <1>5, <1>7, <1>9, <1>10 DEF Rows

LEMMA OpenStep ==
  ASSUME WInv, RInv, OpenTable, UNCHANGED wvars
  PROVE  RInv'
<1>1. rpc = "table" /\ UNCHANGED <<n, outCols, outRows, tables>>
      /\ UNCHANGED <<file, pc, images, offsets>>
  BY DEF OpenTable, wvars
<1>2. pc = "done" /\ n \in 1..Len(images) /\ outCols = <<>> /\ outRows = <<>> /\ Columns(file[n]) \in Nat
  BY <1>1, BeingRead DEF RInv
<1>3. TableLen \in Nat /\ Im.stringsAt \in Nat /\ Im.stringsLen \in Nat /\ Im.stringsAt + Im.stringsLen <= TableLen
  BY <1>1, Reach
<1>4. Im' = Im /\ FileLen' = FileLen /\ TableLen' = TableLen /\ (InData(1) <=> InData(1)')
  BY <1>1 DEF Im, FileLen, HeaderLen, SizeUpTo, TableLen, InData
<1>5. CASE rpc' = "failed" /\ (offsets[n] + TableLen > FileLen \/ ~InData(1))
  <2>1. PastEnd
    <3> SUFFICES ASSUME HashedLabels(file[n])
                 PROVE  /\ Primary(file[n].columns) = 0
                        /\ offsets[n] + Im.keysAt + 8 * Len(file[n].rows) > FileLen
      BY DEF PastEnd
    <3>1. 1 + 4 <= Im.stringsLen
      BY <1>1, NameFound
    <3>2. InData(1)
      BY <1>3, <3>1 DEF InData
    <3>3. offsets[n] + TableLen > FileLen
      BY <1>5, <3>2
    <3> QED BY <1>1, <3>3, Reach
  <2>2. PastEnd'
    BY <1>1, <1>4, <2>1 DEF PastEnd
  <2> QED BY <1>1, <1>2, <1>5, <2>2 DEF RInv
<1>6. CASE rpc' = "columns" /\ i' = 1 /\ name' = LabelAt(1) /\ InData(1)
  <2>1. NameIn(file[n])'
    BY <1>1, <1>6, NameFound DEF NameIn
  <2>2. ColsIn(file[n], 0)'
    BY <1>1, <1>2 DEF ColsIn
  <2>3. i' - 1 = 0 /\ i' \in 1..(Columns(file[n])' + 1)
    BY <1>1, <1>2, <1>6
  <2>4. ColsIn(file[n], i - 1)'
    BY <2>2, <2>3
  <2> QED BY <1>1, <1>2, <1>4, <1>6, <2>1, <2>3, <2>4 DEF RInv
<1> QED BY <1>5, <1>6 DEF OpenTable

LEMMA ColumnRead ==
  ASSUME WInv, RInv, ReadColumn, UNCHANGED wvars
  PROVE  RInv'
<1>1. rpc = "columns" /\ UNCHANGED <<n, name, outRows, tables>> /\ i <= Im.nCols
      /\ UNCHANGED <<file, pc, images, offsets>>
  BY DEF ReadColumn, wvars
<1>2. /\ pc = "done" /\ n \in 1..Len(images) /\ file \in Files /\ n \in 1..Len(file)
      /\ ImageOK(Im, file[n]) /\ Apart(Im.strings, Im.stringsLen)
      /\ Columns(file[n]) \in Nat /\ Im.nCols = Columns(file[n])
  BY <1>1, BeingRead
<1>3. /\ i \in 1..(Columns(file[n]) + 1) /\ NameIn(file[n]) /\ ColsIn(file[n], i - 1)
      /\ outRows = <<>> /\ InData(1)
  BY <1>1 DEF RInv
<1>4. i \in 1..Columns(file[n])
  BY <1>1, <1>2, <1>3
<1> DEFINE col == file[n].columns[i]
<1>5. Im.cols[i].type = col.type /\ Points(Im.strings, Im.cols[i].name, col.label)
  BY <1>2, <1>4 DEF ImageOK, ColsOK
<1>6. Im' = Im /\ FileLen' = FileLen /\ (InData(1) <=> InData(1)')
  BY <1>1 DEF Im, FileLen, HeaderLen, SizeUpTo, TableLen, InData
<1>7. ASSUME HashedLabels(file[n])
      PROVE  InData(Im.cols[i].name) /\ LabelAt(Im.cols[i].name) = col.label
  <2>1. col.label \in Label /\ col.label.hashed
    BY <1>2, <1>4, <1>7, HashedOnes
  <2>2. PICK ptr \in Nat : ptr = Im.cols[i].name /\ ptr + 4 <= Im.stringsLen /\ LabelAt(ptr) = col.label
    BY <1>2, <1>5, <2>1, HashFound
  <2>3. Im.stringsAt \in Nat /\ Im.stringsLen \in Nat /\ TableLen \in Nat /\ Im.stringsAt + Im.stringsLen <= TableLen
    BY <1>1, Reach
  <2>4. InData(ptr)
    BY <2>2, <2>3 DEF InData
  <2> QED BY <2>2, <2>4
<1>8. CASE ~InData(Im.cols[i].name) /\ rpc' = "failed"
  <2>1. PastEnd
    BY <1>7, <1>8 DEF PastEnd
  <2>2. PastEnd'
    BY <1>1, <1>6, <2>1 DEF PastEnd
  <2> QED BY <1>1, <1>2, <1>8, <2>2 DEF RInv
<1>9. CASE /\ outCols' = Append(outCols, [type |-> Im.cols[i].type, label |-> LabelAt(Im.cols[i].name)])
           /\ i' = i + 1 /\ UNCHANGED rpc
  <2> DEFINE e == [type |-> Im.cols[i].type, label |-> LabelAt(Im.cols[i].name)]
  <2>1. e.type = col.type /\ (HashedLabels(file[n]) => e = col)
    <3>1. col = [type |-> col.type, label |-> col.label]
      BY <1>2, <1>4, Tables DEF Columns
    <3> QED BY <1>5, <1>7, <3>1
  <2>2. outCols' = Append(outCols, e)
    BY <1>9
  <2> HIDE DEF e
  <2>3. outCols \in Seq(Range(outCols)) /\ Len(outCols) = i - 1 /\ i - 1 + 1 = i
    BY <1>3, <1>4 DEF ColsIn
  <2>4. /\ outCols' \in Seq(Range(outCols')) /\ Len(outCols') = i /\ outCols'[i] = e
        /\ \A x \in 1..(i - 1) : outCols'[x] = outCols[x]
    BY <2>2, <2>3, Appended
  <2>5. ASSUME NEW c \in 1..i
        PROVE  outCols'[c].type = file[n].columns[c].type
               /\ (HashedLabels(file[n]) => outCols'[c] = file[n].columns[c])
    <3>1. CASE c = i
      BY <2>1, <2>4, <3>1
    <3>2. CASE c # i
      <4>1. c \in 1..(i - 1)
        BY <1>4, <3>2
      <4> QED BY <1>3, <2>4, <4>1 DEF ColsIn
    <3> QED BY <3>1, <3>2
  <2>6. i' - 1 = i /\ i' \in 1..(Columns(file[n]) + 1)
    BY <1>2, <1>4, <1>9
  <2>7. ColsIn(file[n], i - 1)'
    BY <1>1, <2>4, <2>5, <2>6 DEF ColsIn
  <2>8. NameIn(file[n])'
    BY <1>1, <1>3 DEF NameIn
  <2> QED BY <1>1, <1>2, <1>3, <1>6, <1>9, <2>6, <2>7, <2>8 DEF RInv
<1> QED BY <1>8, <1>9 DEF ReadColumn

LEMMA RowsBegin ==
  ASSUME WInv, RInv, ColumnsRead, UNCHANGED wvars
  PROVE  RInv'
<1>1. rpc = "columns" /\ rpc' = "rows" /\ UNCHANGED <<n, name, outCols, outRows, tables>> /\ i > Im.nCols
      /\ i' = 1 /\ UNCHANGED <<file, pc, images, offsets>>
  BY DEF ColumnsRead, wvars
<1>2. /\ pc = "done" /\ n \in 1..Len(images)
      /\ Columns(file[n]) \in Nat /\ Im.nCols = Columns(file[n]) /\ Rows(file[n]) \in Nat
  BY <1>1, BeingRead
<1>3. /\ i \in 1..(Columns(file[n]) + 1) /\ NameIn(file[n]) /\ ColsIn(file[n], i - 1)
      /\ outRows = <<>>
  BY <1>1 DEF RInv
<1>4. i - 1 = Columns(file[n])
  BY <1>1, <1>2, <1>3
<1>5. NameIn(file[n])' /\ ColsIn(file[n], Columns(file[n]))'
  BY <1>1, <1>3, <1>4 DEF NameIn, ColsIn
<1>6. i' - 1 = 0 /\ i' \in 1..(Rows(file[n])' + 1)
  BY <1>1, <1>2
<1>7. RowsIn(file[n], 0)'
  BY <1>1, <1>3 DEF RowsIn
<1>8. RowsIn(file[n], i - 1)'
  BY <1>6, <1>7
<1> QED BY <1>1, <1>2, <1>5, <1>6, <1>8 DEF RInv

(* The cell of a row and column is found, and has its value.               *)
LEMMA OffsetFound ==
  ASSUME NEW f \in Files, NEW x \in 1..Len(f), ColsIn(f[x], Columns(f[x])),
         NEW c \in 1..Columns(f[x])
  PROVE  CellOffset(c) = Pre(f[x])[c - 1]
<1> DEFINE tab == f[x]
           up == CHOOSE u : u = [m \in 0..Len(outCols) |-> IF m = 0 THEN 0
                                                           ELSE u[m - 1] + Width(outCols[m].type)]
           h == Len(tab.columns)
           d == [m \in 1..h |-> Width0(tab, m)]
<1>1. h \in Nat /\ (\A m \in 1..h : Width0(tab, m) \in Nat) /\ Len(outCols) = h /\ Columns(tab) = h
  BY Tables DEF ColsIn, Columns
<1>2. \A m \in 1..h : Width(outCols[m].type) = Width0(tab, m)
  BY DEF ColsIn, Columns, Width0
<1>3. CellOffset(c) = up[c - 1]
  BY DEF CellOffset
<1> HIDE DEF h, tab
<1>4. \A m \in 1..h : d[m] \in Nat /\ d[m] = Width0(tab, m)
  BY <1>1
<1> HIDE DEF d
<1>5. ASSUME NEW g
      PROVE  IsRunningSum(g, d, h) <=>
               g = [m \in 0..h |-> IF m = 0 THEN 0 ELSE g[m - 1] + Width(outCols[m].type)]
  <2>1. \A m \in 0..h : m # 0 => m \in 1..h
    BY <1>1
  <2>2. \A m \in 0..h : (IF m = 0 THEN 0 ELSE g[m - 1] + d[m])
                          = IF m = 0 THEN 0 ELSE g[m - 1] + Width(outCols[m].type)
    BY <1>2, <1>4, <2>1
  <2> QED BY <2>2 DEF IsRunningSum
<1>6. PICK g : IsRunningSum(g, d, h)
  BY <1>1, <1>4, RunningSums
<1>7. IsRunningSum(up, d, h)
  <2>1. g = [m \in 0..Len(outCols) |-> IF m = 0 THEN 0 ELSE g[m - 1] + Width(outCols[m].type)]
    BY <1>1, <1>5, <1>6
  <2>2. up = [m \in 0..Len(outCols) |-> IF m = 0 THEN 0 ELSE up[m - 1] + Width(outCols[m].type)]
    BY <2>1, Zenon
  <2> HIDE DEF up
  <2> QED BY <1>1, <1>5, <2>2
<1>8. IsRunningSum(Pre(tab), d, h)
  <2>1. \E u : IsRunningSum(u, d, h)
    BY <1>6
  <2> QED BY <2>1 DEF Pre, d, h
<1> HIDE DEF up
<1>9. \A m \in 0..h : up[m] = Pre(tab)[m]
  <2>1. PICK a, b : a = up /\ b = Pre(tab)
    OBVIOUS
  <2>2. IsRunningSum(a, d, h) /\ IsRunningSum(b, d, h)
    BY <1>7, <1>8, <2>1
  <2>3. \A m \in 0..h : a[m] = b[m]
    <3>1. h \in Nat /\ \A m \in 1..h : d[m] \in Nat
      BY <1>1, <1>4
    <3>2. \A u, v : IsRunningSum(u, d, h) /\ IsRunningSum(v, d, h) => \A m \in 0..h : u[m] = v[m]
      BY <3>1, RunningSumsSame
    <3> QED BY <2>2, <3>2
  <2> QED BY <2>1, <2>3
<1>10. c - 1 \in 0..h
  BY <1>1 DEF tab
<1> QED BY <1>3, <1>9, <1>10 DEF tab

LEMMA CellFound ==
  ASSUME WInv, RInv, rpc = "rows", NEW r \in 1..Rows(file[n]), NEW c \in 1..Columns(file[n])
  PROVE  ReadValue(r, c) = file[n].rows[r][c]
<1> DEFINE tab == file[n]
           at == (r - 1) * RowWidth(tab) + Pre(tab)[c - 1]
           width == Width0(tab, c)
           here == {y \in DOMAIN Im.cells : Im.cells[y].at = at /\ Im.cells[y].width = width}
           m == Place(Columns(tab), r, c)
<1>1. /\ file \in Files /\ n \in 1..Len(file) /\ ImageOK(Im, tab) /\ Apart(Im.strings, Im.stringsLen)
      /\ ColsIn(tab, Columns(tab))
  BY BeingRead DEF RInv
<1>2. PICK w \in Nat, h \in Nat : w = Columns(tab) /\ h = Rows(tab)
  BY BeingRead
<1>3. r \in 1..h /\ c \in 1..w /\ r \in Nat /\ r >= 1 /\ w >= 1 /\ m = Place(w, r, c)
  BY <1>2
<1>4. CellsOK(tab, Im.cells, w * h, Im.strings)
  BY <1>1, <1>2 DEF ImageOK
<1>5. w * h = h * w /\ w * h \in Nat /\ DOMAIN Im.cells = 1..(w * h)
  <2>1. w * h = h * w
    OBVIOUS
  <2>2. w * h \in Nat
    BY Product
  <2>3. Im.cells \in Seq(Cell) /\ Len(Im.cells) = w * h
    BY <1>4 DEF CellsOK
  <2> QED BY <2>1, <2>2, <2>3
<1> HIDE DEF m
<1>6. m \in 1..(w * h)
  <2>1. m \in 1..(h * w)
    BY <1>3, AllPlaces
  <2> QED BY <1>5, <2>1
<1>7. CellOK(tab, Im.cells[m], r, c, Im.strings)
  BY <1>2, <1>3, <1>4, <1>6 DEF CellsOK
<1>8. m \in here
  BY <1>5, <1>6, <1>7 DEF CellOK
<1>9. \A y \in here : y = m
  <2> SUFFICES ASSUME NEW y \in here PROVE y = m
    OBVIOUS
  <2>1. y \in 1..(w * h) /\ y \in 1..(h * w) /\ Im.cells[y].at = at
    BY <1>5
  <2>2. PICK q \in 1..h, d \in 1..w : y = Place(w, q, d)
    BY <2>1, AllPlaces
  <2>4. q \in 1..Rows(tab) /\ d \in 1..Columns(tab)
    BY <1>2, <2>2
  <2>5. CellOK(tab, Im.cells[y], q, d, Im.strings)
    BY <1>2, <1>4, <2>1, <2>2, <2>4 DEF CellsOK
  <2>6. (r - 1) * RowWidth(tab) + Pre(tab)[c - 1] = (q - 1) * RowWidth(tab) + Pre(tab)[d - 1]
    BY <2>1, <2>5 DEF CellOK
  <2>7. r = q /\ c = d
    BY <1>1, <2>4, <2>6, CellsRise
  <2> QED BY <1>3, <2>2, <2>7
<1>10. CellAt(at, width) = Im.cells[m].val
  <2>1. CellAt(at, width) = Im.cells[CHOOSE y \in here : TRUE].val
    BY <1>8 DEF CellAt
  <2> HIDE DEF here
  <2>2. (CHOOSE y \in here : TRUE) \in here
    BY <1>8
  <2>3. (CHOOSE y \in here : TRUE) = m
    BY <1>9, <2>2
  <2> QED BY <2>1, <2>3
<1> HIDE DEF here
<1>11. RowStart(r) = (r - 1) * RowWidth(tab)
  <2>1. w # 0 /\ h # 0
    BY <1>3
  <2>2. Im.rowLen = RowWidth(tab)
    BY <1>1, <1>2, <2>1 DEF ImageOK
  <2> QED BY <2>2 DEF RowStart
<1>12. CellOffset(c) = Pre(tab)[c - 1]
  BY <1>1, OffsetFound
<1>13. outCols[c].type = tab.columns[c].type
  BY <1>1 DEF ColsIn
<1>14. RowStart(r) + CellOffset(c) = at /\ Width(outCols[c].type) = width
  BY <1>11, <1>12, <1>13 DEF Width0
<1> HIDE DEF at, width
<1>15. ReadValue(r, c) = IF tab.columns[c].type = "text" THEN TextAt(Im.cells[m].val) ELSE Im.cells[m].val
  BY <1>10, <1>13, <1>14 DEF ReadValue
<1>16. CASE tab.columns[c].type = "text"
  <2>1. Fits(tab, c, tab.rows[r][c])
    BY <1>1, Tables DEF Columns, Rows
  <2>2. tab.rows[r][c] \in Texts
    BY <1>16, <2>1 DEF Fits
  <2>3. Points(Im.strings, Im.cells[m].val, TextLabel(tab.rows[r][c]))
    BY <1>7, <1>16 DEF CellOK
  <2>4. TextAt(Im.cells[m].val) = tab.rows[r][c]
    BY <1>1, <2>2, <2>3, TextFound
  <2> QED BY <1>15, <1>16, <2>4
<1>17. CASE tab.columns[c].type # "text"
  BY <1>7, <1>15, <1>17 DEF CellOK
<1> QED BY <1>16, <1>17

LEMMA RowRead ==
  ASSUME WInv, RInv, ReadRow, UNCHANGED wvars
  PROVE  RInv'
<1> DEFINE e == [c \in DOMAIN outCols |-> ReadValue(i, c)]
<1>1. rpc = "rows" /\ UNCHANGED <<rpc, n, name, outCols, tables>> /\ i <= Im.nRows
      /\ i' = i + 1 /\ outRows' = Append(outRows, e) /\ UNCHANGED <<file, pc, images, offsets>>
  BY DEF ReadRow, wvars
<1>2. /\ pc = "done" /\ n \in 1..Len(images) /\ file \in Files /\ n \in 1..Len(file)
      /\ Rows(file[n]) \in Nat /\ Im.nRows = Rows(file[n]) /\ Columns(file[n]) \in Nat
  BY <1>1, BeingRead
<1>3. /\ i \in 1..(Rows(file[n]) + 1) /\ NameIn(file[n]) /\ ColsIn(file[n], Columns(file[n]))
      /\ RowsIn(file[n], i - 1)
  BY <1>1 DEF RInv
<1>4. i \in 1..Rows(file[n])
  BY <1>1, <1>2, <1>3
<1>5. e = file[n].rows[i]
  <2> DEFINE w == Columns(file[n])
  <2>1. DOMAIN outCols = 1..w
    BY <1>3 DEF ColsIn
  <2>2. file[n].rows[i] \in Seq(Nat \cup Texts) /\ Len(file[n].rows[i]) = w
    BY <1>2, <1>4, Tables DEF Rows, Columns
  <2>3. file[n].rows[i] = [c \in 1..w |-> file[n].rows[i][c]]
    BY <2>2
  <2>4. \A c \in 1..w : ReadValue(i, c) = file[n].rows[i][c]
    BY <1>1, <1>4, CellFound
  <2> QED BY <2>1, <2>3, <2>4
<1> HIDE DEF e
<1>6. outRows \in Seq(Range(outRows)) /\ Len(outRows) = i - 1 /\ i - 1 + 1 = i
  BY <1>3, <1>4 DEF RowsIn
<1>7. /\ outRows' \in Seq(Range(outRows')) /\ Len(outRows') = i /\ outRows'[i] = e
      /\ \A x \in 1..(i - 1) : outRows'[x] = outRows[x]
  BY <1>1, <1>6, Appended
<1>8. ASSUME NEW x \in 1..i PROVE outRows'[x] = file[n].rows[x]
  <2>1. CASE x = i
    BY <1>5, <1>7, <2>1
  <2>2. CASE x # i
    <3>1. x \in 1..(i - 1)
      BY <1>4, <2>2
    <3> QED BY <1>3, <1>7, <3>1 DEF RowsIn
  <2> QED BY <2>1, <2>2
<1>9. i' - 1 = i /\ i' \in 1..(Rows(file[n])' + 1)
  BY <1>1, <1>2, <1>4
<1>10. RowsIn(file[n], i - 1)'
  BY <1>1, <1>7, <1>8, <1>9 DEF RowsIn
<1>11. NameIn(file[n])' /\ ColsIn(file[n], Columns(file[n]))'
  BY <1>1, <1>3 DEF NameIn, ColsIn
<1> QED BY <1>1, <1>2, <1>9, <1>10, <1>11 DEF RInv

(* The writer lets no key through twice: there are as many keys in the key *)
(* table as rows, no two the same, so that each row has one of its own.    *)
LEMMA KeysDiffer ==
  ASSUME NEW f \in Files, NEW x \in 1..Len(f), NEW ks, SortedOK(f[x], ks), Key1(f[x]) # 0,
         NEW r \in 1..Rows(f[x]), NEW q \in 1..Rows(f[x]),
         f[x].rows[r][Key1(f[x])] = f[x].rows[q][Key1(f[x])]
  PROVE  r = q
<1> DEFINE tab == f[x]
           p == Key1(tab)
           row == [a \in 1..Len(ks) |-> ks[a][2] + 1]
<1>1. PICK h \in Nat : h = Rows(tab)
  BY Tables DEF Rows
<1>2. Len(ks) = h /\ ks \in Seq(Key)
  BY <1>1 DEF SortedOK
<1>3. \A a \in 1..h : row[a] \in 1..h /\ tab.rows[row[a]][p] = ks[a][1]
  BY <1>1, <1>2 DEF SortedOK
<1>4. ASSUME NEW a \in 1..h, NEW b \in 1..h, a < b PROVE ks[a][1] # ks[b][1]
  <2>1. ks[a][1] < ks[b][1] /\ ks[a] \in Key /\ ks[b] \in Key
    BY <1>2, <1>4 DEF SortedOK
  <2>2. ks[a][1] \in Nat /\ ks[b][1] \in Nat
    BY <2>1 DEF Key
  <2> QED BY <2>1, <2>2
<1>5. \A a, b \in 1..h : ks[a][1] = ks[b][1] => a = b
  <2> SUFFICES ASSUME NEW a \in 1..h, NEW b \in 1..h, a # b PROVE ks[a][1] # ks[b][1]
    OBVIOUS
  <2>1. a < b \/ b < a
    OBVIOUS
  <2> QED BY <1>4, <2>1
<1>6. row \in [1..h -> 1..h]
  BY <1>2, <1>3
<1> HIDE DEF row, p, tab
<1>7. \A a, b \in 1..h : row[a] = row[b] => a = b
  BY <1>3, <1>5
<1>8. row \in Surjection(1..h, 1..h)
  <2>1. row \in Injection(1..h, 1..h)
    BY <1>6, <1>7 DEF Injection, IsInjective
  <2>2. IsFiniteSet(1..h)
    BY FS_Interval
  <2> QED BY <2>1, <2>2, FS_Injection
<1>9. \A y \in 1..h : \E a \in 1..h : row[a] = y
  BY <1>8, Zenon DEF Surjection
<1>10. r \in 1..h /\ q \in 1..h /\ tab.rows[r][p] = tab.rows[q][p]
  BY <1>1 DEF tab, p
<1>11. PICK a \in 1..h : row[a] = r
  BY <1>9, <1>10
<1>12. PICK b \in 1..h : row[b] = q
  BY <1>9, <1>10
<1>13. ks[a][1] = ks[b][1]
  BY <1>3, <1>10, <1>11, <1>12
<1> QED BY <1>5, <1>11, <1>12, <1>13

LEMMA NoKeyRepeats ==
  ASSUME WInv, RInv, rpc = "rows", i > Im.nRows
  PROVE  ~KeyRepeats /\ RowsIn(file[n], Rows(file[n]))
<1>1. /\ file \in Files /\ n \in 1..Len(file) /\ ImageOK(Im, file[n]) /\ Rows(file[n]) \in Nat
      /\ Columns(file[n]) \in Nat /\ Im.nRows = Rows(file[n])
  BY BeingRead
<1>2. ColsIn(file[n], Columns(file[n])) /\ RowsIn(file[n], i - 1) /\ i \in 1..(Rows(file[n]) + 1)
  BY DEF RInv
<1>3. i - 1 = Rows(file[n])
  BY <1>1, <1>2
<1>4. RowsIn(file[n], Rows(file[n]))
  BY <1>2, <1>3
<1>5. Primary(outCols) = Key1(file[n])
  <2> DEFINE w == Columns(file[n])
             p == Primary(outCols)
             q == Key1(file[n])
  <2>1. Len(outCols) = w /\ Len(file[n].columns) = w
        /\ \A c \in 1..w : outCols[c].type = file[n].columns[c].type
    BY <1>2 DEF ColsIn, Columns
  <2>2. /\ p \in 0..w /\ (p # 0 => outCols[p].type = "key")
        /\ \A c \in 1..w : outCols[c].type = "key" => p # 0 /\ p <= c
    BY <1>1, <2>1, PrimaryColumn
  <2>3. /\ q \in 0..w /\ (q # 0 => file[n].columns[q].type = "key")
        /\ \A c \in 1..w : file[n].columns[c].type = "key" => q # 0 /\ q <= c
    BY <1>1, <2>1, PrimaryColumn DEF Key1
  <2> HIDE DEF p, q, w
  <2>4. w \in Nat
    BY <1>1 DEF w
  <2>5. p # 0 => q # 0 /\ q <= p
    <3>1. p # 0 => p \in 1..w
      BY <2>2, <2>4
    <3> QED BY <2>1, <2>2, <2>3, <3>1
  <2>6. q # 0 => p # 0 /\ p <= q
    <3>1. q # 0 => q \in 1..w
      BY <2>3, <2>4
    <3> QED BY <2>1, <2>2, <2>3, <3>1
  <2>7. p = q
    BY <2>2, <2>3, <2>4, <2>5, <2>6
  <2> QED BY <2>7 DEF p, q
<1>6. SortedOK(file[n], Im.keys)
  BY <1>1 DEF ImageOK
<1>7. ASSUME KeyRepeats PROVE FALSE
  <2> DEFINE p == Key1(file[n])
  <2>1. p # 0 /\ \E a, b \in DOMAIN outRows : a < b /\ outRows[a][p] = outRows[b][p]
    BY <1>5, <1>7 DEF KeyRepeats
  <2>2. DOMAIN outRows = 1..Rows(file[n])
    BY <1>4 DEF RowsIn
  <2>3. PICK a, b \in 1..Rows(file[n]) : a < b /\ outRows[a][p] = outRows[b][p]
    BY <2>1, <2>2
  <2>4. file[n].rows[a][p] = file[n].rows[b][p]
    BY <1>4, <2>3 DEF RowsIn
  <2>5. a = b
    BY <1>1, <1>6, <2>1, <2>4, KeysDiffer
  <2> QED BY <1>1, <2>3, <2>5
<1> QED BY <1>4, <1>7

LEMMA BuildStep ==
  ASSUME WInv, RInv, BuildTable, UNCHANGED wvars
  PROVE  RInv'
<1> DEFINE e == [name |-> name, base |-> Im.base, columns |-> outCols, rows |-> outRows]
<1>1. rpc = "rows" /\ i > Im.nRows /\ UNCHANGED <<file, pc, images, offsets>>
  BY DEF BuildTable, wvars
<1>2. /\ pc = "done" /\ n \in 1..Len(images) /\ n \in Nat /\ file \in Files /\ n \in 1..Len(file)
      /\ Im.base = file[n].base /\ Len(images) \in Nat /\ Columns(file[n]) \in Nat /\ Rows(file[n]) \in Nat
  BY <1>1, BeingRead
<1>3. ~KeyRepeats /\ RowsIn(file[n], Rows(file[n]))
  BY <1>1, NoKeyRepeats
<1>4. /\ tables' = Append(tables, e) /\ rpc' = IF n = Len(images) THEN "done" ELSE "table"
      /\ n' = n + 1 /\ outCols' = <<>> /\ outRows' = <<>>
  BY <1>3 DEF BuildTable
<1>5. NameIn(file[n]) /\ ColsIn(file[n], Columns(file[n]))
  BY <1>1 DEF RInv
<1>6. HashedLabels(file[n]) => e = file[n]
  <2> SUFFICES ASSUME HashedLabels(file[n]) PROVE e = file[n]
    OBVIOUS
  <2>1. /\ file[n].columns \in Seq(Column) /\ file[n].rows \in Seq(Seq(Nat \cup Texts))
        /\ file[n] = [name |-> file[n].name, base |-> file[n].base, columns |-> file[n].columns,
                      rows |-> file[n].rows]
    BY <1>2, Tables
  <2>2. outCols = file[n].columns
    <3>1. outCols = [c \in 1..Columns(file[n]) |-> outCols[c]]
      BY <1>5 DEF ColsIn
    <3>2. file[n].columns = [c \in 1..Columns(file[n]) |-> file[n].columns[c]]
      BY <2>1 DEF Columns
    <3>3. \A c \in 1..Columns(file[n]) : outCols[c] = file[n].columns[c]
      BY <1>5 DEF ColsIn
    <3> QED BY <3>1, <3>2, <3>3
  <2>3. outRows = file[n].rows
    <3>1. outRows = [c \in 1..Rows(file[n]) |-> outRows[c]]
      BY <1>3 DEF RowsIn
    <3>2. file[n].rows = [c \in 1..Rows(file[n]) |-> file[n].rows[c]]
      BY <2>1 DEF Rows
    <3>3. \A c \in 1..Rows(file[n]) : outRows[c] = file[n].rows[c]
      BY <1>3 DEF RowsIn
    <3> QED BY <3>1, <3>2, <3>3
  <2>4. name = file[n].name
    BY <1>5 DEF NameIn
  <2> QED BY <1>2, <2>1, <2>2, <2>3, <2>4
<1> HIDE DEF e
<1>7. tables \in Seq(Range(tables)) /\ Len(tables) = n - 1 /\ n - 1 + 1 = n
      /\ \A x \in 1..(n - 1) : HashedLabels(file[x]) => tables[x] = file[x]
  BY <1>2 DEF RInv
<1>8. /\ tables' \in Seq(Range(tables')) /\ Len(tables') = n /\ tables'[n] = e
      /\ \A x \in 1..(n - 1) : tables'[x] = tables[x]
  BY <1>4, <1>7, Appended
<1>9. \A x \in 1..n : HashedLabels(file[x]) => tables'[x] = file[x]
  <2> SUFFICES ASSUME NEW x \in 1..n, HashedLabels(file[x]) PROVE tables'[x] = file[x]
    OBVIOUS
  <2>1. CASE x = n
    BY <1>6, <1>8, <2>1
  <2>2. CASE x # n
    <3>1. x \in 1..(n - 1)
      BY <1>2, <2>2
    <3> QED BY <1>7, <1>8, <3>1
  <2> QED BY <2>1, <2>2
<1>10. /\ n' - 1 = n /\ n' \in Nat /\ n' >= 1 /\ n <= Len(images)
       /\ (n # Len(images) => n' \in 1..Len(images))
  BY <1>2, <1>4
<1> QED BY <1>1, <1>2, <1>4, <1>8, <1>9, <1>10 DEF RInv

LEMMA HeaderRead ==
  ASSUME WInv, RInv, ReadHeader, UNCHANGED wvars
  PROVE  RInv'
<1>1. /\ pc = "done" /\ rpc = "header" /\ rpc' = IF images = <<>> THEN "done" ELSE "table"
      /\ UNCHANGED <<n, i, name, outCols, outRows, tables>> /\ UNCHANGED <<file, pc, images, offsets>>
  BY DEF ReadHeader, wvars
<1>2. n = 1
  BY <1>1 DEF RInv
<1>3. images # <<>> => n \in 1..Len(images)
  <2>1. images \in Seq(Range(images))
    BY DEF WInv, Common
  <2> QED BY <1>2, <2>1
<1> QED BY <1>1, <1>3 DEF RInv

LEMMA ReaderStays ==
  ASSUME WInv, RInv, WriterStep \/ UNCHANGED wvars, UNCHANGED rvars
  PROVE  RInv'
<1>1. UNCHANGED <<rpc, n, i, name, outCols, outRows, tables>>
  BY DEF rvars
<1>2. CASE UNCHANGED wvars
  <2>1. UNCHANGED <<file, pc, images, offsets>>
    BY <1>2 DEF wvars
  <2>2. Im' = Im /\ FileLen' = FileLen /\ (InData(1) <=> InData(1)')
    BY <1>1, <2>1 DEF Im, FileLen, HeaderLen, SizeUpTo, TableLen, InData
  <2>3. PastEnd => PastEnd'
    BY <1>1, <2>1, <2>2 DEF PastEnd
  <2>4. \A tab, m : /\ NameIn(tab) => NameIn(tab)' /\ (ColsIn(tab, m) => ColsIn(tab, m)')
                    /\ (RowsIn(tab, m) => RowsIn(tab, m)')
    BY <1>1 DEF NameIn, ColsIn, RowsIn
  <2>5. rpc = "rows" => NameIn(file[n])' /\ ColsIn(file[n], Columns(file[n]))' /\ RowsIn(file[n], i - 1)'
    BY <1>1, <2>1 DEF NameIn, ColsIn, RowsIn, RInv
  <2>6. rpc = "columns" => NameIn(file[n])' /\ ColsIn(file[n], i - 1)'
    BY <1>1, <2>1 DEF NameIn, ColsIn, RInv
  <2> QED BY <1>1, <2>1, <2>2, <2>3, <2>5, <2>6 DEF RInv
<1>3. CASE WriterStep
  <2>1. pc # "done"
    BY <1>3 DEF WriterStep, WriteName, WriteColumn, ColumnsDone, WriteCell, RowsDone, SortKeys,
                WriteLabel, WriteTable, WriteHeader
  <2>2. rpc = "header" /\ n = 1
    BY <2>1 DEF RInv
  <2>3. images' = images \/ images' = Append(images, Image)
    BY <1>3 DEF WriterStep, WriteName, WriteColumn, ColumnsDone, WriteCell, RowsDone, SortKeys,
                WriteLabel, WriteTable, WriteHeader
  <2>4. Len(images') \in Nat
    <3>1. images \in Seq(Range(images)) /\ Len(images) \in Nat
      BY DEF WInv, Common
    <3> HIDE DEF Image
    <3>2. Len(Append(images, Image)) = Len(images) + 1
      BY <3>1, Appended
    <3> QED BY <2>3, <3>1, <3>2
  <2>5. n' = 1 /\ 1..(n' - 1) = {}
    BY <1>1, <2>2
  <2> QED BY <1>1, <2>2, <2>4, <2>5 DEF RInv
<1> QED BY <1>2, <1>3

LEMMA ReaderAlways == FSpec => []RInv
<1>1. FInit => RInv
  <2> SUFFICES ASSUME FInit PROVE RInv
    OBVIOUS
  <2>1. n = 1 /\ tables = <<>> /\ rpc = "header" /\ outCols = <<>> /\ outRows = <<>> /\ images = <<>>
    BY DEF FInit, RInit, Init
  <2>2. tables \in Seq(Range(tables)) /\ Len(tables) = 0 /\ Len(images) = 0 /\ n - 1 = 0
    BY <2>1
  <2> QED BY <2>1, <2>2 DEF RInv
<1>2. WInv /\ RInv /\ [FNext]_vars => RInv'
  <2> SUFFICES ASSUME WInv, RInv, [FNext]_vars PROVE RInv'
    OBVIOUS
  <2>1. CASE WriterStep /\ UNCHANGED rvars
    BY <2>1, ReaderStays
  <2>2. CASE ReaderStep /\ UNCHANGED wvars
    BY <2>2, HeaderRead, OpenStep, ColumnRead, RowsBegin, RowRead, BuildStep DEF ReaderStep
  <2>3. CASE UNCHANGED vars
    BY <2>3, ReaderStays DEF vars
  <2> QED BY <2>1, <2>2, <2>3 DEF FNext, Ended
<1> QED BY <1>1, <1>2, WriterAlways, PTL DEF FSpec

-----------------------------------------------------------------------------
(* Theorems about what is read. *)

(* Every table of hashed labels that is read is the one that was written   *)
(* at its place in the file, with any tables in front of it and behind.    *)
THEOREM ReadCorrect == FSpec => []ReadsWhatWasWritten
<1>1. RInv => ReadsWhatWasWritten
  <2> SUFFICES ASSUME RInv PROVE ReadsWhatWasWritten
    OBVIOUS
  <2>1. DOMAIN tables = 1..(n - 1)
    BY DEF RInv
  <2> QED BY <2>1 DEF RInv, ReadsWhatWasWritten
<1> QED BY <1>1, ReaderAlways, PTL

(* Reading what was written never panics for a key, and fails only for     *)
(* labels that are texts, or past the end of the file for the keys that a  *)
(* table without a column of hashes does not have.                         *)
THEOREM FailureCorrect == FSpec => []FailsOnlyPastEnd
<1>1. RInv => FailsOnlyPastEnd
  BY DEF RInv, FailsOnlyPastEnd, PastEnd
<1> QED BY <1>1, ReaderAlways, PTL
=============================================================================
