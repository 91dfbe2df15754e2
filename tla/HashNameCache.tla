---------------------------- MODULE HashNameCache ----------------------------
(***************************************************************************)
(* HashNameTable::load_from_names: every run of the toolset that is given  *)
(* a file of names builds the table from hashes to names, or takes it from *)
(* a cache file in the temporary directory, which all runs share.  The     *)
(* cache is valid if it starts with the hash of the names; it is rewritten *)
(* in place, field after field, without a lock and without truncation.     *)
(*                                                                         *)
(* A name is a sequence of characters.  The cache file is a sequence of    *)
(* words: a number field of the code (8, 4 or 2 bytes) is one word and so  *)
(* is a character, so that a reader may well take one for another.         *)
(***************************************************************************)
EXTENDS Integers, SequencesExt

CONSTANTS
  Procs,       \* the runs of the toolset
  Modes,       \* the circumstances, see Mode
  Key(_),      \* murmur3_str of a name
  Hash(_),     \* murmur3 of all the characters of a names file
  LenMax,      \* u16::MAX, the longest name whose length fits its field
  Nobody,      \* marks what is not yet known
  Failure      \* the answer of a run that ends with an error

(* lists: the contents of the names files, line by line; overlap: two runs *)
(* may be active at the same time; crashes: a run may be killed.           *)
Mode == [lists : SUBSET Seq(Seq(Nat)), overlap : BOOLEAN, crashes : BOOLEAN]

ASSUME CacheAssumption ==
  /\ \A m \in Modes :
       /\ m \in Mode
       /\ \A l \in m.lists :
            /\ l # Nobody /\ Hash(FlattenSeq(l)) \in Nat
            /\ \A i \in DOMAIN l : Key(l[i]) \in Nat
  /\ LenMax \in Nat

NameLists == UNION {m.lists : m \in Modes}

VARIABLES
  mode,        \* the circumstances of this behaviour
  file,        \* bdat-hashes.dat; an absent file is created empty
  pc,          \* the phase each run is in
  names,       \* the lines it was given
  got,         \* the table: read so far, or built from the names
  at,          \* its position in the file
  left,        \* read: the entries that remain
  todo,        \* write: the fields that remain
  torn,        \* history: the last writer has not written everything
  sawTorn      \* history: torn, when this run looked at the cache

private == <<names, got, at, left, todo, sawTorn>>
vars == <<mode, file, pc, private, torn>>

Active == {"check", "count", "entries", "write"}
Ended == {"done", "failed", "crashed"}
Empty == [x \in {} |-> <<>>]

(* The table of a list of names: for equal hashes the later line wins.     *)
LineOf(l, key) == l[CHOOSE i \in DOMAIN l :
                      Key(l[i]) = key /\ \A j \in DOMAIN l : Key(l[j]) = key => j <= i]
TableOf(l) == [key \in {Key(l[i]) : i \in DOMAIN l} |-> LineOf(l, key)]

(* The lines are hashed without their separators. *)
NamesHashOfFirst(l) == Hash(IF l = <<>> THEN <<>> ELSE l[1])
NamesHash(l) == Hash(FlattenSeq(l))

(* The fields HashNameTable::write writes, one write_all call each.  The   *)
(* order of a HashMap with a fixed hasher is the same in every run.        *)
LenField(text) == Len(text) % (LenMax + 1)
Entry(key, text) == << <<key>>, <<LenField(text)>>, text >>
CountFieldOffByOne(table) == Cardinality(DOMAIN table) + 1
CountField(table) == Cardinality(DOMAIN table)
Fields(hash, table) ==
  LET keys == SetToSeq(DOMAIN table)
  IN  << <<hash>>, <<CountField(table)>> >>
      \o FlattenSeq([i \in DOMAIN keys |-> Entry(keys[i], table[keys[i]])])

(* Writing words over the file at a position, which never exceeds its end. *)
Overwrite(words, pos, new) ==
  [i \in 1..Max({Len(words), pos + Len(new) - 1}) |->
     IF i >= pos /\ i < pos + Len(new) THEN new[i - pos + 1] ELSE words[i]]

Init ==
  /\ mode \in Modes
  /\ file = <<>> /\ torn = FALSE
  /\ pc = [p \in Procs |-> "idle"]
  /\ names = [p \in Procs |-> Nobody]
  /\ got = [p \in Procs |-> Empty]
  /\ at = [p \in Procs |-> 1] /\ left = [p \in Procs |-> 0]
  /\ todo = [p \in Procs |-> <<>>] /\ sawTorn = [p \in Procs |-> FALSE]

Goto(p, phase) == pc' = [pc EXCEPT ![p] = phase]

(* The names are read and hashed and the cache is opened. *)
Open(p) ==
  /\ pc[p] = "idle"
  /\ mode.overlap \/ \A q \in Procs : pc[q] \notin Active
  /\ \E l \in mode.lists : names' = [names EXCEPT ![p] = l]
  /\ Goto(p, "check")
  /\ UNCHANGED <<mode, file, got, at, left, todo, torn, sawTorn>>

(* Eight bytes are read and compared.  After a mismatch the table is built *)
(* and the file rewound.                                                   *)
Valid(l) == file # <<>> /\ file[1] = NamesHash(l)
Rewound == 1
Check(p) ==
  /\ pc[p] = "check"
  /\ sawTorn' = [sawTorn EXCEPT ![p] = torn]
  /\ \/ /\ Valid(names[p])
        /\ at' = [at EXCEPT ![p] = 2]
        /\ Goto(p, "count")
        /\ UNCHANGED <<got, todo>>
     \/ /\ ~Valid(names[p])
        /\ at' = [at EXCEPT ![p] = Rewound]
        /\ got' = [got EXCEPT ![p] = TableOf(names[p])]
        /\ todo' = [todo EXCEPT ![p] = Fields(NamesHash(names[p]), TableOf(names[p]))]
        /\ Goto(p, "write")
  /\ UNCHANGED <<mode, file, names, left, torn>>

(* HashNameTable::read.  A field beyond the end of the file is an error.   *)
Eof(pos) == pos > Len(file)
FailUnnoticed(p) == Goto(p, "done") /\ UNCHANGED <<got, at, left>>
Fail(p) == Goto(p, "failed") /\ UNCHANGED <<got, at, left>>

ReadCount(p) ==
  /\ pc[p] = "count"
  /\ \/ /\ ~Eof(at[p])
        /\ left' = [left EXCEPT ![p] = file[at[p]]]
        /\ at' = [at EXCEPT ![p] = @ + 1]
        /\ Goto(p, "entries")
        /\ UNCHANGED got
     \/ Eof(at[p]) /\ Fail(p)
  /\ UNCHANGED <<mode, file, names, todo, torn, sawTorn>>

(* One entry: its key, its length and as many characters.  The entries of  *)
(* a large file do not come out of one read of the file.                   *)
EntryEnd(pos) == IF Eof(pos + 1) THEN pos + 1 ELSE pos + 1 + file[pos + 1]

ReadEntry(p) ==
  /\ pc[p] = "entries" /\ left[p] > 0
  /\ LET end == EntryEnd(at[p])
     IN  \/ /\ ~Eof(end)
            /\ LET key == file[at[p]]
                   text == SubSeq(file, at[p] + 2, end)
               IN  got' = [got EXCEPT ![p] =
                             [x \in DOMAIN @ \cup {key} |-> IF x = key THEN text ELSE @[x]]]
            /\ at' = [at EXCEPT ![p] = end + 1]
            /\ left' = [left EXCEPT ![p] = @ - 1]
            /\ UNCHANGED pc
         \/ Eof(end) /\ Fail(p)
  /\ UNCHANGED <<mode, file, names, todo, torn, sawTorn>>

ReadDone(p) ==
  /\ pc[p] = "entries" /\ left[p] = 0
  /\ Goto(p, "done")
  /\ UNCHANGED <<mode, file, private, torn>>

(* HashNameTable::write, field by field: the file has no buffer. *)
WriteField(p) ==
  /\ pc[p] = "write" /\ todo[p] # <<>>
  /\ file' = Overwrite(file, at[p], Head(todo[p]))
  /\ at' = [at EXCEPT ![p] = @ + Len(Head(todo[p]))]
  /\ todo' = [todo EXCEPT ![p] = Tail(@)]
  /\ torn' = TRUE
  /\ UNCHANGED <<mode, pc, names, got, left, sawTorn>>

WriteDone(p) ==
  /\ pc[p] = "write" /\ todo[p] = <<>>
  /\ Goto(p, "done")
  /\ torn' = FALSE
  /\ UNCHANGED <<mode, file, private>>

Crash(p) ==
  /\ mode.crashes /\ pc[p] \in Active
  /\ Goto(p, "crashed")
  /\ UNCHANGED <<mode, file, private, torn>>

Run(p) ==
  \/ Open(p) \/ Check(p)
  \/ ReadCount(p) \/ ReadEntry(p) \/ ReadDone(p)
  \/ WriteField(p) \/ WriteDone(p)
  \/ Crash(p)

AllEnded == (\A p \in Procs : pc[p] \in Ended) /\ UNCHANGED vars

Next == (\E p \in Procs : Run(p)) \/ AllEnded

Spec == Init /\ [][Next]_vars
-----------------------------------------------------------------------------
(* Properties. *)

(* A run answers with the table of the names it was given.                 *)
Right(p) == got[p] = TableOf(names[p])

(* A name that is too long for the length field of the cache.              *)
TooLong(l) == \E i \in DOMAIN l : Len(l[i]) > LenMax

(* The cache is invisible: for runs that follow one another and complete,  *)
(* loading names through it is the same as building the table every time.  *)
(* This rests on the hash telling the lists apart, on a shorter table      *)
(* hiding what is left of a longer one behind it, and on every length      *)
(* fitting its field.                                                      *)
Quiet == ~mode.overlap /\ ~mode.crashes /\ \A l \in mode.lists : ~TooLong(l)
Service == INSTANCE NameService
  WITH asked <- [p \in Procs |-> IF Quiet THEN names[p] ELSE Nobody],
       answered <- [p \in Procs |->
                      IF ~Quiet THEN Nobody
                      ELSE IF pc[p] = "done" THEN got[p]
                      ELSE IF pc[p] = "failed" THEN Failure ELSE Nobody]
Transparent == Service!Spec

(* A run that is killed may leave a cache that is valid by its hash and    *)
(* has a stale or missing body, and the length of a name beyond u16::MAX   *)
(* is cut off, so that what follows it is read from the wrong place.       *)
(* These are the only ways to a wrong or failed answer; the first lasts    *)
(* only until someone completes a write, the second does not befall the    *)
(* run that writes the cache.                                              *)
WrongOnlyIfTornOrTooLong ==
  ~mode.overlap =>
    \A p \in Procs :
      (pc[p] = "failed" \/ (pc[p] = "done" /\ ~Right(p))) =>
        \/ sawTorn[p]
        \/ /\ TooLong(names[p])
           /\ \E q \in Procs \ {p} : names[q] = names[p] /\ pc[q] = "done"

(* Runs on the same names that share a new cache may meet a half-written   *)
(* one, but then they fail: none is given a table without its names, as    *)
(* long as none of these is too long.                                      *)
FailsButNeverLies ==
  \A l \in mode.lists :
    (mode.lists = {l} /\ ~TooLong(l)) => \A p \in Procs : pc[p] = "done" => Right(p)

(* All names of the given file are there to replace their hashes.          *)
(* (toolset/src/main.rs, the doc comment of the hashes option)             *)
AllMatchedReplaced ==
  \A p \in Procs : pc[p] = "done" =>
    \A i \in DOMAIN names[p] : Key(names[p][i]) \in DOMAIN got[p]
=============================================================================
