------------------------- MODULE ScrambleTool_proofs -------------------------
(***************************************************************************)
(* Proofs about the scramble and unscramble commands, for all files,       *)
(* commands and numbers of workers, failures and crashes.                  *)
(***************************************************************************)
EXTENDS ScrambleTool, ProofBasics

(* Where a command may write: below the directory it was given, or under   *)
(* the name of an output.                                                  *)
LEMMA CommonLengths ==
  ASSUME NEW paths, paths \subseteq Path, paths # {}
  PROVE  /\ CommonLength(paths) \in Nat
         /\ \A f \in paths : CommonLength(paths) <= Len(f)
<1> DEFINE first == CHOOSE p \in paths : TRUE
           T == {n \in 0..Len(first) : \A p \in paths : IsPrefix(SubSeq(first, 1, n), p)}
<1>1. first \in paths /\ first \in Seq(Name)
  BY DEF Path
<1> HIDE DEF first
<1>2. Len(first) \in Nat
  BY <1>1
<1>3. ASSUME NEW n \in 0..Len(first)
      PROVE  Len(SubSeq(first, 1, n)) = n
  BY <1>1, <1>2
<1>4. 0 \in T
  <2> SUFFICES ASSUME NEW p \in paths
               PROVE  IsPrefix(SubSeq(first, 1, 0), p)
    BY <1>2
  <2>1. p \in Seq(Name) /\ Len(p) \in Nat
    BY DEF Path
  <2>2. SubSeq(first, 1, 0) = <<>> /\ Len(<<>>) = 0 /\ SubSeq(p, 1, 0) = <<>>
        /\ SubSeq(<<>>, 1, 0) = <<>>
    BY SubSeqEmpty
  <2> QED BY <2>1, <2>2 DEF IsPrefix
<1>5. \E x \in T : \A y \in T : y <= x
  <2>1. T \subseteq Nat /\ \A n \in T : n <= Len(first)
    BY <1>2
  <2> HIDE DEF T
  <2> QED BY <1>2, <1>4, <2>1, NatMax
<1>6. CommonLength(paths) \in T
  <2>1. CommonLength(paths) = CHOOSE x \in T : \A y \in T : x >= y
    BY DEF CommonLength, Max, first
  <2>2. \E x \in T : \A y \in T : x >= y
    <3>1. PICK x \in T : \A y \in T : y <= x
      BY <1>5
    <3>2. \A y \in T : x >= y
      BY <1>2, <3>1
    <3> QED BY <3>2
  <2> HIDE DEF T
  <2> QED BY <2>1, <2>2
<1>7. ASSUME NEW f \in paths
      PROVE  CommonLength(paths) <= Len(f)
  <2> DEFINE n == CommonLength(paths)
  <2>1. n \in 0..Len(first) /\ IsPrefix(SubSeq(first, 1, n), f)
    BY <1>6
  <2> HIDE DEF n
  <2>2. Len(SubSeq(first, 1, n)) <= Len(f)
    BY <2>1 DEF IsPrefix
  <2> QED BY <1>3, <2>1, <2>2 DEF n
<1> QED BY <1>2, <1>6, <1>7

LEMMA Renamed ==
  ASSUME NEW f \in Path, NEW c
  PROVE  /\ WithExtension(f, NewExtension(c)) \in Path
         /\ NamedLikeOutput(WithExtension(f, NewExtension(c)))
<1> DEFINE ext == NewExtension(c)
           name == Last(f)
           stem == Stem(name)
           out == WithExtension(f, ext)
<1>1. ext \in Seq(Part) /\ Len(ext) = 2 /\ ext \in {<<"scrambled", "bdat">>, <<"plain", "bdat">>}
  <2>1. "scrambled" \in Part /\ "plain" \in Part /\ "bdat" \in Part
    BY ToolAssumption DEF ToolAssumption
  <2>2. ext = <<"scrambled", "bdat">> \/ ext = <<"plain", "bdat">>
    BY DEF NewExtension
  <2> HIDE DEF ext
  <2>3. \A a, b \in Part : <<a, b>> \in Seq(Part) /\ Len(<<a, b>>) = 2
    OBVIOUS
  <2>4. CASE ext = <<"scrambled", "bdat">>
    BY <2>1, <2>3, <2>4
  <2>5. CASE ext = <<"plain", "bdat">>
    BY <2>1, <2>3, <2>5
  <2> QED BY <2>2, <2>4, <2>5
<1>2. f \in Seq(Name) /\ Len(f) \in Nat \ {0}
  BY EmptySeq DEF Path
<1>3. name \in Name /\ name \in Seq(Part) /\ Len(name) \in Nat \ {0}
  <2>1. name \in Name
    BY <1>2 DEF Last
  <2> QED BY <2>1, EmptySeq DEF Name
<1> HIDE DEF ext, name
<1>4. stem \in Seq(Part) /\ Len(stem) \in Nat \ {0}
  <2>1. CASE Len(name) > 1
    <3>1. stem = SubSeq(name, 1, Len(name) - 1)
      BY <2>1 DEF Stem, Front
    <3> QED BY <1>3, <2>1, <3>1
  <2>2. CASE ~(Len(name) > 1)
    BY <1>3, <2>2 DEF Stem
  <2> QED BY <2>1, <2>2
<1> HIDE DEF stem
<1> DEFINE last == stem \o ext
           front == Front(f)
<1>5. /\ last \in Seq(Part) /\ Len(last) = Len(stem) + 2
      /\ \A i \in 1..(Len(stem) + 2) : last[i] = IF i <= Len(stem) THEN stem[i] ELSE ext[i - Len(stem)]
  <2> HIDE DEF last
  <2>1. stem \in Seq(Part) /\ ext \in Seq(Part) /\ Len(ext) = 2 /\ Len(stem) \in Nat
    BY <1>1, <1>4
  <2>2. /\ stem \o ext \in Seq(Part) /\ Len(stem \o ext) = Len(stem) + Len(ext)
        /\ \A i \in 1..(Len(stem) + Len(ext)) :
             (stem \o ext)[i] = IF i <= Len(stem) THEN stem[i] ELSE ext[i - Len(stem)]
    BY <2>1, ConcatProperties
  <2> QED BY <2>1, <2>2 DEF last
<1>6. last \in Name
  BY <1>4, <1>5 DEF Name
<1>7. SubSeq(last, Len(last) - 1, Len(last)) = ext
  <2> DEFINE tail == SubSeq(last, Len(last) - 1, Len(last))
             n == Len(stem)
  <2> HIDE DEF last
  <2>1. Len(last) = n + 2 /\ n \in Nat
    BY <1>4, <1>5
  <2>2. tail \in Seq(Part) /\ Len(tail) = 2 /\ tail[1] = last[n + 1] /\ tail[2] = last[n + 2]
    <3>1. \A i \in (Len(last) - 1)..Len(last) : last[i] \in Part
      BY <1>5, <2>1
    <3>2. /\ tail \in Seq(Part) /\ Len(tail) = 2
          /\ \A i \in 1..2 : tail[i] = last[Len(last) - 1 + i - 1]
      BY <2>1, <3>1, SubSeqProperties
    <3> QED BY <2>1, <3>2
  <2>3. last[n + 1] = ext[1] /\ last[n + 2] = ext[2]
    BY <1>5, <2>1
  <2> QED BY <1>1, <2>2, <2>3, SeqEqual
<1>8. front \in Seq(Name) /\ Len(front) = Len(f) - 1
  <2> DEFINE n == Len(f) - 1
  <2>1. n \in Nat /\ \A i \in 1..n : f[i] \in Name
    BY <1>2
  <2> HIDE DEF n
  <2>2. SubSeq(f, 1, n) \in Seq(Name) /\ Len(SubSeq(f, 1, n)) = IF 1 <= n THEN n - 1 + 1 ELSE 0
    BY <2>1, SubSeqProperties
  <2>3. Len(SubSeq(f, 1, n)) = n
    BY <2>1, <2>2
  <2> QED BY <2>2, <2>3 DEF front, Front, n
<1>9. out = front \o <<last>>
  BY DEF WithExtension, ext, stem, name
<1> HIDE DEF last, front
<1>10. <<last>> \in Seq(Name) /\ Len(<<last>>) = 1 /\ <<last>>[1] = last
  BY <1>6
<1>11. out \in Seq(Name) /\ Len(out) = Len(f) /\ out[Len(f)] = last
  BY <1>2, <1>8, <1>9, <1>10, ConcatProperties
<1>12. Last(out) = last /\ out \in Path
  BY <1>2, <1>11 DEF Last, Path
<1>13. Len(last) > 2
  BY <1>4, <1>5
<1> HIDE DEF out
<1>14. NamedLikeOutput(out)
  BY <1>1, <1>7, <1>12, <1>13 DEF NamedLikeOutput
<1> QED BY <1>12, <1>14 DEF out, ext

LEMMA Outputs ==
  ASSUME NEW c \in Commands, NEW paths, paths \subseteq Path, NEW f \in paths
  PROVE  /\ OutOf(c, paths, f) \in Path
         /\ \/ NamedLikeOutput(OutOf(c, paths, f))
            \/ c.outDir # NoDir /\ IsPrefix(c.outDir, OutOf(c, paths, f))
<1>1. CASE c.outDir = NoDir
  BY <1>1, Renamed DEF OutOf
<1>2. CASE c.outDir # NoDir
  <2> DEFINE n == CommonLength(paths)
             rest == IF n = Len(f) THEN <<Last(f)>> ELSE SubSeq(f, n + 1, Len(f))
  <2>1. c.outDir \in Seq(Name)
    BY <1>2, ToolAssumption DEF ToolAssumption
  <2>2. n \in Nat /\ n <= Len(f)
    BY CommonLengths
  <2>3. f \in Seq(Name) /\ Len(f) \in Nat \ {0}
    BY EmptySeq DEF Path
  <2> HIDE DEF n
  <2>4. rest \in Seq(Name) /\ Len(rest) \in Nat \ {0}
    <3>1. CASE n = Len(f)
      BY <2>3, <3>1 DEF Last
    <3>2. CASE n # Len(f)
      <4>1. rest = SubSeq(f, n + 1, Len(f)) /\ n + 1 <= Len(f)
        BY <2>2, <2>3, <3>2
      <4> QED BY <2>2, <2>3, <4>1
    <3> QED BY <3>1, <3>2
  <2>5. OutOf(c, paths, f) = c.outDir \o rest
    BY <1>2 DEF OutOf, n
  <2> HIDE DEF rest
  <2> DEFINE d == c.outDir
             out == d \o rest
  <2>6. /\ out \in Seq(Name) /\ Len(out) = Len(d) + Len(rest) /\ Len(d) \in Nat
        /\ \A i \in 1..Len(d) : out[i] = d[i]
    BY <2>1, <2>4, ConcatProperties
  <2>7. IsPrefix(d, out)
    <3> HIDE DEF d, out
    <3>1. d \in Seq(Name)
      BY <2>1 DEF d
    <3>2. SubSeq(d, 1, Len(d)) = SubSeq(out, 1, Len(d))
      BY <2>4, <2>6, <3>1
    <3> QED BY <2>4, <2>6, <3>2 DEF IsPrefix
  <2>8. out \in Path
    BY <2>4, <2>6 DEF Path
  <2> QED BY <1>2, <2>5, <2>7, <2>8
<1> QED BY <1>1, <1>2

-----------------------------------------------------------------------------
(* The inductive invariant.                                                *)

Busy(w) == work[w].step # "idle"
Job(w) == [step |-> work[w].step, file |-> work[w].file, result |-> work[w].result]

(* Types; what was found stays a part of what there was. *)
WorkShapes ==
  /\ work = [w \in Workers |-> Job(w)]
  /\ \A w \in Workers :
       work[w].step \in {"idle", "read", "create", "write", "rest"} /\ IsContent(work[w].result)
Shapes ==
  /\ DOMAIN disk \subseteq Path /\ \A p \in DOMAIN disk : IsContent(disk[p])
  /\ DOMAIN before \subseteq DOMAIN disk /\ \A p \in DOMAIN before : IsContent(before[p])
  /\ cmd \in Commands /\ files \subseteq DOMAIN before /\ queue \subseteq files
  /\ WorkShapes
  /\ running \in BOOLEAN /\ failed \in BOOLEAN /\ faults \in Nat

(* The workers are busy with different files, none of which is in the      *)
(* queue any more.                                                         *)
RunInv ==
  /\ ~running => \A w \in Workers : work[w] = Idle
  /\ \A w \in Workers : work[w].step = "idle" => work[w] = Idle
  /\ \A w \in Workers : Busy(w) => work[w].file \in files \ queue
  /\ \A v, w \in Workers : Busy(v) /\ Busy(w) /\ v # w => work[v].file # work[w].file

(* If the outputs are apart: what is yet to be read is as it was; what was *)
(* read is made of what was there; a file is ready for it; and every other *)
(* file is done.                                                           *)
Done(f) ==
  /\ before[f].kind \in {"legacy", "short", "mixed"}
  /\ Out(f) \in DOMAIN disk /\ disk[Out(f)] = Process(cmd, before[f])
Unread(f) == f \in queue \/ \E w \in Workers : work[w].step = "read" /\ work[w].file = f
Untouched == \A f \in files : Unread(f) => disk[f] = before[f]
Made ==
  \A w \in Workers : work[w].step \in {"create", "write", "rest"} =>
    /\ before[work[w].file].kind \in {"legacy", "short", "mixed"}
    /\ work[w].result = Process(cmd, before[work[w].file])
Ready ==
  \A w \in Workers :
    /\ work[w].step \in {"write", "rest"} => Out(work[w].file) \in DOMAIN disk
    /\ work[w].step = "write" => disk[Out(work[w].file)] = Empty
    /\ work[w].step = "rest" => disk[Out(work[w].file)] \in Begun(work[w].result)
AllTaken ==
  ~failed => \A f \in files \ queue : Done(f) \/ \E w \in Workers : Busy(w) /\ work[w].file = f
DoneInv ==
  /\ running /\ Apart(cmd, files) => Untouched /\ Made /\ Ready /\ AllTaken
  /\ ~running /\ result = "ok" /\ Apart(cmd, files) => \A f \in files : Done(f)

(* As long as nothing failed and no outputs clashed: every file is a whole *)
(* legacy one or was there at first, or is being written.                  *)
Cause ==
  \E f \in files \cap DOMAIN origin :
    \/ origin[f].kind = "modern"
    \/ origin[f].kind = "other" /\ Extension(f) = "bdat"
First(d, p) == p \in DOMAIN origin /\ d[p] = origin[p]
Whole(p) ==
  \/ disk[p].kind = "legacy" \/ First(disk, p)
  \/ \E w \in Workers : work[w].step \in {"write", "rest"} /\ Out(work[w].file) = p
Calm == faults = 0 /\ ~clashed
Listed == \A f \in files : Extension(f) = "bdat" \/ before[f].kind # "other"
AllWhole == \A p \in DOMAIN disk : Whole(p)
WereWhole == \A p \in DOMAIN before : before[p].kind = "legacy" \/ First(before, p)
CauseInv ==
  /\ \A p \in DOMAIN origin : origin[p].kind \in {"legacy", "modern", "other"}
  /\ running => Listed /\ (~clashed => Apart(cmd, files))
  /\ Calm => /\ AllWhole /\ WereWhole
             /\ (IF running THEN failed ELSE result = "error") => Cause

(* A command writes where it was told to. *)
KeptInv ==
  /\ OriginalsKept
  /\ running => cmd.outDir = NoDir \/ cmd.outDir \in outDirs

IInv == Shapes /\ RunInv /\ DoneInv /\ CauseInv /\ KeptInv

-----------------------------------------------------------------------------
(* What operations on contents and the disk do. *)
LEMMA Contents ==
  /\ IsContent(Empty)
  /\ \A c \in Commands : \A x : IsContent(x) =>
       /\ IsContent(Process(c, x))
       /\ Process(c, x).kind = x.kind /\ Process(c, x).text = x.text
       /\ Len(Process(c, x).tables) = Len(x.tables)
       /\ \A i \in DOMAIN Process(c, x).tables : Process(c, x).tables[i] = c.scramble
  /\ \A x : IsContent(x) =>
       /\ \A y : \A z \in PartWritten(y, x) \cup Written(y, x) : IsContent(z)
       /\ PartWritten(Empty, x) = Begun(x)
       /\ \A y \in Begun(x) \cup {Empty} : Written(y, x) = {x}
<1>1. IsContent(Empty)
  <2>1. <<>> \in Seq(BOOLEAN)
    BY EmptySeq
  <2> QED BY <2>1 DEF IsContent, Empty, Content
<1>2. ASSUME NEW c \in Commands, NEW x, IsContent(x)
      PROVE  /\ IsContent(Process(c, x))
             /\ Process(c, x).kind = x.kind /\ Process(c, x).text = x.text
             /\ Len(Process(c, x).tables) = Len(x.tables)
             /\ \A i \in DOMAIN Process(c, x).tables : Process(c, x).tables[i] = c.scramble
  <2> DEFINE t == [i \in DOMAIN x.tables |-> c.scramble]
  <2>1. c.scramble \in BOOLEAN
    BY ToolAssumption DEF ToolAssumption
  <2>2. Process(c, x) = Content(x.kind, x.text, t)
    <3> DEFINE k == x.kind
               text == x.text
               u == x.tables
    <3>1. x = [kind |-> k, text |-> text, tables |-> u]
      BY <1>2 DEF IsContent, Content
    <3> HIDE DEF k, text, u
    <3>2. Process(c, x) = [kind |-> k, text |-> text, tables |-> [i \in DOMAIN u |-> c.scramble]]
      BY <3>1 DEF Process
    <3> QED BY <3>2 DEF k, text, u, Content
  <2>3. x.tables \in Seq(BOOLEAN)
    BY <1>2 DEF IsContent
  <2>4. t \in Seq(BOOLEAN) /\ Len(t) = Len(x.tables) /\ \A i \in DOMAIN t : t[i] = c.scramble
    BY <2>1, <2>3
  <2> HIDE DEF t
  <2> QED BY <2>2, <2>4 DEF IsContent, Content
<1>3. ASSUME NEW x, IsContent(x)
      PROVE  /\ \A y : \A z \in PartWritten(y, x) \cup Written(y, x) : IsContent(z)
             /\ PartWritten(Empty, x) = Begun(x)
             /\ \A y \in Begun(x) \cup {Empty} : Written(y, x) = {x}
  <2>1. \A kind : [x EXCEPT !.kind = kind] = Content(kind, x.text, x.tables)
    BY <1>3 DEF IsContent, Content
  <2>2. \A kind : IsContent([x EXCEPT !.kind = kind])
    BY <1>3, <2>1 DEF IsContent, Content
  <2>3. IsContent(Cut(x.text))
    BY EmptySeq DEF IsContent, Cut, Content
  <2>4. Begun(x) = {Cut(x.text), [x EXCEPT !.kind = IF x.kind = "legacy" THEN "short" ELSE x.kind]}
    BY <1>3 DEF Begun, IsContent, Content
  <2>5. \A z \in Begun(x) : IsContent(z)
    BY <2>2, <2>3, <2>4
  <2>6. IsContent(Mix(x))
    BY <2>2 DEF Mix
  <2>7. \A y : \A z \in PartWritten(y, x) \cup Written(y, x) : IsContent(z)
    <3> HIDE DEF Begun
    <3> QED BY <1>3, <2>5, <2>6 DEF PartWritten, Written
  <2>8. PartWritten(Empty, x) = Begun(x)
    BY DEF PartWritten
  <2>9. ASSUME NEW y \in Begun(x) \cup {Empty}
        PROVE  Written(y, x) = {x}
    <3>1. Covers(y, x)
      BY DEF Covers
    <3>2. ~(y.kind = "legacy" /\ x.kind = "legacy")
      <4>1. Empty.kind = "empty" /\ Cut(x.text).kind = "cut"
        BY DEF Cut, Empty, Content
      <4>2. \A kind : [x EXCEPT !.kind = kind].kind = kind
        BY <2>1 DEF Content
      <4> QED BY <2>4, <4>1, <4>2
    <3>3. ~Outlasts(y, x)
      BY <3>2 DEF Outlasts, BothWhole
    <3> QED BY <3>1, <3>3 DEF Written
  <2> QED BY <2>7, <2>8, <2>9
<1> QED BY <1>1, <1>2, <1>3

LEMMA FileSet ==
  ASSUME NEW path, NEW content, SetFile(path, content)
  PROVE  /\ DOMAIN disk' = DOMAIN disk \cup {path}
         /\ disk'[path] = content
         /\ \A p \in DOMAIN disk : p # path => disk'[p] = disk[p]
BY DEF SetFile

(* A worker goes on with another job. *)
Becomes(w, step, f, r) ==
  /\ work'[w] = [step |-> step, file |-> f, result |-> r]
  /\ \A v \in Workers : v # w => work'[v] = work[v]
  /\ work' = [v \in Workers |-> work'[v]]

LEMMA TakeLeaves ==
  ASSUME WorkShapes, NEW w \in Workers, Take(w)
  PROVE  \E f \in queue : queue' = queue \ {f} /\ Becomes(w, "read", f, Empty)
<1>1. PICK f \in queue :
        /\ queue' = queue \ {f}
        /\ work' = [work EXCEPT ![w] = [Idle EXCEPT !.step = "read", !.file = f]]
  BY DEF Take
<1>2. [Idle EXCEPT !.step = "read", !.file = f] = [step |-> "read", file |-> f, result |-> Empty]
  <2> DEFINE half == [Idle EXCEPT !.step = "read"]
  <2>1. half = [step |-> "read", file |-> <<>>, result |-> Empty]
    BY DEF Idle
  <2>2. [Idle EXCEPT !.step = "read", !.file = f] = [half EXCEPT !.file = f]
    BY DEF Idle
  <2> HIDE DEF half
  <2> QED BY <2>1, <2>2
<1> QED BY <1>1, <1>2 DEF WorkShapes, Becomes

(* A worker that is done, or has failed. *)
LEMMA EndLeaves ==
  ASSUME WorkShapes, NEW w \in Workers, work' = [work EXCEPT ![w] = Idle]
  PROVE  Becomes(w, "idle", <<>>, Empty)
BY DEF WorkShapes, Becomes, Idle

LEMMA ReadLeaves ==
  ASSUME WorkShapes, NEW w \in Workers, ReadFile(w)
  PROVE  \/ /\ disk[work[w].file].kind # "legacy" /\ failed'
            /\ Becomes(w, "idle", <<>>, Empty)
         \/ /\ disk[work[w].file].kind \in {"legacy", "short", "mixed"} /\ failed' = failed
            /\ Becomes(w, "create", work[w].file, Process(cmd, disk[work[w].file]))
<1> DEFINE s == work[w].step
           f == work[w].file
           r == work[w].result
           new == Process(cmd, disk[f])
<1>1. work[w] = [step |-> s, file |-> f, result |-> r] /\ work = [v \in Workers |-> work[v]]
  BY DEF WorkShapes, Job
<1>2. \/ failed' /\ disk[f].kind # "legacy" /\ work' = [work EXCEPT ![w] = Idle]
      \/ /\ disk[f].kind \in {"legacy", "short", "mixed"} /\ UNCHANGED failed
         /\ work' = [work EXCEPT ![w].step = "create", ![w].result = new]
  BY DEF ReadFile
<1> HIDE DEF s, r, f, new
<1>3. CASE failed' /\ disk[f].kind # "legacy" /\ work' = [work EXCEPT ![w] = Idle]
  BY <1>3, EndLeaves DEF f
<1>4. CASE /\ disk[f].kind \in {"legacy", "short", "mixed"} /\ UNCHANGED failed
           /\ work' = [work EXCEPT ![w].step = "create", ![w].result = new]
  <2>1. work'[w] = [step |-> "create", file |-> f, result |-> new]
    <3> DEFINE half == [work EXCEPT ![w].step = "create"]
    <3>1. half[w] = [step |-> "create", file |-> f, result |-> r] /\ half = [v \in Workers |-> half[v]]
      BY <1>1
    <3>2. work' = [half EXCEPT ![w].result = new]
      BY <1>1, <1>4
    <3> HIDE DEF half
    <3> QED BY <3>1, <3>2
  <2>2. \A v \in Workers : v # w => work'[v] = work[v]
    BY <1>1, <1>4
  <2>3. work' = [v \in Workers |-> work'[v]]
    BY <1>1, <1>4
  <2> QED BY <1>4, <2>1, <2>2, <2>3 DEF Becomes, f, new
<1> QED BY <1>2, <1>3, <1>4

LEMMA CreateLeaves ==
  ASSUME WorkShapes, NEW w \in Workers, Create(w)
  PROVE  Becomes(w, "write", work[w].file, work[w].result)
<1> DEFINE s == work[w].step
           f == work[w].file
           r == work[w].result
<1>1. work[w] = [step |-> s, file |-> f, result |-> r] /\ work = [v \in Workers |-> work[v]]
  BY DEF WorkShapes, Job
<1>2. work' = [work EXCEPT ![w].step = "write"]
  BY DEF Create
<1> HIDE DEF s, f, r
<1> QED BY <1>1, <1>2 DEF Becomes, f, r

LEMMA PartLeaves ==
  ASSUME WorkShapes, NEW w \in Workers, WritePart(w)
  PROVE  Becomes(w, "rest", work[w].file, work[w].result)
<1> DEFINE s == work[w].step
           f == work[w].file
           r == work[w].result
<1>1. work[w] = [step |-> s, file |-> f, result |-> r] /\ work = [v \in Workers |-> work[v]]
  BY DEF WorkShapes, Job
<1>2. work' = [work EXCEPT ![w].step = "rest"]
  BY DEF WritePart
<1> HIDE DEF s, f, r
<1> QED BY <1>1, <1>2 DEF Becomes, f, r

-----------------------------------------------------------------------------
(* Shapes and RunInv. *)
LEMMA WorkStep ==
  ASSUME WorkShapes, NEW w \in Workers, NEW step \in {"idle", "read", "create", "write", "rest"},
         NEW f, NEW r, IsContent(r), Becomes(w, step, f, r)
  PROVE  WorkShapes'
BY DEF WorkShapes, Becomes, Job

LEMMA OutputSet ==
  ASSUME Shapes, NEW f \in files, NEW content, IsContent(content), SetFile(Out(f), content)
  PROVE  /\ DOMAIN disk' \subseteq Path /\ DOMAIN disk \subseteq DOMAIN disk'
         /\ \A p \in DOMAIN disk' : IsContent(disk'[p])
<1>1. Out(f) \in Path
  <2>1. files \subseteq Path
    BY DEF Shapes
  <2> QED BY <2>1, Outputs DEF Out, Shapes
<1> QED BY <1>1, FileSet, ZenonT(30) DEF Shapes

LEMMA ShapesInit == Init => Shapes /\ RunInv
<1> SUFFICES ASSUME Init PROVE Shapes /\ RunInv
  OBVIOUS
<1>1. DOMAIN disk \subseteq Path /\ \A p \in DOMAIN disk : IsContent(disk[p])
  BY ToolAssumption DEF Init, ToolAssumption
<1>2. cmd \in Commands
  BY ToolAssumption DEF Init, ToolAssumption
<1>3. WorkShapes
  BY Contents DEF Init, WorkShapes, Job, Idle
<1>4. Shapes
  BY <1>1, <1>2, <1>3 DEF Init, Shapes
<1>5. RunInv
  BY DEF Init, RunInv, Busy, Idle
<1> QED BY <1>4, <1>5

LEMMA ShapesStep == Shapes /\ RunInv /\ [Next]_vars => Shapes' /\ RunInv'
<1> SUFFICES ASSUME Shapes, RunInv, [Next]_vars PROVE Shapes' /\ RunInv'
  OBVIOUS
<1> USE DEF command
<1>1. ASSUME NEW c \in Commands, Start(c) PROVE Shapes' /\ RunInv'
  <2>1. WorkShapes'
    BY <1>1 DEF Start, Shapes, WorkShapes, Job
  <2>2. files' \subseteq DOMAIN disk
    <3>1. PICK seen : files' = List(c.root, seen)
      BY <1>1 DEF Start
    <3> QED BY <3>1 DEF List
  <2>3. Shapes'
    BY <1>1, <2>1, <2>2 DEF Start, Shapes
  <2>4. \A w \in Workers : work[w] = Idle /\ ~Busy(w)'
    BY <1>1 DEF Start, RunInv, Idle, Busy
  <2>5. RunInv'
    BY <1>1, <2>4 DEF Start, RunInv
  <2> QED BY <2>3, <2>5
<1>2. ASSUME NEW w \in Workers, Take(w) PROVE Shapes' /\ RunInv'
  <2>1. PICK f \in queue : queue' = queue \ {f} /\ Becomes(w, "read", f, Empty)
    BY <1>2, TakeLeaves DEF Shapes
  <2>2. WorkShapes'
    BY <2>1, WorkStep, Contents DEF Shapes
  <2>3. Shapes'
    BY <1>2, <2>1, <2>2 DEF Take, Shapes
  <2>4. RunInv'
    BY <1>2, <2>1 DEF Take, At, RunInv, Busy, Becomes, Shapes, Idle
  <2> QED BY <2>3, <2>4
<1>3. ASSUME NEW w \in Workers, ReadFile(w) PROVE Shapes' /\ RunInv'
  <2> DEFINE f == work[w].file
             new == Process(cmd, disk[f])
  <2>1. f \in files \ queue /\ running /\ \A v \in Workers : Busy(v) /\ v # w => work[v].file # f
    BY <1>3 DEF ReadFile, At, RunInv, Busy
  <2>2. IsContent(new)
    BY <2>1, Contents DEF Shapes
  <2> HIDE DEF f, new
  <2>3. Becomes(w, "idle", <<>>, Empty) \/ Becomes(w, "create", f, new)
    BY <1>3, ReadLeaves DEF Shapes, f, new
  <2>4. WorkShapes'
    BY <2>2, <2>3, WorkStep, Contents DEF Shapes
  <2>5. Shapes'
    BY <1>3, <2>3, <2>4 DEF ReadFile, Shapes
  <2>6. RunInv'
    BY <1>3, <2>1, <2>3 DEF ReadFile, RunInv, Busy, Becomes, Idle
  <2> QED BY <2>5, <2>6
<1>4. ASSUME NEW w \in Workers, Create(w) PROVE Shapes' /\ RunInv'
  <2>1. Becomes(w, "write", work[w].file, work[w].result)
    BY <1>4, CreateLeaves DEF Shapes
  <2>2. WorkShapes'
    BY <2>1, WorkStep DEF Shapes, WorkShapes
  <2>3. work[w].file \in files
    BY <1>4 DEF Create, At, RunInv, Busy
  <2>4. /\ DOMAIN disk' \subseteq Path /\ DOMAIN disk \subseteq DOMAIN disk'
        /\ \A p \in DOMAIN disk' : IsContent(disk'[p])
    <3>1. SetFile(Out(work[w].file), Empty)
      BY <1>4 DEF Create
    <3> QED BY <2>3, <3>1, OutputSet, Contents
  <2>5. Shapes'
    BY <1>4, <2>2, <2>4 DEF Create, Shapes
  <2>6. RunInv'
    BY <1>4, <2>1 DEF Create, At, RunInv, Busy, Becomes, Idle
  <2> QED BY <2>5, <2>6
<1>5. ASSUME NEW w \in Workers, Write(w) PROVE Shapes' /\ RunInv'
  <2>1. Becomes(w, "idle", <<>>, Empty)
    BY <1>5, EndLeaves DEF Write, Shapes
  <2>2. WorkShapes'
    BY <2>1, WorkStep, Contents DEF Shapes
  <2>3. work[w].file \in files /\ IsContent(work[w].result)
    BY <1>5 DEF Write, Writing, At, RunInv, Busy, Shapes, WorkShapes
  <2>4. /\ DOMAIN disk' \subseteq Path /\ DOMAIN disk \subseteq DOMAIN disk'
        /\ \A p \in DOMAIN disk' : IsContent(disk'[p])
    <3>1. PICK c \in Written(disk[Out(work[w].file)], work[w].result) : SetFile(Out(work[w].file), c)
      BY <1>5 DEF Write
    <3>2. IsContent(c)
      BY <2>3, Contents
    <3> QED BY <2>3, <3>1, <3>2, OutputSet
  <2>5. Shapes'
    BY <1>5, <2>2, <2>4 DEF Write, Shapes
  <2>6. RunInv'
    BY <1>5, <2>1 DEF Write, Writing, At, RunInv, Busy, Becomes, Idle
  <2> QED BY <2>5, <2>6
<1>11. ASSUME NEW w \in Workers, WritePart(w) PROVE Shapes' /\ RunInv'
  <2>1. Becomes(w, "rest", work[w].file, work[w].result)
    BY <1>11, PartLeaves DEF Shapes
  <2>2. WorkShapes'
    BY <2>1, WorkStep DEF Shapes, WorkShapes
  <2>3. work[w].file \in files /\ IsContent(work[w].result)
    BY <1>11 DEF WritePart, At, RunInv, Busy, Shapes, WorkShapes
  <2>4. /\ DOMAIN disk' \subseteq Path /\ DOMAIN disk \subseteq DOMAIN disk'
        /\ \A p \in DOMAIN disk' : IsContent(disk'[p])
    <3>1. PICK c \in PartWritten(disk[Out(work[w].file)], work[w].result) : SetFile(Out(work[w].file), c)
      BY <1>11 DEF WritePart
    <3>2. IsContent(c)
      BY <2>3, Contents
    <3> QED BY <2>3, <3>1, <3>2, OutputSet
  <2>5. Shapes'
    BY <1>11, <2>2, <2>4 DEF WritePart, Shapes
  <2>6. RunInv'
    BY <1>11, <2>1 DEF WritePart, At, RunInv, Busy, Becomes, Idle
  <2> QED BY <2>5, <2>6
<1>6. ASSUME NEW w \in Workers, FileFails(w) PROVE Shapes' /\ RunInv'
  <2>1. Becomes(w, "idle", <<>>, Empty)
    BY <1>6, EndLeaves DEF FileFails, Shapes
  <2>2. WorkShapes'
    BY <2>1, WorkStep, Contents DEF Shapes
  <2>3. Shapes'
    BY <1>6, <2>2 DEF FileFails, Shapes
  <2>4. RunInv'
    BY <1>6, <2>1 DEF FileFails, Writing, At, RunInv, Busy, Becomes, Idle
  <2> QED BY <2>3, <2>4
<1>7. CASE Finish
  <2>1. Shapes'
    BY <1>7 DEF Finish, Shapes, WorkShapes, Job
  <2>2. RunInv'
    BY <1>7 DEF Finish, RunInv, Busy
  <2> QED BY <2>1, <2>2
<1>8. CASE Crash
  <2>1. WorkShapes'
    BY <1>8, Contents DEF Crash, WorkShapes, Job, Idle
  <2>2. Shapes'
    <3>1. UNCHANGED <<disk, before, cmd, files, queue, failed>> /\ running' = FALSE /\ faults' = faults + 1
      BY <1>8 DEF Crash
    <3>2. running' \in BOOLEAN /\ failed' \in BOOLEAN
      BY <3>1 DEF Shapes
    <3>3. faults' \in Nat
      BY <3>1 DEF Shapes
    <3>4. /\ DOMAIN disk' \subseteq Path /\ \A p \in DOMAIN disk' : IsContent(disk'[p])
          /\ DOMAIN before' \subseteq DOMAIN disk' /\ \A p \in DOMAIN before' : IsContent(before'[p])
          /\ cmd' \in Commands /\ files' \subseteq DOMAIN before' /\ queue' \subseteq files'
      BY <3>1 DEF Shapes
    <3> QED BY <2>1, <3>2, <3>3, <3>4 DEF Shapes
  <2>3. RunInv'
    BY <1>8 DEF Crash, RunInv, Busy, Idle
  <2> QED BY <2>2, <2>3
<1>9. CASE UNCHANGED vars
  BY <1>9 DEF vars, Shapes, WorkShapes, Job, RunInv, Busy
<1>10. CASE AllRun
  BY <1>9, <1>10 DEF AllRun
<1> QED BY <1>1, <1>2, <1>3, <1>4, <1>5, <1>6, <1>7, <1>8, <1>9, <1>10, <1>11 DEF Next, Step

-----------------------------------------------------------------------------
(* What is written is what was made, if the outputs are apart. *)
LEMMA WriteLeaves ==
  ASSUME Ready, WorkShapes, NEW w \in Workers, Write(w)
  PROVE  SetFile(Out(work[w].file), work[w].result)
<1>1. disk[Out(work[w].file)] \in Begun(work[w].result) \cup {Empty}
  BY DEF Write, Writing, At, Ready
<1>2. IsContent(work[w].result)
  BY DEF WorkShapes
<1>3. Written(disk[Out(work[w].file)], work[w].result) = {work[w].result}
  BY <1>1, <1>2, Contents
<1>4. \E c \in Written(disk[Out(work[w].file)], work[w].result) : SetFile(Out(work[w].file), c)
  BY DEF Write
<1> QED BY <1>3, <1>4

LEMMA PartWrittenLeaves ==
  ASSUME Ready, WorkShapes, NEW w \in Workers, WritePart(w)
  PROVE  \E c \in Begun(work[w].result) : SetFile(Out(work[w].file), c)
<1>1. disk[Out(work[w].file)] = Empty
  BY DEF WritePart, At, Ready
<1>2. IsContent(work[w].result)
  BY DEF WorkShapes
<1>3. PartWritten(disk[Out(work[w].file)], work[w].result) = Begun(work[w].result)
  BY <1>1, <1>2, Contents
<1>4. \E c \in PartWritten(disk[Out(work[w].file)], work[w].result) :
        SetFile(Out(work[w].file), c)
  BY DEF WritePart
<1> QED BY <1>3, <1>4

-----------------------------------------------------------------------------
(* DoneInv. *)
LEMMA DoneStep == Shapes /\ RunInv /\ DoneInv /\ [Next]_vars => DoneInv'
<1> SUFFICES ASSUME Shapes, RunInv, DoneInv, [Next]_vars PROVE DoneInv'
  OBVIOUS
<1> USE DEF command
<1>a. ASSUME UNCHANGED <<cmd, files, before>>
      PROVE  /\ Apart(cmd, files)' <=> Apart(cmd, files)
             /\ \A f : Out(f)' = Out(f)
             /\ \A f : Process(cmd, before[f])' = Process(cmd, before[f])
  BY <1>a DEF Apart, Out
<1>b. ASSUME Apart(cmd, files), NEW f \in files, NEW g \in files, f # g
      PROVE  Out(f) # Out(g) /\ Out(f) # g
  BY <1>b DEF Apart, Out
<1>1. ASSUME NEW c \in Commands, Start(c) PROVE DoneInv'
  <2>1. \A w \in Workers : work'[w] = Idle
    BY <1>1 DEF Start, RunInv
  <2>2. running' /\ queue' = files' /\ before' = disk
    BY <1>1 DEF Start
  <2>3. Untouched' /\ Made' /\ Ready' /\ AllTaken'
    BY <1>1, <2>1, <2>2 DEF Start, Untouched, Made, Ready, AllTaken, Idle
  <2> QED BY <2>2, <2>3 DEF DoneInv
<1>2. ASSUME NEW w \in Workers, Take(w) PROVE DoneInv'
  <2>1. PICK f \in queue : queue' = queue \ {f} /\ Becomes(w, "read", f, Empty)
    BY <1>2, TakeLeaves DEF Shapes
  <2>2. UNCHANGED <<cmd, files, before, disk, failed, running>> /\ running /\ work[w].step = "idle"
    BY <1>2 DEF Take, At
  <2> SUFFICES ASSUME Apart(cmd, files) PROVE Untouched' /\ Made' /\ Ready' /\ AllTaken'
    BY <1>a, <2>2 DEF DoneInv
  <2>3. Untouched /\ Made /\ Ready /\ AllTaken
    BY <2>2 DEF DoneInv
  <2>4. Untouched'
    BY <2>1, <2>2, <2>3 DEF Untouched, Unread, Becomes
  <2>5. Made' /\ Ready'
    BY <1>a, <2>1, <2>2, <2>3 DEF Made, Ready, Becomes
  <2>6. AllTaken'
    <3> SUFFICES ASSUME ~failed, NEW g \in files \ queue'
                 PROVE  Done(g)' \/ \E v \in Workers : Busy(v)' /\ work'[v].file = g
      BY <2>2 DEF AllTaken
    <3>1. CASE g = f
      BY <2>1, <3>1 DEF Becomes, Busy
    <3>2. CASE g # f
      <4>1. Done(g) \/ \E v \in Workers : Busy(v) /\ work[v].file = g
        BY <2>1, <2>3, <3>2 DEF AllTaken
      <4>2. Done(g) => Done(g)'
        BY <1>a, <2>2 DEF Done
      <4> QED BY <2>1, <2>2, <4>1, <4>2 DEF Becomes, Busy
    <3> QED BY <3>1, <3>2
  <2> QED BY <2>4, <2>5, <2>6
<1>3. ASSUME NEW w \in Workers, ReadFile(w) PROVE DoneInv'
  <2> DEFINE f == work[w].file
  <2>1. UNCHANGED <<cmd, files, before, disk, queue, running>> /\ running /\ work[w].step = "read"
    BY <1>3 DEF ReadFile, At
  <2>2. f \in files
    BY <2>1 DEF RunInv, Busy
  <2> SUFFICES ASSUME Apart(cmd, files) PROVE Untouched' /\ Made' /\ Ready' /\ AllTaken'
    BY <1>a, <2>1 DEF DoneInv
  <2>3. Untouched /\ Made /\ Ready /\ AllTaken
    BY <2>1 DEF DoneInv
  <2>4. disk[f] = before[f]
    BY <2>1, <2>2, <2>3 DEF Untouched, Unread
  <2>5. \/ failed' /\ Becomes(w, "idle", <<>>, Empty)
        \/ /\ disk[f].kind \in {"legacy", "short", "mixed"} /\ failed' = failed
           /\ Becomes(w, "create", f, Process(cmd, disk[f]))
    BY <1>3, ReadLeaves DEF Shapes
  <2>6. Untouched'
    BY <2>1, <2>3, <2>5 DEF Untouched, Unread, Becomes
  <2>7. Made' /\ Ready'
    BY <1>a, <2>1, <2>3, <2>4, <2>5 DEF Made, Ready, Becomes
  <2>8. AllTaken'
    <3> SUFFICES ASSUME ~failed', NEW g \in files \ queue
                 PROVE  Done(g)' \/ \E v \in Workers : Busy(v)' /\ work'[v].file = g
      BY <2>1 DEF AllTaken
    <3>1. Done(g) \/ \E v \in Workers : Busy(v) /\ work[v].file = g
      BY <2>3, <2>5 DEF AllTaken
    <3>2. Done(g) => Done(g)'
      BY <1>a, <2>1 DEF Done
    <3> QED BY <2>5, <3>1, <3>2 DEF Becomes, Busy
  <2> QED BY <2>6, <2>7, <2>8
<1>4. ASSUME NEW w \in Workers, Create(w) PROVE DoneInv'
  <2> DEFINE f == work[w].file
  <2>1. UNCHANGED <<cmd, files, before, queue, running, failed>> /\ running /\ work[w].step = "create"
    BY <1>4 DEF Create, At
  <2>2. f \in files \ queue /\ \A v \in Workers : Busy(v) /\ v # w => work[v].file # f /\ work[v].file \in files
    BY <2>1 DEF RunInv, Busy
  <2>3. /\ DOMAIN disk' = DOMAIN disk \cup {Out(f)} /\ disk'[Out(f)] = Empty
        /\ \A p \in DOMAIN disk : p # Out(f) => disk'[p] = disk[p]
    BY <1>4, FileSet DEF Create
  <2>4. Becomes(w, "write", f, work[w].result)
    BY <1>4, CreateLeaves DEF Shapes
  <2> HIDE DEF f
  <2> SUFFICES ASSUME Apart(cmd, files) PROVE Untouched' /\ Made' /\ Ready' /\ AllTaken'
    BY <1>a, <2>1 DEF DoneInv
  <2>5. Untouched /\ Made /\ Ready /\ AllTaken
    BY <2>1 DEF DoneInv
  <2>6. Untouched'
    <3> SUFFICES ASSUME NEW g \in files, Unread(g)' PROVE disk'[g] = before[g]
      BY <2>1 DEF Untouched
    <3>1. Unread(g) /\ g # f
      BY <2>1, <2>2, <2>4 DEF Unread, Becomes, Busy
    <3>2. g # Out(f) /\ g \in DOMAIN disk
      BY <1>b, <2>2, <3>1 DEF Shapes
    <3> QED BY <2>3, <2>5, <3>1, <3>2 DEF Untouched
  <2>7. Made'
    BY <1>a, <2>1, <2>4, <2>5 DEF Made, Becomes, f
  <2>8. Ready'
    <3> SUFFICES ASSUME NEW v \in Workers, work'[v].step \in {"write", "rest"}
                 PROVE  /\ Out(work'[v].file) \in DOMAIN disk'
                        /\ work'[v].step = "write" => disk'[Out(work'[v].file)] = Empty
                        /\ work'[v].step = "rest" =>
                             disk'[Out(work'[v].file)] \in Begun(work'[v].result)
      BY <1>a, <2>1 DEF Ready
    <3>1. CASE v = w
      BY <2>3, <2>4, <3>1 DEF Becomes
    <3>2. CASE v # w
      <4>1. work'[v] = work[v] /\ work[v].file \in files /\ work[v].file # f
        BY <2>2, <2>4, <3>2 DEF Becomes, Busy
      <4>2. Out(work[v].file) # Out(f)
        BY <1>b, <2>2, <4>1
      <4> QED BY <2>3, <2>5, <4>1, <4>2 DEF Ready
    <3> QED BY <3>1, <3>2
  <2>9. AllTaken'
    <3> SUFFICES ASSUME ~failed, NEW g \in files \ queue
                 PROVE  Done(g)' \/ \E v \in Workers : Busy(v)' /\ work'[v].file = g
      BY <2>1 DEF AllTaken
    <3>1. CASE g = f
      BY <2>4, <3>1 DEF Becomes, Busy
    <3>2. CASE g # f
      <4>1. Done(g) \/ \E v \in Workers : Busy(v) /\ work[v].file = g
        BY <2>5 DEF AllTaken
      <4>2. Out(g) # Out(f)
        BY <1>b, <2>2, <3>2
      <4>3. Done(g) => Done(g)'
        BY <1>a, <2>1, <2>3, <4>2 DEF Done
      <4> QED BY <2>1, <2>4, <3>2, <4>1, <4>3 DEF Becomes, Busy, f
    <3> QED BY <3>1, <3>2
  <2> QED BY <2>6, <2>7, <2>8, <2>9
<1>5. ASSUME NEW w \in Workers, Write(w) PROVE DoneInv'
  <2> DEFINE f == work[w].file
  <2>1. UNCHANGED <<cmd, files, before, queue, running, failed>> /\ running
        /\ work[w].step \in {"write", "rest"}
    BY <1>5 DEF Write, Writing, At
  <2>2. f \in files \ queue /\ \A v \in Workers : Busy(v) /\ v # w => work[v].file # f /\ work[v].file \in files
    BY <2>1 DEF RunInv, Busy
  <2>3. Becomes(w, "idle", <<>>, Empty)
    BY <1>5, EndLeaves DEF Write, Shapes
  <2> SUFFICES ASSUME Apart(cmd, files) PROVE Untouched' /\ Made' /\ Ready' /\ AllTaken'
    BY <1>a, <2>1 DEF DoneInv
  <2>4. Untouched /\ Made /\ Ready /\ AllTaken
    BY <2>1 DEF DoneInv
  <2>5. SetFile(Out(f), work[w].result)
    BY <1>5, <2>4, WriteLeaves DEF Shapes
  <2>6. /\ DOMAIN disk' = DOMAIN disk \cup {Out(f)} /\ disk'[Out(f)] = work[w].result
        /\ \A p \in DOMAIN disk : p # Out(f) => disk'[p] = disk[p]
    BY <2>5, FileSet
  <2>7. Untouched'
    <3> SUFFICES ASSUME NEW g \in files, Unread(g)' PROVE disk'[g] = before[g]
      BY <2>1 DEF Untouched
    <3>1. Unread(g) /\ g # f
      BY <2>1, <2>2, <2>3 DEF Unread, Becomes, Busy
    <3>2. g # Out(f) /\ g \in DOMAIN disk
      BY <1>b, <2>2, <3>1 DEF Shapes
    <3> QED BY <2>4, <2>6, <3>1, <3>2 DEF Untouched
  <2>8. Made'
    BY <1>a, <2>1, <2>3, <2>4 DEF Made, Becomes
  <2>9. Ready'
    <3> SUFFICES ASSUME NEW v \in Workers, work'[v].step \in {"write", "rest"}
                 PROVE  /\ Out(work'[v].file) \in DOMAIN disk'
                        /\ work'[v].step = "write" => disk'[Out(work'[v].file)] = Empty
                        /\ work'[v].step = "rest" =>
                             disk'[Out(work'[v].file)] \in Begun(work'[v].result)
      BY <1>a, <2>1 DEF Ready
    <3>1. v # w
      BY <2>3 DEF Becomes
    <3>2. work'[v] = work[v] /\ work[v].file \in files /\ work[v].file # f
      BY <2>2, <2>3, <3>1 DEF Becomes, Busy
    <3>3. Out(work[v].file) # Out(f)
      BY <1>b, <2>2, <3>2
    <3> QED BY <2>4, <2>6, <3>2, <3>3 DEF Ready
  <2>10. AllTaken'
    <3> SUFFICES ASSUME ~failed, NEW g \in files \ queue
                 PROVE  Done(g)' \/ \E v \in Workers : Busy(v)' /\ work'[v].file = g
      BY <2>1 DEF AllTaken
    <3>1. CASE g = f
      <4>1. before[g].kind \in {"legacy", "short", "mixed"} /\ work[w].result = Process(cmd, before[g])
        BY <2>1, <2>4, <3>1 DEF Made
      <4> QED BY <1>a, <2>1, <2>6, <3>1, <4>1 DEF Done
    <3>2. CASE g # f
      <4>1. Done(g) \/ \E v \in Workers : Busy(v) /\ work[v].file = g
        BY <2>4 DEF AllTaken
      <4>2. Out(g) # Out(f)
        BY <1>b, <2>2, <3>2
      <4>3. Done(g) => Done(g)'
        BY <1>a, <2>1, <2>6, <4>2 DEF Done
      <4> QED BY <2>3, <3>2, <4>1, <4>3 DEF Becomes, Busy
    <3> QED BY <3>1, <3>2
  <2> QED BY <2>7, <2>8, <2>9, <2>10
<1>11. ASSUME NEW w \in Workers, WritePart(w) PROVE DoneInv'
  <2> DEFINE f == work[w].file
  <2>1. UNCHANGED <<cmd, files, before, queue, running, failed>> /\ running /\ work[w].step = "write"
    BY <1>11 DEF WritePart, At
  <2>2. f \in files \ queue /\ \A v \in Workers : Busy(v) /\ v # w => work[v].file # f /\ work[v].file \in files
    BY <2>1 DEF RunInv, Busy
  <2>3. Becomes(w, "rest", f, work[w].result)
    BY <1>11, PartLeaves DEF Shapes
  <2> SUFFICES ASSUME Apart(cmd, files) PROVE Untouched' /\ Made' /\ Ready' /\ AllTaken'
    BY <1>a, <2>1 DEF DoneInv
  <2>4. Untouched /\ Made /\ Ready /\ AllTaken
    BY <2>1 DEF DoneInv
  <2>5. PICK part \in Begun(work[w].result) : SetFile(Out(f), part)
    BY <1>11, <2>4, PartWrittenLeaves DEF Shapes
  <2>6. /\ DOMAIN disk' = DOMAIN disk \cup {Out(f)} /\ disk'[Out(f)] = part
        /\ \A p \in DOMAIN disk : p # Out(f) => disk'[p] = disk[p]
    BY <2>5, FileSet
  <2>7. Untouched'
    <3> SUFFICES ASSUME NEW g \in files, Unread(g)' PROVE disk'[g] = before[g]
      BY <2>1 DEF Untouched
    <3>1. Unread(g) /\ g # f
      BY <2>1, <2>2, <2>3 DEF Unread, Becomes, Busy
    <3>2. g # Out(f) /\ g \in DOMAIN disk
      BY <1>b, <2>2, <3>1 DEF Shapes
    <3> QED BY <2>4, <2>6, <3>1, <3>2 DEF Untouched
  <2>8. Made'
    BY <1>a, <2>1, <2>3, <2>4 DEF Made, Becomes
  <2>9. Ready'
    <3> SUFFICES ASSUME NEW v \in Workers, work'[v].step \in {"write", "rest"}
                 PROVE  /\ Out(work'[v].file) \in DOMAIN disk'
                        /\ work'[v].step = "write" => disk'[Out(work'[v].file)] = Empty
                        /\ work'[v].step = "rest" =>
                             disk'[Out(work'[v].file)] \in Begun(work'[v].result)
      BY <1>a, <2>1 DEF Ready
    <3>1. CASE v = w
      BY <2>3, <2>6, <3>1 DEF Becomes
    <3>2. CASE v # w
      <4>1. work'[v] = work[v] /\ work[v].file \in files /\ work[v].file # f
        BY <2>2, <2>3, <3>2 DEF Becomes, Busy
      <4>2. Out(work[v].file) # Out(f)
        BY <1>b, <2>2, <4>1
      <4> QED BY <2>4, <2>6, <4>1, <4>2 DEF Ready
    <3> QED BY <3>1, <3>2
  <2>10. AllTaken'
    <3> SUFFICES ASSUME ~failed, NEW g \in files \ queue
                 PROVE  Done(g)' \/ \E v \in Workers : Busy(v)' /\ work'[v].file = g
      BY <2>1 DEF AllTaken
    <3>1. CASE g = f
      BY <2>3, <3>1 DEF Becomes, Busy
    <3>2. CASE g # f
      <4>1. Done(g) \/ \E v \in Workers : Busy(v) /\ work[v].file = g
        BY <2>4 DEF AllTaken
      <4>2. Out(g) # Out(f)
        BY <1>b, <2>2, <3>2
      <4>3. Done(g) => Done(g)'
        BY <1>a, <2>1, <2>6, <4>2 DEF Done
      <4> QED BY <2>3, <3>2, <4>1, <4>3 DEF Becomes, Busy
    <3> QED BY <3>1, <3>2
  <2> QED BY <2>7, <2>8, <2>9, <2>10
<1>6. ASSUME NEW w \in Workers, FileFails(w) PROVE DoneInv'
  <2>1. UNCHANGED <<cmd, files, before, disk, queue, running>> /\ running /\ failed'
    BY <1>6 DEF FileFails, Writing, At
  <2>2. Becomes(w, "idle", <<>>, Empty)
    BY <1>6, EndLeaves DEF FileFails, Shapes
  <2> SUFFICES ASSUME Apart(cmd, files) PROVE Untouched' /\ Made' /\ Ready' /\ AllTaken'
    BY <1>a, <2>1 DEF DoneInv
  <2>3. Untouched /\ Made /\ Ready
    BY <2>1 DEF DoneInv
  <2>4. Untouched'
    BY <2>1, <2>2, <2>3 DEF Untouched, Unread, Becomes
  <2>5. Made' /\ Ready'
    BY <1>a, <2>1, <2>2, <2>3 DEF Made, Ready, Becomes
  <2> QED BY <2>1, <2>4, <2>5 DEF AllTaken
<1>7. CASE Finish
  <2>1. /\ UNCHANGED <<cmd, files, before, disk, failed>> /\ running /\ ~running'
        /\ (failed \/ queue = {}) /\ (result' = "ok" => ~failed) /\ \A w \in Workers : ~Busy(w)
    BY <1>7 DEF Finish, Idle, Busy
  <2> SUFFICES ASSUME Apart(cmd, files), ~failed, NEW f \in files PROVE Done(f)'
    BY <1>a, <2>1 DEF DoneInv
  <2>2. Done(f)
    BY <2>1 DEF DoneInv, AllTaken
  <2> QED BY <1>a, <2>1, <2>2 DEF Done
<1>8. CASE Crash
  BY <1>8 DEF Crash, DoneInv
<1>9. CASE UNCHANGED vars
  BY <1>9 DEF vars, DoneInv, Untouched, Unread, Made, Ready, AllTaken, Done, Out, Busy
<1>10. CASE AllRun
  BY <1>9, <1>10 DEF AllRun
<1> QED BY <1>1, <1>2, <1>3, <1>4, <1>5, <1>6, <1>7, <1>8, <1>9, <1>10, <1>11 DEF Next, Step

-----------------------------------------------------------------------------
(* CauseInv. *)
LEMMA CauseInit == Init => CauseInv /\ DoneInv /\ KeptInv
<1> SUFFICES ASSUME Init PROVE CauseInv /\ DoneInv /\ KeptInv
  OBVIOUS
<1>1. \A p \in DOMAIN disk : disk[p].kind \in {"legacy", "modern", "other"}
  BY ToolAssumption DEF Init, ToolAssumption
<1>2. ~running /\ result = "none" /\ origin = disk
  BY DEF Init
<1>3. AllWhole
  BY <1>2 DEF AllWhole, Whole, First
<1>4. CauseInv
  BY <1>1, <1>2, <1>3 DEF CauseInv, WereWhole, First, Init
<1>5. DoneInv
  BY <1>2 DEF DoneInv
<1>6. KeptInv
  BY <1>2 DEF KeptInv, OriginalsKept
<1> QED BY <1>4, <1>5, <1>6


LEMMA CauseStep == Shapes /\ RunInv /\ DoneInv /\ CauseInv /\ [Next]_vars => CauseInv'
<1> SUFFICES ASSUME Shapes, RunInv, DoneInv, CauseInv, [Next]_vars PROVE CauseInv'
  OBVIOUS
<1> USE DEF command
<1>o. UNCHANGED origin => \A p \in DOMAIN origin' : origin'[p].kind \in {"legacy", "modern", "other"}
  BY DEF CauseInv
(* A step of a command that runs. *)
<1>a. ASSUME UNCHANGED <<cmd, files, before, origin, clashed, running>>, running,
             Calm' => Calm, Calm /\ AllWhole => AllWhole', Calm /\ failed' => Cause
      PROVE  CauseInv'
  <2>1. (Cause' <=> Cause) /\ (Apart(cmd, files)' <=> Apart(cmd, files))
    BY <1>a DEF Cause, Apart
  <2>2. (Listed' <=> Listed) /\ (WereWhole' <=> WereWhole)
    BY <1>a DEF Listed, WereWhole, First
  <2> QED BY <1>a, <1>o, <2>1, <2>2 DEF CauseInv
<1>b. ASSUME UNCHANGED <<cmd, files, origin>>
      PROVE  /\ \A f : Out(f)' = Out(f)
             /\ \A p : disk'[p] = disk[p] => (First(disk, p)' <=> First(disk, p))
  BY <1>b DEF Out, First
<1>c. ASSUME running, Calm
      PROVE  Untouched /\ Made /\ Ready /\ Listed /\ WereWhole
  BY <1>c DEF DoneInv, CauseInv, Calm
<1>1. ASSUME NEW c \in Commands, Start(c) PROVE CauseInv'
  <2>1. /\ UNCHANGED <<disk, work, faults, origin>> /\ ~running /\ running'
        /\ ~failed' /\ before' = disk /\ (clashed' <=> clashed \/ ~Apart(c, files'))
    BY <1>1 DEF Start
  <2>2. Calm' => Calm
    BY <2>1 DEF Calm
  <2>3. Calm => \A p \in DOMAIN disk : disk[p].kind = "legacy" \/ First(disk, p)
    BY <2>1 DEF CauseInv, AllWhole, Whole, RunInv, Idle
  <2>4. Calm' => AllWhole' /\ WereWhole'
    BY <2>1, <2>2, <2>3 DEF AllWhole, Whole, WereWhole, First
  <2>5. Listed'
    <3>1. PICK seen \in SUBSET {p \in DOMAIN disk : Partial(disk[p])} :
            files' = List(c.root, seen)
      BY <1>1 DEF Start
    <3>2. \A f \in files' : Extension(f) = "bdat" \/ Detected(disk[f]) \/ Partial(disk[f])
      BY <3>1 DEF List
    <3> QED BY <2>1, <3>2 DEF Listed, Detected, Partial
  <2>6. ~clashed' => Apart(cmd, files)'
    <3>1. cmd' = c /\ Apart(cmd, files)' = Apart(cmd', files')
      BY <1>1 DEF Start, Apart
    <3> QED BY <2>1, <3>1
  <2> QED BY <1>o, <2>1, <2>4, <2>5, <2>6 DEF CauseInv
<1>2. ASSUME NEW w \in Workers, Take(w) PROVE CauseInv'
  <2>1. UNCHANGED <<cmd, files, before, origin, clashed, running, disk, failed, faults>>
        /\ running /\ work[w].step = "idle"
    BY <1>2 DEF Take, At
  <2>2. PICK f \in queue : queue' = queue \ {f} /\ Becomes(w, "read", f, Empty)
    BY <1>2, TakeLeaves DEF Shapes
  <2>3. Calm' => Calm
    BY <2>1 DEF Calm
  <2>4. AllWhole => AllWhole'
    BY <1>b, <2>1, <2>2 DEF AllWhole, Whole, Becomes
  <2>5. Calm /\ failed' => Cause
    BY <2>1 DEF CauseInv
  <2> QED BY <1>a, <2>1, <2>3, <2>4, <2>5
<1>3. ASSUME NEW w \in Workers, ReadFile(w) PROVE CauseInv'
  <2> DEFINE f == work[w].file
  <2>1. UNCHANGED <<cmd, files, before, origin, clashed, running, disk, faults>>
        /\ running /\ work[w].step = "read"
    BY <1>3 DEF ReadFile, At
  <2>2. \/ disk[f].kind # "legacy" /\ failed' /\ Becomes(w, "idle", <<>>, Empty)
        \/ failed' = failed /\ Becomes(w, "create", f, Process(cmd, disk[f]))
    BY <1>3, ReadLeaves DEF Shapes
  <2>3. Calm' => Calm
    BY <2>1 DEF Calm
  <2>4. AllWhole => AllWhole'
    BY <1>b, <2>1, <2>2 DEF AllWhole, Whole, Becomes
  <2>5. ASSUME Calm, failed' PROVE Cause
    <3>1. CASE failed' = failed
      BY <2>1, <2>5, <3>1 DEF CauseInv
    <3>2. CASE disk[f].kind # "legacy"
      <4>1. f \in files /\ f \in DOMAIN before /\ disk[f] = before[f]
        BY <1>c, <2>1, <2>5 DEF RunInv, Busy, Untouched, Unread, Shapes
      <4>2. f \in DOMAIN origin /\ disk[f] = origin[f]
        BY <1>c, <2>1, <2>5, <3>2, <4>1 DEF WereWhole, First
      <4>3. origin[f].kind \in {"modern", "other"}
        BY <3>2, <4>2 DEF CauseInv
      <4>4. origin[f].kind = "other" => Extension(f) = "bdat"
        BY <1>c, <2>1, <2>5, <4>1, <4>2 DEF Listed
      <4> QED BY <4>1, <4>2, <4>3, <4>4 DEF Cause
    <3> QED BY <2>2, <3>1, <3>2
  <2> QED BY <1>a, <2>1, <2>3, <2>4, <2>5
<1>4. ASSUME NEW w \in Workers, Create(w) PROVE CauseInv'
  <2> DEFINE f == work[w].file
             out == Out(f)
  <2>1. UNCHANGED <<cmd, files, before, origin, clashed, running, failed, faults>>
        /\ running /\ work[w].step = "create"
    BY <1>4 DEF Create, At
  <2>2. Becomes(w, "write", f, work[w].result)
    BY <1>4, CreateLeaves DEF Shapes
  <2>3. /\ DOMAIN disk' = DOMAIN disk \cup {out}
        /\ \A p \in DOMAIN disk : p # out => disk'[p] = disk[p]
    BY <1>4, FileSet DEF Create
  <2>4. Calm' => Calm
    BY <2>1 DEF Calm
  <2>5. ASSUME AllWhole PROVE AllWhole'
    <3> SUFFICES ASSUME NEW p \in DOMAIN disk' PROVE Whole(p)'
      BY DEF AllWhole
    <3>1. CASE p = out
      BY <1>b, <2>1, <2>2, <3>1 DEF Whole, Becomes
    <3>2. CASE p # out
      <4>1. Whole(p) /\ disk'[p] = disk[p]
        BY <2>3, <2>5, <3>2 DEF AllWhole
      <4> QED BY <1>b, <2>1, <2>2, <4>1 DEF Whole, Becomes
    <3> QED BY <3>1, <3>2
  <2>6. Calm /\ failed' => Cause
    BY <2>1 DEF CauseInv
  <2> QED BY <1>a, <2>1, <2>4, <2>5, <2>6
<1>5. ASSUME NEW w \in Workers, Write(w) PROVE CauseInv'
  <2> DEFINE f == work[w].file
             out == Out(f)
  <2>1. UNCHANGED <<cmd, files, before, origin, clashed, running, failed, faults>>
        /\ running /\ work[w].step \in {"write", "rest"}
    BY <1>5 DEF Write, Writing, At
  <2>2. Becomes(w, "idle", <<>>, Empty)
    BY <1>5, EndLeaves DEF Write, Shapes
  <2>3. Calm' => Calm
    BY <2>1 DEF Calm
  <2>4. ASSUME Calm, AllWhole PROVE AllWhole'
    <3>1. /\ DOMAIN disk' = DOMAIN disk \cup {out} /\ disk'[out] = work[w].result
          /\ \A p \in DOMAIN disk : p # out => disk'[p] = disk[p]
      <4>1. SetFile(out, work[w].result)
        BY <1>5, <1>c, <2>1, <2>4, WriteLeaves DEF Shapes
      <4> QED BY <4>1, FileSet
    <3>2. work[w].result.kind = "legacy"
      <4>1. f \in DOMAIN before /\ IsContent(before[f])
        BY <2>1 DEF RunInv, Busy, Shapes
      <4>2. work[w].result = Process(cmd, before[f]) /\ before[f].kind \in {"legacy", "short", "mixed"}
        BY <1>c, <2>1, <2>4 DEF Made
      <4>3. before[f].kind = "legacy"
        BY <1>c, <2>1, <2>4, <4>1, <4>2 DEF WereWhole, First, CauseInv
      <4> QED BY <4>1, <4>2, <4>3, Contents DEF Shapes
    <3> SUFFICES ASSUME NEW p \in DOMAIN disk' PROVE Whole(p)'
      BY DEF AllWhole
    <3>3. CASE p = out
      BY <3>1, <3>2, <3>3 DEF Whole
    <3>4. CASE p # out
      <4>1. Whole(p) /\ disk'[p] = disk[p]
        BY <2>4, <3>1, <3>4 DEF AllWhole
      <4> QED BY <1>b, <2>1, <2>2, <3>4, <4>1 DEF Whole, Becomes
    <3> QED BY <3>3, <3>4
  <2>5. Calm /\ failed' => Cause
    BY <2>1 DEF CauseInv
  <2> QED BY <1>a, <2>1, <2>3, <2>4, <2>5
<1>11. ASSUME NEW w \in Workers, WritePart(w) PROVE CauseInv'
  <2> DEFINE f == work[w].file
             out == Out(f)
  <2>1. UNCHANGED <<cmd, files, before, origin, clashed, running, failed, faults>>
        /\ running /\ work[w].step = "write"
    BY <1>11 DEF WritePart, At
  <2>2. Becomes(w, "rest", f, work[w].result)
    BY <1>11, PartLeaves DEF Shapes
  <2>3. /\ DOMAIN disk' = DOMAIN disk \cup {out}
        /\ \A p \in DOMAIN disk : p # out => disk'[p] = disk[p]
    <3>1. PICK c : SetFile(out, c)
      BY <1>11 DEF WritePart
    <3> QED BY <3>1, FileSet
  <2>4. Calm' => Calm
    BY <2>1 DEF Calm
  <2>5. ASSUME AllWhole PROVE AllWhole'
    <3> SUFFICES ASSUME NEW p \in DOMAIN disk' PROVE Whole(p)'
      BY DEF AllWhole
    <3>1. CASE p = out
      BY <1>b, <2>1, <2>2, <3>1 DEF Whole, Becomes
    <3>2. CASE p # out
      <4>1. Whole(p) /\ disk'[p] = disk[p]
        BY <2>3, <2>5, <3>2 DEF AllWhole
      <4> QED BY <1>b, <2>1, <2>2, <4>1 DEF Whole, Becomes
    <3> QED BY <3>1, <3>2
  <2>6. Calm /\ failed' => Cause
    BY <2>1 DEF CauseInv
  <2> QED BY <1>a, <2>1, <2>4, <2>5, <2>6
<1>6. ASSUME NEW w \in Workers, FileFails(w) PROVE CauseInv'
  <2>1. UNCHANGED <<cmd, files, before, origin, clashed, running>> /\ running /\ ~Calm'
    BY <1>6 DEF FileFails, Writing, At, Calm, Shapes
  <2>2. (Apart(cmd, files)' <=> Apart(cmd, files)) /\ (Listed' <=> Listed)
    BY <2>1 DEF Listed, Apart
  <2> QED BY <1>o, <2>1, <2>2 DEF CauseInv
<1>7. CASE Finish
  <2>1. /\ UNCHANGED <<cmd, files, before, disk, work, origin, clashed, faults>>
        /\ running /\ ~running' /\ (result' = "error" => failed)
    BY <1>7 DEF Finish
  <2>2. (Calm' <=> Calm) /\ (AllWhole' <=> AllWhole) /\ (Cause' <=> Cause)
        /\ (WereWhole' <=> WereWhole)
    BY <2>1 DEF Calm, AllWhole, Whole, WereWhole, First, Out, Cause
  <2> QED BY <1>o, <2>1, <2>2 DEF CauseInv
<1>8. CASE Crash
  <2>1. UNCHANGED origin /\ ~running' /\ ~Calm'
    BY <1>8 DEF Crash, Calm, Shapes
  <2> QED BY <1>o, <2>1 DEF CauseInv
<1>9. CASE UNCHANGED vars
  <2>1. (Calm' <=> Calm) /\ (AllWhole' <=> AllWhole) /\ (Cause' <=> Cause) /\ (Listed' <=> Listed)
        /\ (WereWhole' <=> WereWhole) /\ (Apart(cmd, files)' <=> Apart(cmd, files))
    BY <1>9 DEF vars, Calm, AllWhole, Whole, WereWhole, Listed, First, Out, Cause, Apart
  <2> QED BY <1>9, <1>o, <2>1 DEF vars, CauseInv
<1>10. CASE AllRun
  BY <1>9, <1>10 DEF AllRun
<1> QED BY <1>1, <1>2, <1>3, <1>4, <1>5, <1>6, <1>7, <1>8, <1>9, <1>10, <1>11 DEF Next, Step

-----------------------------------------------------------------------------
(* KeptInv. *)
LEMMA KeptStep == Shapes /\ RunInv /\ KeptInv /\ [Next]_vars => KeptInv'
<1> SUFFICES ASSUME Shapes, RunInv, KeptInv, [Next]_vars PROVE KeptInv'
  OBVIOUS
<1> USE DEF command
(* Only what a worker writes changes. *)
<1>a. ASSUME NEW w \in Workers, running, Busy(w), NEW content, SetFile(Out(work[w].file), content),
             UNCHANGED <<origin, outDirs, cmd, running>>
      PROVE  KeptInv'
  <2> DEFINE out == Out(work[w].file)
  <2>1. work[w].file \in files /\ files \subseteq Path /\ cmd \in Commands
    BY <1>a DEF RunInv, Shapes
  <2>2. NamedLikeOutput(out) \/ (cmd.outDir # NoDir /\ IsPrefix(cmd.outDir, out))
    BY <2>1, Outputs DEF Out
  <2>3. NamedLikeOutput(out) \/ \E d \in outDirs : IsPrefix(d, out)
    BY <1>a, <2>2 DEF KeptInv
  <2>4. /\ DOMAIN disk' = DOMAIN disk \cup {out}
        /\ \A p \in DOMAIN disk : p # out => disk'[p] = disk[p]
    BY <1>a, FileSet
  <2> HIDE DEF out
  <2>5. OriginalsKept'
    <3> SUFFICES ASSUME NEW p \in DOMAIN origin
                 PROVE  /\ p \in DOMAIN disk'
                        /\ disk'[p] # origin[p] => NamedLikeOutput(p) \/ \E d \in outDirs : IsPrefix(d, p)
      BY <1>a DEF OriginalsKept
    <3>1. CASE p = out
      BY <2>3, <2>4, <3>1
    <3>2. CASE p # out
      BY <2>4, <3>2 DEF KeptInv, OriginalsKept
    <3> QED BY <3>1, <3>2
  <2> QED BY <1>a, <2>5 DEF KeptInv
<1>1. ASSUME NEW c \in Commands, Start(c) PROVE KeptInv'
  <2>1. OriginalsKept'
    BY <1>1 DEF Start, KeptInv, OriginalsKept
  <2> QED BY <1>1, <2>1 DEF Start, KeptInv
<1>2. ASSUME NEW w \in Workers, Create(w) PROVE KeptInv'
  BY <1>2, <1>a DEF Create, At, Busy
<1>3. ASSUME NEW w \in Workers, Write(w) \/ WritePart(w) PROVE KeptInv'
  BY <1>3, <1>a DEF Write, Writing, WritePart, At, Busy
<1>4. ASSUME UNCHANGED <<disk, origin, outDirs, cmd>>, running' => running PROVE KeptInv'
  BY <1>4 DEF KeptInv, OriginalsKept
<1>5. ASSUME NEW w \in Workers, Take(w) \/ ReadFile(w) \/ FileFails(w) PROVE KeptInv'
  BY <1>4, <1>5 DEF Take, ReadFile, FileFails
<1>6. CASE Finish \/ Crash \/ AllRun \/ UNCHANGED vars
  BY <1>4, <1>6 DEF Finish, Crash, AllRun, vars
<1> QED BY <1>1, <1>2, <1>3, <1>5, <1>6 DEF Next, Step

-----------------------------------------------------------------------------
(* The inductive invariant holds. *)
LEMMA Invariant == Spec => []IInv
<1>1. Init => IInv
  BY ShapesInit, CauseInit DEF IInv
<1>2. IInv /\ [Next]_vars => IInv'
  BY ShapesStep, DoneStep, CauseStep, KeptStep DEF IInv
<1> QED BY <1>1, <1>2, PTL DEF Spec

(* A command that ends well has done all of its files, with all there was *)
(* of each, where it belongs, if their outputs are apart: in whatever      *)
(* order the threads of par_bridge came (src/toolset/src/scramble.rs), and *)
(* whatever commands before it left behind; and all of them were whole if  *)
(* nothing failed, was killed or clashed.                                  *)
THEOREM AllDone == Spec => []AllDoneIfApart
<1>1. IInv => AllDoneIfApart
  <2> SUFFICES ASSUME IInv, result = "ok", ~running, Apart(cmd, files), NEW f \in files
               PROVE  /\ before[f].kind \in {"legacy", "short", "mixed"}
                      /\ faults = 0 /\ ~clashed => before[f].kind = "legacy"
                      /\ Out(f) \in DOMAIN disk
                      /\ LET new == disk[Out(f)]
                         IN  /\ new.kind = before[f].kind /\ new.text = before[f].text
                             /\ Len(new.tables) = Len(before[f].tables)
                             /\ \A i \in DOMAIN new.tables : new.tables[i] = cmd.scramble
    BY DEF AllDoneIfApart
  <2>1. Done(f)
    BY DEF IInv, DoneInv
  <2>2. cmd \in Commands /\ f \in DOMAIN before /\ IsContent(before[f])
    BY DEF IInv, Shapes
  <2>3. ASSUME faults = 0, ~clashed PROVE before[f].kind = "legacy"
    <3>1. before[f].kind = "legacy" \/ First(before, f)
      BY <2>2, <2>3 DEF IInv, CauseInv, Calm, WereWhole
    <3>2. First(before, f) => before[f].kind \in {"legacy", "modern", "other"}
      BY DEF IInv, CauseInv, First
    <3> QED BY <2>1, <3>1, <3>2 DEF Done
  <2> QED BY <2>1, <2>2, <2>3, Contents DEF Done
<1> QED BY <1>1, Invariant, PTL

(* No false alarms: without a failure and without a clash, an error comes  *)
(* from a file that the user had there.                                    *)
THEOREM Causes == Spec => []ErrorsHaveCauses
<1>1. IInv => ErrorsHaveCauses
  BY DEF IInv, CauseInv, ErrorsHaveCauses, Cause, Calm
<1> QED BY <1>1, Invariant, PTL

(* The user's files survive all commands, failures and crashes.            *)
THEOREM Originals == Spec => []OriginalsKept
<1>1. IInv => OriginalsKept
  BY DEF IInv, KeptInv
<1> QED BY <1>1, Invariant, PTL
=============================================================================
