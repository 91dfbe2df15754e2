---------------------------- MODULE ScrambleTool ----------------------------
(***************************************************************************)
(* The scramble and unscramble commands on a directory: the files under a  *)
(* root are listed, and workers read them, change them in memory and write *)
(* the results, with other extensions beside them or with the same names   *)
(* into another directory.  Commands follow one another on one disk;       *)
(* reading and writing may fail, and a command may be killed, with a file  *)
(* written in part.                                                        *)
(*                                                                         *)
(* A path is a sequence of components, the last of which, the file name,   *)
(* is a sequence of parts between dots.  What scrambling does to the bytes *)
(* of a file is in LegacyFile; here a file holds a text, and each of its   *)
(* tables is scrambled or not.                                             *)
(***************************************************************************)
EXTENDS Integers, SequencesExt

CONSTANTS
  Disks,       \* the files there may be at first, from paths to contents
  Commands,    \* [scramble, root, outDir]; an outDir of NoDir is not given
  NoDir,
  Part,        \* what may stand between the dots of a file name
  Workers,     \* the threads of the pool
  Size(_),     \* the length of a file with a text
  MaxRuns, MaxFaults   \* bounds for TLC

(* kind: "legacy"; "modern"; "empty" for a file that was created; "short"  *)
(* for one written only up to somewhere in its last table, and "cut" for   *)
(* one that ends before the last table or in its header; "mixed" for one   *)
(* with parts of two, whose text and tables are those of the one written   *)
(* last; or "other".                                                       *)
Content(kind, text, tables) == [kind |-> kind, text |-> text, tables |-> tables]
Empty == Content("empty", 0, <<>>)
Cut(text) == Content("cut", text, <<>>)
Mix(content) == [content EXCEPT !.kind = "mixed"]

Name == Seq(Part) \ {<<>>}
Path == Seq(Name) \ {<<>>}
IsContent(x) == x = Content(x.kind, x.text, x.tables) /\ x.tables \in Seq(BOOLEAN)

ASSUME ToolAssumption ==
  /\ \A d \in Disks :
       /\ DOMAIN d \subseteq Path
       /\ \A p \in DOMAIN d :
            /\ IsContent(d[p]) /\ d[p].kind \in {"legacy", "modern", "other"}
            /\ d[p].kind = "legacy" => d[p].tables # <<>>
            /\ Size(d[p].text) \in Nat
  /\ {"bdat", "scrambled", "plain"} \subseteq Part /\ Commands # {}
  /\ \A c \in Commands : c.scramble \in BOOLEAN /\ c.outDir \in Seq(Name) \cup {NoDir}
  /\ MaxRuns \in Nat /\ MaxFaults \in Nat

VARIABLES
  disk,
  running,     \* a command is running
  cmd, files,  \* the last command and the files it listed
  queue,       \* the files that no worker has taken
  work,        \* what each worker is at: [step, file, result]
  failed,      \* some worker returned an error
  result,      \* how the last command ended
  runs, faults,    \* counters, up to MaxRuns and MaxFaults
  origin,      \* history: the files at first
  before,      \* history: the files when the command started
  clashed,     \* history: some command's outputs were not apart
  outDirs      \* history: the directories that commands were given

command == <<cmd, files, before, clashed, outDirs, origin>>
vars == <<disk, running, queue, work, failed, result, runs, faults, command>>

-----------------------------------------------------------------------------
(* InputData::list_files with BdatFileFilter: a file with another          *)
(* extension is taken if its version can be detected; of one that is not   *)
(* whole, enough may be there for it, or not.                              *)
Partial(content) == content.kind \in {"cut", "short", "mixed"}
Detected(content) == content.kind \in {"legacy", "modern"}
Extension(path) == IF Len(Last(path)) > 1 THEN Last(Last(path)) ELSE ""
ListAll(root, seen) == {p \in DOMAIN disk : IsPrefix(root, p)}
List(root, seen) ==
  {p \in DOMAIN disk :
     IsPrefix(root, p) /\ (Extension(p) = "bdat" \/ Detected(disk[p]) \/ p \in seen)}

(* get_common_denominator: how many components of the first path all       *)
(* paths start with.                                                       *)
CommonLength(paths) ==
  LET first == CHOOSE p \in paths : TRUE
  IN  Max({n \in 0..Len(first) : \A p \in paths : IsPrefix(SubSeq(first, 1, n), p)})

(* Path::with_extension replaces the part behind the last dot. *)
Stem(name) == IF Len(name) > 1 THEN Front(name) ELSE name
WithExtension(path, ext) == Front(path) \o <<Stem(Last(path)) \o ext>>

NewExtension(c) == IF c.scramble THEN <<"scrambled", "bdat">> ELSE <<"plain", "bdat">>

(* out_file_name: below the directory given, at the place the file has     *)
(* below the common path; of a single file only the name is left.          *)
OutAbsolute(c, paths, f) == IF c.outDir = NoDir THEN WithExtension(f, NewExtension(c)) ELSE f
OutOf(c, paths, f) ==
  IF c.outDir = NoDir THEN WithExtension(f, NewExtension(c))
  ELSE LET n == CommonLength(paths)
       IN  c.outDir \o (IF n = Len(f) THEN <<Last(f)>> ELSE SubSeq(f, n + 1, Len(f)))
Out(f) == OutOf(cmd, files, f)

(* history: no two files are written to one, and none is written over      *)
(* another that is yet to be read.                                         *)
Apart(c, fs) ==
  \A f, g \in fs : f # g => OutOf(c, fs, f) # OutOf(c, fs, g) /\ OutOf(c, fs, f) # g

(* scramble_file, unscramble_file: tables that are as they should be are   *)
(* skipped.                                                                *)
FlipTables(c, content) == [content EXCEPT !.tables = [i \in DOMAIN @ |-> ~@[i]]]
Process(c, content) == [content EXCEPT !.tables = [i \in DOMAIN @ |-> c.scramble]]

-----------------------------------------------------------------------------
Idle == [step |-> "idle", file |-> <<>>, result |-> Empty]

Init ==
  /\ disk \in Disks /\ origin = disk /\ before = disk
  /\ running = FALSE /\ cmd \in {CHOOSE c \in Commands : TRUE} /\ files = {} /\ queue = {}
  /\ work = [w \in Workers |-> Idle]
  /\ failed = FALSE /\ result = "none" /\ runs = 0 /\ faults = 0
  /\ clashed = FALSE /\ outDirs = {}

Start(c) ==
  /\ ~running /\ runs < MaxRuns
  /\ running' = TRUE /\ cmd' = c /\ runs' = runs + 1
  /\ \E seen \in SUBSET {p \in DOMAIN disk : Partial(disk[p])} : files' = List(c.root, seen)
  /\ queue' = files' /\ before' = disk
  /\ failed' = FALSE
  /\ clashed' = (clashed \/ ~Apart(c, files'))
  /\ outDirs' = outDirs \cup ({c.outDir} \ {NoDir})
  /\ UNCHANGED <<disk, work, result, faults, origin>>

At(w, step) == running /\ work[w].step = step

(* An idle worker takes a file, as long as no error was found. *)
Take(w) ==
  /\ At(w, "idle") /\ ~failed
  /\ \E f \in queue :
       /\ queue' = queue \ {f}
       /\ work' = [work EXCEPT ![w] = [Idle EXCEPT !.step = "read", !.file = f]]
  /\ UNCHANGED <<disk, running, failed, result, runs, faults, command>>

(* A file that is not a legacy one, or ends before the last table, is an   *)
(* error or a panic.  One that ends in the last table is not, if that      *)
(* table is skipped, or all that was to be changed of it is there; nor     *)
(* need it be one that is mixed of two.                                    *)
ReadFile(w) ==
  /\ At(w, "read")
  /\ LET content == disk[work[w].file]
     IN  \/ /\ content.kind # "legacy"
            /\ failed' = TRUE
            /\ work' = [work EXCEPT ![w] = Idle]
         \/ /\ content.kind \in {"legacy", "short", "mixed"}
            /\ work' = [work EXCEPT ![w].step = "create", ![w].result = Process(cmd, content)]
            /\ UNCHANGED failed
  /\ UNCHANGED <<disk, running, queue, result, runs, faults, command>>

SetFile(path, content) ==
  disk' = [p \in DOMAIN disk \cup {path} |-> IF p = path THEN content ELSE disk[p]]

(* std::fs::write: the file is created, or truncated if it exists... *)
Create(w) ==
  /\ At(w, "create")
  /\ SetFile(Out(work[w].file), Empty)
  /\ work' = [work EXCEPT ![w].step = "write"]
  /\ UNCHANGED <<running, queue, failed, result, runs, faults, command>>

(* ...and written from its start, at once or in parts, whatever another    *)
(* worker has written to it in between.                                    *)
Begun(new) == {Cut(new.text), [new EXCEPT !.kind = IF @ = "legacy" THEN "short" ELSE @]}
BothWhole(there, new) == there.kind = "legacy" /\ new.kind = "legacy"
Covers(there, new) ==
  \/ there \in Begun(new) \cup {Empty}
  \/ BothWhole(there, new) /\ Size(there.text) <= Size(new.text)
Outlasts(there, new) == BothWhole(there, new) /\ Size(there.text) > Size(new.text)
PartWritten(there, new) == IF there = Empty THEN Begun(new) ELSE {Mix(new)}
Written(there, new) ==
  {c \in {new, Mix(new)} :
     /\ Covers(there, new) => c = new
     /\ Outlasts(there, new) => c = Mix(new)}

Writing(w) == At(w, "write") \/ At(w, "rest")
WritePart(w) ==
  /\ At(w, "write")
  /\ LET out == Out(work[w].file)
     IN  \E c \in PartWritten(disk[out], work[w].result) : SetFile(out, c)
  /\ work' = [work EXCEPT ![w].step = "rest"]
  /\ UNCHANGED <<running, queue, failed, result, runs, faults, command>>
Write(w) ==
  /\ Writing(w)
  /\ LET out == Out(work[w].file)
     IN  \E c \in Written(disk[out], work[w].result) : SetFile(out, c)
  /\ work' = [work EXCEPT ![w] = Idle]
  /\ UNCHANGED <<running, queue, failed, result, runs, faults, command>>

(* A file cannot be read, a directory or a file not created, or the disk   *)
(* is full.                                                                *)
FileFails(w) ==
  /\ At(w, "read") \/ At(w, "create") \/ Writing(w)
  /\ faults < MaxFaults /\ faults' = faults + 1
  /\ failed' = TRUE
  /\ work' = [work EXCEPT ![w] = Idle]
  /\ UNCHANGED <<disk, running, queue, result, runs, command>>

(* find_any has an error, or there is nothing left to do. *)
Finish ==
  /\ running /\ \A w \in Workers : work[w] = Idle
  /\ failed \/ queue = {}
  /\ running' = FALSE
  /\ result' = IF failed THEN "error" ELSE "ok"
  /\ UNCHANGED <<disk, queue, work, failed, runs, faults, command>>

Crash ==
  /\ running /\ faults < MaxFaults /\ faults' = faults + 1
  /\ running' = FALSE /\ result' = "crashed"
  /\ work' = [w \in Workers |-> Idle]
  /\ UNCHANGED <<disk, queue, failed, runs, command>>

AllRun == ~running /\ runs = MaxRuns /\ UNCHANGED vars

Step(w) == Take(w) \/ ReadFile(w) \/ Create(w) \/ WritePart(w) \/ Write(w)
Next ==
  \/ \E c \in Commands : Start(c)
  \/ \E w \in Workers : Step(w) \/ FileFails(w)
  \/ Finish
  \/ Crash
  \/ AllRun

Spec == Init /\ [][Next]_vars
-----------------------------------------------------------------------------
(* Properties. *)

(* A command that succeeds has left every file it listed where it should   *)
(* be, as much of it as there was, with all of its tables (un)scrambled,   *)
(* whatever the workers' order and what earlier commands left behind; if   *)
(* the names it writes keep the files apart.  And all of it was there, as  *)
(* long as no file could not be read or written, no command was killed and *)
(* no outputs clashed: else a file that ends in its last table may be      *)
(* taken for a whole one and copied as it is.                              *)
AllDoneIfApart ==
  (result = "ok" /\ ~running /\ Apart(cmd, files)) =>
    \A f \in files :
      /\ before[f].kind \in {"legacy", "short", "mixed"}
      /\ faults = 0 /\ ~clashed => before[f].kind = "legacy"
      /\ Out(f) \in DOMAIN disk
      /\ LET new == disk[Out(f)]
         IN  /\ new.kind = before[f].kind /\ new.text = before[f].text
             /\ Len(new.tables) = Len(before[f].tables)
             /\ \A i \in DOMAIN new.tables : new.tables[i] = cmd.scramble

(* A command reports an error only if there is a cause for it: a file the  *)
(* user had there that is modern, or by its extension a table but nothing  *)
(* that can be read; a file that could not be read or written, or a        *)
(* command that was killed, then or earlier; or workers that got in each   *)
(* other's way.  What a command writes, another one can read.              *)
ErrorsHaveCauses ==
  (result = "error" /\ ~running /\ faults = 0 /\ ~clashed) =>
    \E f \in files \cap DOMAIN origin :
      \/ origin[f].kind = "modern"
      \/ origin[f].kind = "other" /\ Extension(f) = "bdat"

(* The files a user started with stay as they are, through any sequence of *)
(* commands, failures and crashes, but for those in a directory that was   *)
(* given for the output, and those named like an output.                   *)
NamedLikeOutput(p) ==
  Len(Last(p)) > 2 /\ SubSeq(Last(p), Len(Last(p)) - 1, Len(Last(p)))
                        \in {<<"scrambled", "bdat">>, <<"plain", "bdat">>}
OriginalsKept ==
  \A p \in DOMAIN origin :
    /\ p \in DOMAIN disk
    /\ disk[p] # origin[p] => NamedLikeOutput(p) \/ \E d \in outDirs : IsPrefix(d, p)
=============================================================================
