------------------------------- MODULE Convert -------------------------------
(***************************************************************************)
(* The extract and pack commands of the toolset (convert/mod.rs).  Extract *)
(* has workers that each take a file of tables, write a JSON file for each *)
(* of its tables, and then the schema, which lists them.  Pack has workers *)
(* that each take a schema, read the tables it finds, and write a file of  *)
(* tables.  When one of them fails, none takes another file, and the       *)
(* command fails once those at work are done.                              *)
(*                                                                         *)
(* A file is created, or truncated, and is torn until it is written.  JSON *)
(* files and schemas are written through a buffer: what is larger goes out *)
(* in several writes, each where the worker's last one ended, also when    *)
(* another worker writes the same file.  Between two commands the user may *)
(* edit a JSON file.                                                       *)
(***************************************************************************)
EXTENDS JsonEdits, PackedRows, Functions

CONSTANTS
  Dumps,         \* the files of tables, by file: version, stem, tables; the
                 \*   stem is the path relative to the others', no extension
  Options,       \* arguments of extract: untyped, noSchema, only (--tables)
  Large(_),      \* whether a content is larger than the buffer
  Jobs,          \* size of the thread pool
  MaxCommands,   \* bounds for TLC: commands the user gives, and
  MaxFaults      \*   input and output errors, crashes and edits

ASSUME ConvertAssumption ==
  \A d \in Dumps : \A f \in DOMAIN d :
    /\ d[f].version \in {"Modern", "Legacy"} /\ IsSequence(d[f].tables)
    /\ \A i \in DOMAIN d[f].tables :
         LET t == d[f].tables[i]
         IN  /\ IsTable(t, d[f].version)
             /\ \A c \in DOMAIN t.cols :
                  Name(ConvertAll(t, d[f].version), c) \notin {NoName, Unknown}

VARIABLES
  dump,
  disk,        \* the files written, by path
  cmd,         \* the command that runs, or "idle"
  options,     \* of the last extract
  todo,        \* files, or stems of schemas, that no worker has taken
  work,        \* what the workers have at hand, by file or stem
  error,       \* find_any has found an error
  last, result,   \* the command, or edit, that ended last, and how
  edit,        \* history: path, row and column of the edit that is on disk
  extracted,   \* how the last extract ended
  extracts, commands, faults

vars == <<dump, disk, cmd, options, todo, work, error, last, result, edit, extracted,
          extracts, commands, faults>>

Files == DOMAIN dump
JsonPath(stem, name) == <<"json", stem, name>>
SchemaPath(stem) == <<"schema", stem>>
BdatPath(stem) == <<"bdat", stem>>

(* What a file holds that is not whole: nothing, the beginning of what the *)
(* worker of f writes, a whole content with the rest of another behind it, *)
(* or what came of the writes of several workers.                          *)
Torn == [kind |-> "torn"]
Part(f) == [kind |-> "part", of |-> f]
Trailing == [kind |-> "trailing"]
Mixed == [kind |-> "mixed"]
Empty == [u \in {} |-> {}]
NoEdit == [path |-> <<>>, row |-> 0, name |-> NoName]

Table(f, n) == ConvertAll(dump[f].tables[n], dump[f].version)

(* Filter::contains. *)
Selected(t) == options.only = {} \/ LabelHash(t.name) \in options.only

With(map, key, val) == [k \in DOMAIN map \cup {key} |-> IF k = key THEN val ELSE map[k]]
Write(path, content) == disk' = With(disk, path, content)

(* A write that is not the last one, the last of several, and an only one, *)
(* at the start of a file that others may have written since it was made.  *)
AfterPart(f, old, first) ==
  IF old = Part(f) \/ (old = Torn /\ first) THEN {Part(f)} ELSE {Mixed}
AfterRest(f, old, content) == IF old = Part(f) THEN {content} ELSE {Mixed, content}
AfterOnlyUnbuffered(old, content) == IF old = Torn THEN {content} ELSE {content, Mixed}
AfterOnly(old, content) == IF old \in {Torn, content} THEN {content} ELSE {content, Trailing}
Set(u, rec) == work' = With(work, u, rec)
Done(u) == work' = Restrict(work, DOMAIN work \ {u})
FailUnseen(u) == Done(u) /\ UNCHANGED error
Fail(u) == Done(u) /\ error' = TRUE
Fault == faults < MaxFaults /\ faults' = faults + 1

Init ==
  /\ dump \in Dumps
  /\ disk = Empty /\ work = Empty /\ todo = {}
  /\ cmd = "idle" /\ options \in Options
  /\ error = FALSE /\ last = "none" /\ result = "none" /\ edit = NoEdit
  /\ extracted = "none"
  /\ extracts = 0 /\ commands = 0 /\ faults = 0

StartExtract ==
  /\ cmd = "idle" /\ commands < MaxCommands
  /\ cmd' = "extract" /\ options' \in Options
  /\ todo' = Files /\ error' = FALSE
  /\ extracted' = "none"
  /\ extracts' = extracts + 1 /\ commands' = commands + 1
  /\ UNCHANGED <<dump, disk, work, last, result, edit, faults>>

(* Without any schema pack fails at once. *)
Schemas == {dump[f].stem : f \in {g \in Files : SchemaPath(dump[g].stem) \in DOMAIN disk}}
StartPack ==
  /\ cmd = "idle" /\ commands < MaxCommands
  /\ todo' = Schemas /\ error' = FALSE
  /\ IF Schemas = {} THEN last' = "pack" /\ result' = "error" /\ UNCHANGED cmd
     ELSE cmd' = "pack" /\ UNCHANGED <<last, result>>
  /\ commands' = commands + 1
  /\ UNCHANGED <<dump, disk, options, work, edit, extracted, extracts, faults>>

WorkerFree == Cardinality(DOMAIN work) < Jobs
Take(u) ==
  /\ u \in todo /\ ~error /\ WorkerFree
  /\ todo' = todo \ {u}

(* A file that cannot be read or parsed is an error. *)
Opened == [pc |-> "create", n |-> 1, listed |-> <<>>, begun |-> FALSE]
TakeFile(f) ==
  /\ cmd = "extract" /\ Take(f)
  /\ \/ Set(f, Opened) /\ UNCHANGED <<error, faults>>
     \/ Fault /\ error' = TRUE /\ UNCHANGED work
  /\ UNCHANGED <<dump, disk, cmd, options, last, result, edit, extracted, extracts,
                 commands>>

At(f, pc) == cmd = "extract" /\ f \in DOMAIN work /\ work[f].pc = pc
TablePath(f) == JsonPath(dump[f].stem, FileName(Table(f, work[f].n).name))

Json(t, typed) == [kind |-> "json", json |-> ToJson(t, typed)]
Schema(f, texts) == [kind |-> "schema", version |-> dump[f].version, tables |-> texts]
Content(f) ==
  IF work[f].pc = "write" THEN Json(Table(f, work[f].n), ~options.untyped)
  ELSE Schema(f, work[f].listed)
Target(f) == IF work[f].pc = "write" THEN TablePath(f) ELSE SchemaPath(dump[f].stem)

WritePart(f) ==
  /\ At(f, "write") \/ At(f, "schema")
  /\ Large(Content(f))
  /\ \E new \in AfterPart(f, disk[Target(f)], ~work[f].begun) : Write(Target(f), new)
  /\ Set(f, [work[f] EXCEPT !.begun = TRUE])
  /\ UNCHANGED <<dump, cmd, options, todo, error, last, result, edit, extracted,
                 extracts, commands, faults>>

(* The last write, or the only one. *)
WriteRest(f) ==
  LET old == disk[Target(f)]
  IN  /\ Large(Content(f)) => work[f].begun
      /\ \E new \in (IF work[f].begun THEN AfterRest(f, old, Content(f))
                     ELSE AfterOnly(old, Content(f))) : Write(Target(f), new)

(* All tables go into the schema, only those that are asked for are written. *)
CreateTable(f) ==
  /\ At(f, "create") /\ work[f].n <= Len(dump[f].tables)
  /\ LET t == Table(f, work[f].n)
         w == [work[f] EXCEPT !.listed = Append(@, LabelText(t.name))]
     IN  IF Selected(t)
         THEN /\ Write(TablePath(f), Torn)
              /\ edit' = IF edit.path = TablePath(f) THEN NoEdit ELSE edit
              /\ Set(f, [w EXCEPT !.pc = "write", !.begun = FALSE])
         ELSE Set(f, [w EXCEPT !.n = @ + 1]) /\ UNCHANGED <<disk, edit>>
  /\ UNCHANGED <<dump, cmd, options, todo, error, last, result, extracted,
                 extracts, commands, faults>>

(* Once it is written, the buffer is flushed, and an error is returned. *)
WriteTable(f) ==
  /\ At(f, "write")
  /\ WriteRest(f)
  /\ Set(f, [work[f] EXCEPT !.pc = "create", !.n = @ + 1])
  /\ UNCHANGED <<dump, cmd, options, todo, error, last, result, edit, extracted,
                 extracts, commands, faults>>

AnyTime(f) == TRUE
TablesWritten(f) == work[f].n > Len(dump[f].tables)
CreateSchema(f) ==
  /\ At(f, "create") /\ TablesWritten(f)
  /\ IF options.noSchema THEN Done(f) /\ UNCHANGED disk
     ELSE /\ Write(SchemaPath(dump[f].stem), Torn)
          /\ Set(f, [work[f] EXCEPT !.pc = "schema", !.begun = FALSE])
  /\ UNCHANGED <<dump, cmd, options, todo, error, last, result, edit, extracted,
                 extracts, commands, faults>>

(* The buffer of the schema is dropped unflushed, so that an error of the  *)
(* last write passes unnoticed, where one of an earlier write panics.      *)
WriteSchema(f) ==
  /\ At(f, "schema")
  /\ \/ WriteRest(f) /\ UNCHANGED faults
     \/ (Large(Content(f)) => work[f].begun) /\ Fault /\ UNCHANGED disk
  /\ Done(f)
  /\ UNCHANGED <<dump, cmd, options, todo, error, last, result, edit, extracted,
                 extracts, commands>>

(* A directory or a file that cannot be made or opened, and a write that   *)
(* fails, end the work on a file.  What is left in the buffer of a JSON    *)
(* file may still be written when it is dropped.                           *)
ExtractFails(f) ==
  /\ \/ At(f, "create") /\ UNCHANGED disk
     \/ At(f, "write") /\ (WriteRest(f) \/ UNCHANGED disk)
     \/ At(f, "schema") /\ Large(Content(f)) /\ UNCHANGED disk
  /\ Fault /\ Fail(f)
  /\ UNCHANGED <<dump, cmd, options, todo, last, result, edit, extracted, extracts,
                 commands>>

(* find_table_files: for the listed tables, and the name of the file, the  *)
(* files there are.                                                        *)
Found(stem) ==
  LET texts == Append(disk[SchemaPath(stem)].tables, stem)
      label(i) == Parse(texts[i], FALSE)
  IN  FlattenSeq([i \in DOMAIN texts |->
        IF JsonPath(stem, FileName(label(i))) \in DOMAIN disk THEN <<label(i)>> ELSE <<>>])

(* Of a mixed file there may come a table that is nobody's.  (One without  *)
(* rows has 1 for a base id.)                                              *)
Nobodys(label) == [name |-> label, base |-> 0, cols |-> <<>>, rows |-> <<>>]
Packed(stem, found) ==
  LET version == disk[SchemaPath(stem)].version
      file(i) == disk[JsonPath(stem, FileName(found[i]))]
      label(i) == IntoHash(found[i], version)
  IN  [i \in DOMAIN found |->
         IF file(i) = Mixed THEN Nobodys(label(i)) ELSE FromJson(file(i).json, label(i), version)]

Broken(content) == content.kind \in {"torn", "part", "trailing"}
Unreadable(stem, found) ==
  \E i \in DOMAIN found :
    LET file == disk[JsonPath(stem, FileName(found[i]))]
        version == disk[SchemaPath(stem)].version
    IN  \/ Broken(file)
        \/ file.kind = "json" /\ Refused(file.json, IntoHash(found[i], version), version)

(* Mixed files, and a mixed schema, may be refused. *)
ReadTables(stem, found) ==
  LET doubtful == \E i \in DOMAIN found : disk[JsonPath(stem, FileName(found[i]))] = Mixed
  IN  \/ /\ ~Unreadable(stem, found)
         /\ Set(stem, [pc |-> "create", tables |-> Packed(stem, found)])
         /\ UNCHANGED <<error, faults>>
      \/ /\ ~Unreadable(stem, found) => doubtful
         /\ error' = TRUE /\ UNCHANGED <<work, faults>>
ReadByMixed(stem) ==
  /\ \/ Set(stem, [pc |-> "create", tables |-> <<Nobodys(String(stem))>>]) /\ UNCHANGED error
     \/ error' = TRUE /\ UNCHANGED work
  /\ UNCHANGED faults

TakeSchema(stem) ==
  /\ cmd = "pack" /\ Take(stem)
  /\ LET schema == disk[SchemaPath(stem)]
     IN  \/ schema = Mixed /\ ReadByMixed(stem)
         \/ schema.kind = "schema" /\ (\E found \in {Found(stem)} : ReadTables(stem, found))
         \/ Broken(schema) /\ error' = TRUE /\ UNCHANGED <<work, faults>>
         \/ Fault /\ error' = TRUE /\ UNCHANGED work
  /\ UNCHANGED <<dump, disk, cmd, options, last, result, edit, extracted, extracts,
                 commands>>

AtPack(stem, pc) == cmd = "pack" /\ stem \in DOMAIN work /\ work[stem].pc = pc
CreateBdat(stem) ==
  /\ AtPack(stem, "create")
  /\ Write(BdatPath(stem), Torn)
  /\ Set(stem, [work[stem] EXCEPT !.pc = "write"])
  /\ UNCHANGED <<dump, cmd, options, todo, error, last, result, edit, extracted,
                 extracts, commands, faults>>

(* Rows of another size, if it is noticed, are a panic. *)
Bdat(tables) == [kind |-> "bdat", tables |-> tables]
BdatOf(tables) == Bdat([i \in DOMAIN tables |-> Written(tables[i])])
SizesNoticed(tables) == \E i \in DOMAIN tables : SizeNoticed(tables[i])
WriteBdat(stem) ==
  /\ AtPack(stem, "write")
  /\ IF SizesNoticed(work[stem].tables) THEN Fail(stem) /\ UNCHANGED disk
     ELSE Write(BdatPath(stem), BdatOf(work[stem].tables)) /\ Done(stem) /\ UNCHANGED error
  /\ UNCHANGED <<dump, cmd, options, todo, last, result, edit, extracted, extracts,
                 commands, faults>>

PackFails(stem) ==
  /\ AtPack(stem, "create") \/ AtPack(stem, "write")
  /\ Fault /\ Fail(stem)
  /\ UNCHANGED <<dump, disk, cmd, options, todo, last, result, edit, extracted, extracts,
                 commands>>

AllTaken == todo = {}
Over == todo = {} \/ error
Finish ==
  /\ cmd # "idle" /\ work = Empty /\ Over
  /\ result' = IF error THEN "error" ELSE "ok"
  /\ last' = cmd /\ cmd' = "idle" /\ todo' = {}
  /\ extracted' = IF cmd = "extract" THEN result' ELSE extracted
  /\ UNCHANGED <<dump, disk, options, work, error, edit, extracts, commands, faults>>

Crash ==
  /\ cmd # "idle" /\ Fault
  /\ cmd' = "idle" /\ last' = cmd /\ result' = "killed" /\ work' = Empty /\ todo' = {}
  /\ UNCHANGED <<dump, disk, options, error, edit, extracted, extracts, commands>>

(* The user edits a table that was extracted with its types. *)
Edit(path) ==
  /\ cmd = "idle" /\ commands < MaxCommands /\ edit = NoEdit /\ Fault
  /\ disk[path].kind = "json" /\ disk[path].json.typed
  /\ \E e \in Edits(disk[path].json) :
       /\ Write(path, [disk[path] EXCEPT !.json = e.json])
       /\ edit' = [path |-> path, row |-> e.row, name |-> e.name]
  /\ last' = "edit" /\ result' = "none"
  /\ UNCHANGED <<dump, cmd, options, todo, work, error, extracted, extracts, commands>>

Extract(f) ==
  \/ TakeFile(f) \/ CreateTable(f) \/ CreateSchema(f)
  \/ WritePart(f) \/ WriteTable(f) \/ WriteSchema(f) \/ ExtractFails(f)
Pack(stem) == TakeSchema(stem) \/ CreateBdat(stem) \/ WriteBdat(stem) \/ PackFails(stem)
Step ==
  \/ \E f \in Files : Extract(f) \/ Pack(dump[f].stem)
  \/ Finish
Next ==
  \/ StartExtract \/ StartPack \/ Step \/ Crash
  \/ \E path \in DOMAIN disk : Edit(path)

Spec == Init /\ [][Next]_vars /\ WF_vars(Step)
-----------------------------------------------------------------------------
(* Properties. *)

(* What should come of a table: its labels, rows and ids, but of columns   *)
(* of one name the last one's values, and no base id without rows.         *)
LastTwin(t, i) == Max({j \in DOMAIN t.cols : t.cols[j].label = t.cols[i].label})
KeptRow(t, row) == [i \in DOMAIN t.cols |-> row[LastTwin(t, i)]]
Kept(t) ==
  [name |-> t.name, base |-> IF t.rows = <<>> THEN 1 ELSE t.base, cols |-> t.cols,
   rows |-> [r \in DOMAIN t.rows |-> KeptRow(t, t.rows[r])]]
KeptOf(f) == {Kept(t) : t \in Range(dump[f].tables)}
KeptOfAsked(f) == {Kept(t) : t \in {u \in Range(dump[f].tables) : Selected(u)}}

(* Tables that get files of their own: no two of one file name, none named *)
(* as its file, which is looked for twice, and none with a name that reads *)
(* as a hash.  And that can be told from their JSON: no column of a modern *)
(* one has such a name, columns of one name have the same flags and the    *)
(* same room, and flags names of their own.                                *)
TablesSeparate(f) ==
  /\ \A i, j \in DOMAIN dump[f].tables :
       i # j => FileName(Table(f, i).name) # FileName(Table(f, j).name)
  /\ \A i \in DOMAIN dump[f].tables :
       LET t == Table(f, i)
       IN  /\ FileName(t.name) # FileName(Parse(dump[f].stem, FALSE))
           /\ Parse(LabelText(t.name), FALSE) = t.name
           /\ \A c \in DOMAIN t.cols :
                /\ dump[f].version = "Modern" => Parse(Name(t, c), FALSE) = t.cols[c].label
                /\ \A d \in DOMAIN t.cols :
                     t.cols[c].label = t.cols[d].label =>
                       t.cols[c].flags = t.cols[d].flags /\ t.cols[c].count = t.cols[d].count
                /\ IsInjective(t.cols[c].flags)

(* And files of a stem of their own: a.bdat and a.bin are both input.      *)
Mates(f) == {g \in Files : dump[g].stem = dump[f].stem}
Alone(f) == Mates(f) = {f}
Separate(f) == TablesSeparate(f) /\ Alone(f)

(* Or, where they share it, of one version and with one label for a name.  *)
MatesSeparate(f) ==
  \A g, h \in Mates(f) :
    /\ TablesSeparate(g) /\ dump[g].version = dump[h].version
    /\ \A i \in DOMAIN dump[g].tables, j \in DOMAIN dump[h].tables :
         FileName(Table(g, i).name) = FileName(Table(h, j).name) =>
           Table(g, i).name = Table(h, j).name

PackedTables(f) == disk[BdatPath(dump[f].stem)].tables
Whole(f) ==
  /\ KeptOfAsked(f) \subseteq Range(PackedTables(f))
  /\ Range(PackedTables(f)) \subseteq KeptOf(f)
  /\ Len(PackedTables(f)) = Cardinality(Range(PackedTables(f)))

PackedFile(f) ==
  BdatPath(dump[f].stem) \in DOMAIN disk /\ disk[BdatPath(dump[f].stem)] # Torn

(* If there was one extract, then wherever it failed or was killed, and    *)
(* whatever pack was given of its output: a file that pack has written     *)
(* has each of the tables that were asked for, once and whole.  (A schema  *)
(* is there only after all of its tables.)                                 *)
NothingTorn ==
  (extracts = 1 /\ edit = NoEdit) =>
    \A f \in Files : PackedFile(f) /\ Separate(f) => Whole(f)

(* Of input files with one stem, whose workers write into one directory    *)
(* and one schema, tables may be lost, even if all commands succeed; but   *)
(* pack makes a table that is none of theirs only of a JSON file that two  *)
(* of them write, one in several writes, or by a schema written so.  Where *)
(* one worker has written a file that fits the buffer over what another    *)
(* was writing, it is refused.                                             *)
LargeTable(g, i) == \E typed \in BOOLEAN : Large(Json(Table(g, i), typed))
SpoiltTable(f, t) ==
  \E g, h \in Mates(f) : \E i \in DOMAIN dump[g].tables, j \in DOMAIN dump[h].tables :
    /\ g # h /\ dump[g].tables[i].name = t.name
    /\ FileName(Table(g, i).name) = FileName(Table(h, j).name)
    /\ LargeTable(g, i) \/ LargeTable(h, j)
SpoiltSchema(f) ==
  \E g \in Mates(f) :
    Large(Schema(g, [i \in DOMAIN dump[g].tables |-> LabelText(Table(g, i).name)]))
NeverMixed ==
  (extracts = 1 /\ edit = NoEdit) =>
    \A f \in Files :
      (~Alone(f) /\ PackedFile(f) /\ MatesSeparate(f)) =>
        \A t \in Range(PackedTables(f)) :
          t \in UNION {KeptOf(g) : g \in Mates(f)} \/ SpoiltTable(f, t) \/ SpoiltSchema(f)

(* An extract with schemas and a pack that both report success leave a     *)
(* whole file for every input file, whatever extracts and packs failed or  *)
(* were killed in the same directory before.                               *)
PackedAsExtracted ==
  (/\ cmd = "idle" /\ last = "pack" /\ result = "ok" /\ edit = NoEdit
   /\ extracted = "ok" /\ ~options.noSchema) =>
    \A f \in Files : Separate(f) => PackedFile(f) /\ Whole(f)

(* An edit of a row or a cell stays one: in the file that pack makes of    *)
(* it, every other row that is still there has its cells, and the edited   *)
(* one those of the other columns; with their ids, as far as the ids in    *)
(* the file follow one another.  (Behind a row that was taken out of the   *)
(* middle the rows get other ids, without an error, and all of them do if  *)
(* one with the lowest id is added at the end.)  But if the edited cell is *)
(* given more or less values than its column has room for, that is said    *)
(* only of the rows before it, and of the cells before it: the others are  *)
(* shifted, also where pack succeeds.  A row with a cell missing or with   *)
(* one that is of no column is not packed.                                 *)
InOrder(json, n) ==
  /\ \A r \in DOMAIN json.rows : json.rows[1].id <= json.rows[r].id
  /\ \A r \in 1..n : json.rows[r].id = json.rows[1].id + r - 1
HasRoom(json) ==
  edit.name # NoName =>
    \A i \in DOMAIN json.schema :
      json.schema[i].name = edit.name =>
        Values(json.rows[edit.row].cells[edit.name]) = json.schema[i].count
InFront(t, r, json) ==
  LET edited == {i \in DOMAIN t.cols : Name(ConvertAll(t, "Modern"), i) = edit.name}
      others == IF r = edit.row THEN (DOMAIN t.cols) \ edited ELSE DOMAIN t.cols
  IN  IF HasRoom(json) THEN others
      ELSE {i \in DOMAIN t.cols :
              \/ r < edit.row
              \/ r = edit.row /\ \A j \in edited : i < j}
KeptIn(packed, t, json) ==
  /\ packed.name = t.name /\ packed.cols = t.cols
  /\ Len(packed.rows) = Len(json.rows)
  /\ \A r \in DOMAIN json.rows :
       DOMAIN json.rows[r].cells = {json.schema[i].name : i \in DOMAIN json.schema}
  /\ \A r \in DOMAIN t.rows :
       LET inPlace(q) == InOrder(json, q) => packed.base + q - 1 = t.base + r - 1
           same(q) == {i \in DOMAIN t.cols : packed.rows[q][i] = t.rows[r][i]}
       IN  (r # edit.row \/ edit.name # NoName) =>
             \E q \in DOMAIN packed.rows : inPlace(q) /\ InFront(t, r, json) \subseteq same(q)
EditsStayLocal ==
  (cmd = "idle" /\ last = "pack" /\ result = "ok") =>
    \A f \in Files : \A i \in DOMAIN dump[f].tables :
      (/\ Separate(f) /\ SchemaPath(dump[f].stem) \in DOMAIN disk
       /\ edit.path = JsonPath(dump[f].stem, FileName(Table(f, i).name))) =>
        \E packed \in Range(PackedTables(f)) :
          KeptIn(packed, Kept(dump[f].tables[i]), disk[edit.path].json)

(* Whatever worker meets an error, and whatever the others do then, a      *)
(* command that reports success has left none of its files broken, other   *)
(* than the schemas, which pack refuses, and those that two workers wrote. *)
ErrorsReported ==
  (cmd = "idle" /\ result = "ok") =>
    \A f \in Files :
      IF last = "pack"
      THEN \A p \in DOMAIN disk : p[1] \in {"schema", "bdat"} => ~Broken(disk[p])
      ELSE \A i \in DOMAIN dump[f].tables :
             Alone(f) /\ Selected(Table(f, i)) =>
               LET p == JsonPath(dump[f].stem, FileName(Table(f, i).name))
               IN  p \in DOMAIN disk /\ disk[p].kind = "json"

(* A command ends, also when a worker fails and leaves files untaken. *)
CommandsEnd == []<>(cmd = "idle")
=============================================================================
