# A formal model of bdat-rs

[bdat-rs](../src/README.md) reads and writes BDAT files, the tables of the
Xenoblade games: a library (`src/`) for the *legacy* formats (Wii, New 3DS,
Switch, X) and the *modern* one, and a *toolset* (`toolset/`) that converts,
scrambles and compares such files from the command line. This directory holds
TLA+ modules that model its core, TLC runs that check them on small instances,
and proofs that TLAPS checks for all instances.

Paths below are relative to the root of the repository. `PROJECT.json` maps
every definition that models code to its lines, and lists runs, mutants,
hazards, findings and theorems.

## 1. The system

| Component | State it keeps | Operations | What makes it correct |
|---|---|---|---|
| Legacy table writer (`src/io/legacy/write.rs`, `hash.rs`, `util.rs`) | name and string tables, column infos, hash slots, a buffer with a cursor, header fields | `TableWriter::write`: layout pass, write pass, linking, header, scrambling | both passes agree on every offset; each pointer leads to its item; no two items share a byte; every hash chain is complete; no u16 is truncated |
| Legacy table reader (`read.rs`) | work list and visited set of nodes, columns, flags, rows | `TableReader::read` for both layouts | gives back what was written; ends on damaged chains |
| Legacy file (`write.rs`, `read.rs`, `scramble.rs`, `io/detect.rs`) | tables of bytes, offsets, a two-byte key stream | `write_file`, `detect_version`, `LegacyBytes::new`, scrambling | texts survive any sequence of scrambling; slices are tables; the version is found |
| Modern file (`src/io/modern/`) | label table, cells, keys, offsets; a cursor | `write_file`, `read_file`, `get_tables` | labels are where columns point; keys are searchable; what was written is read |
| Tables in memory (`src/table/`) | columns, label index, rows, base id, hash index | builder, lookups, `columns_mut`, `rows_mut`, conversions | the three indexes answer for what is there |
| Hash name cache (`toolset/src/util/hash.rs`) | a cache file shared by all runs of the toolset | `load_from_names` | the cache is invisible, or at least never lies |
| Extract and pack (`toolset/src/convert/`, `util/mod.rs`, `filter.rs`) | files on disk; a pool of workers | `run_serialization`, `run_deserialization`; the user edits JSON files in between | nothing torn is packed; success means that all is there; an edit changes what it says |
| Scramble commands (`toolset/src/scramble.rs`) | files on disk; a pool of workers; each file in memory | `run`, `scramble_file`, `unscramble_file` | success means that every file is done; what the user had is kept |
| Diff command (`toolset/src/diff.rs`) | tables of both sides by name; what was printed | `run_diff`, `RowDiff::diff`, `RowChanges::print` | prints all differences and nothing else |
| Values, labels, `CompatTable`, serde, errors | none | conversions, dispatch | covered where other components depend on them |
| info, hash, CSV (`toolset/src/`) | none | printing | not modelled |

How they interact. The reader and the builder make tables, the writers consume
them; the only channel between a writer and a reader is an image in memory or
a file on disk. The toolset calls the library from rayon workers, one input
file each; workers share the output directory and the flag by which `find_any`
stops them, and whole processes share the hash name cache. There are no locks,
no retries and no timeouts anywhere.

What is hard to test here, and is therefore what the properties are about
(the list with lines is under `hazards` in `PROJECT.json`):

* offsets computed in one pass and used in another, with the sections in
  another order and alignment per version;
* limits of 16 and 32 bits, some checked, some cast away;
* indexes that are not kept up when what they index is changed;
* images with links that do not come from the writer;
* scrambling in place, again and again, with a key that depends on the plain
  bytes, and a writer and a tool that differ about padding;
* workers that fail while others go on, processes that die between creating a
  file and writing it, and processes that share a file without a lock;
* workers whose files get one name, and commands that take for input what an
  earlier one wrote, or left half written;
* what is lost on the way to JSON and back: ids, flags, types.

## 2. Modules

| Module | Models | State and actions in terms of the code |
|---|---|---|
| `LegacyFormat` | what legacy writer and reader share | texts are values with a length and a hash sum; an image is a function from offsets to cells, a cell being what one write call produces |
| `LegacyTableWriter` | `TableWriter::write` | one action per iteration of each of its loops: `init_names` (`ReserveName`), `from_columns` (`AddInfo`), `build_wii` and `build_regular` (`AddNode`) in the layout pass; infos, names, nodes, hash slots, rows, strings in the write pass; links, header, `rescramble` as patches. `?` leads to `error`, `unwrap` and `assert` to a panic phase |
| `LegacyTableReader` | `TableReader::read` | node array (`discover_columns_from_nodes`) or hash chains (`discover_columns_from_hash`), `Flags`, `RowReader` with the panic of `to_integer` at flags on a text or float |
| `TableStore` | abstract | a table is saved, may be lost, and is loaded as it was saved |
| `LegacyRoundTrip` | writer, then reader | adds `DamageLink`, one wrong link between nodes on disk; implements `TableStore` |
| `LegacyTable_proofs` | - | theorems about the writer, the image it makes, and the reader |
| `Scramble` | `scramble.rs` | one action per pair of bytes, and the remainder |
| `LegacyFile` | files of legacy tables | `WriteTable`, `Open` (`LegacyBytes::new`), the scramble and unscramble commands, `Detect` |
| `LegacyFile_proofs` | - | theorems about `Scramble` and it |
| `ModernWriter` | `io/modern/write.rs` | one action per column, cell, key table, label, table, and the header; `LabelTable::get` is `Get` |
| `ModernFile` | the same with `io/modern/read.rs` | a reader that sees the image the writer made, table after table |
| `ModernFile_proofs` | - | theorems about both |
| `NameMap` | `table/util.rs`, `column.rs` | the index of labels: `Place` is its binary search, `Push`, `Position` |
| `TableAccess` | `src/table/` | one action per call of the builder, `columns_mut` (`Relabel`), `rows_mut` (`ReplaceRow`), conversions; lookups are operators |
| `NameService` | abstract | whoever hands over names is given their table |
| `HashNameCache` | `load_from_names` | runs that check, read field by field, or write field by field; a run may be killed; implements `NameService` |
| `HashNameCache_proofs` | - | theorems about it |
| `TableJson` | `convert/json.rs`, `serde.rs`, `label.rs`, `schema.rs` | pure operators: a table with its columns, flags and cells to JSON and back, labels to names of files and back, and what is refused |
| `PackedRows` | `RowWriter::write`, and the assertion on the size of all rows | which cells of rows in memory are where their columns say once they are written, when a cell may have another number of values than its column has room for |
| `JsonEdits` | the user | the JSON files one edit away: a row taken or added, a cell, its shape, its key or the keys of its flags changed |
| `Convert` | extract and pack | workers that take files; creating (or truncating) a file and writing it are steps of their own, and what is larger than the buffer (`Large`) goes out in several writes (`WritePart`, then the rest), so that one worker can write over, or in between, what another is writing; any of them may fail (`ExtractFails`, `PackFails`); crashes and edits |
| `Convert_proofs` | - | theorems about `TableJson`, `PackedRows`, `JsonEdits` and it |
| `ScrambleTool` | `toolset/src/scramble.rs`, `list_files`, `get_common_denominator` | one action per step of a worker on a file: take, read, create, write a part, write; a file may be left cut, and one cut in its last table is read as that table, as far as it goes; commands follow one another on one disk; failed reads and writes, and crashes |
| `ScrambleTool_proofs` | - | theorems about it |
| `TableDiff` | `toolset/src/diff.rs` with `compat.rs` and `HashNameTable::convert_all` | `ReadFile` by any worker in any order, `Merge`, `Compare` table by table; lookups of rows and cells as the code makes them, against `Differences`, which says what a difference is |
| `Tables_proofs` | - | theorems about `NameMap`, `TableAccess` and `TableDiff` |
| `ProofBasics` | - | lemmas that several of these proofs use: least and greatest counterexamples, running sums, sequences put one behind the other and where their elements come from, insertion |

`MC*` modules and `.cfg` files give the constants values. Each module with
assumptions is extended by the module of a run, which evaluates them.

Data are abstract where no property looks at them: a value is its width and
identity, a text its length and hash sum, a JSON file the record it parses to.
Control is not: every early return, `?`, `unwrap` and assertion that the state
decides is an outcome. Where a reader would interpret bytes that are not what
it takes them for, the model either has no such step, so that TLC reports a
deadlock (legacy reader), or reads `Garbage`, which no property accepts
(modern reader).

## 3. Runs

All runs together take about seven minutes.

| Run | Instance | Shows |
|---|---|---|
| `legacy` (117k states) | all tables of up to two columns of four shapes and two flags, three sets of rows (none, two, one that lacks a value), both layouts, 1 or 5 slots; three columns with four flags; a float and an integer with flags; tables of up to seven columns around the u16 limit, scaled to 200; each is written and, if that succeeds, read; four columns with a damaged link to any node | of the writer: reservations, pointers, disjointness, row alignment, scrambled ranges, no truncation, only links are patched; of both: lookups complete, flags all or none, `ReadBack` (refinement of `TableStore`), the reader ends |
| `legacy_flags_lost` | the same, undamaged | **violated**: flags of several columns get lost |
| `names_cache` (196k) | three runs over lists that are longer, shorter, with repeated names, a hash collision, a name that is too long, or empty; one after another, killed anywhere, or overlapping | `Transparent`: refinement of `NameService`; wrong only if torn or too long; half-written caches fail and do not lie |
| `names_split` | lists that differ in line breaks | **violated**: names of another file |
| `table_access` (173k) | any six calls on tables of up to three columns (and lists with repeated labels), up to four rows, u16::MAX = 3, u32::MAX = 5 | the three indexes, ids and conversions |
| `diff` (148k) | two files with any of a set of small modern and legacy tables, some with two columns of one label, with and without a file of names; and four files whose tables share names, some unreadable | what is printed differs, what differs is printed unless its column was given a name, added and removed tables are shown as such, and where the command breaks off |
| `diff_names_hidden` | two modern tables that differ in one cell, and its column's name | **violated**: nothing is printed |
| `modern_file` (84k) | files of none, one and two tables: seven column lists, four names, all values, base ids, a neighbour before or behind; u16::MAX = 16 | labels, keys, sections, reading back, and the two cases in which reading fails |
| `modern_overread` | the same | **violated**: a written file that cannot be read |
| `legacy_file` (106k) | none to three and six tables, four versions, scrambled or not, 0 or 3 bytes behind the file; up to four openings or commands; bytes of two bits, an upper byte of an offset counting 70 (`Page`, so that tables are as long as the info of a column read as an offset) | texts and bytes kept, slices, detection |
| `scramble_commands` (1.6M) | six directories (two files, two of one stem, an output beside its input, one name in two directories, files of other kinds, a file where an output goes), two workers, any two of seven commands, one failed write or crash | success is complete, errors have causes, what the user had is kept |
| `convert` (238k) | one or two files of nine kinds (usual, flags and lists, rows larger than the padding, one stem with tables of one name or of different ones, too many twins, odd names), some tables and schemas larger than the buffer, two workers, any three commands, one fault, crash or edit, three sets of options | nothing torn is packed, what files of one stem can make of each other, success is whole, an edit stays local in the file that is written, errors are reported, commands end |

Why the bounds are enough. A pointer, chain or index goes wrong by the
relation of two items, at a boundary: two columns give equal and different
hash slots, shared and distinct strings, and both orders; one slot forces
chains through everything, five leave slots empty. Lengths 1 to 3 cover all
residues that padding to 2 and 4 tells apart. A limit does not depend on
its size, so `U16Max` and `U32Max` are constants that runs lower until tables
on both sides of them exist. Three columns with four flags are the least at
which the search for flags fails in the middle. Damage needs a cycle, which two
nodes give, and a link into another chain, which takes two slots. Scrambling mixes
neighbouring bytes, so that texts of zero to six bytes cover the loop and both
remainders, and no property depends on the width of a byte except through XOR
and wrapping sums. Three runs of the toolset are a victim, a writer and a
reader of what is left. A difference lies in a cell, a row, a column or
a table, on either side: two rows and two columns with ids and labels that
overlap in part have all of them. Two commands are one that leaves
something behind and one that finds it. Two files and two workers suffice for a failure
next to work at hand, and two pieces of a file for those of another writer
to come between; three commands are an extract that fails, one that
does not, and a pack.

`CHECK_DEADLOCK FALSE` is set for `convert` only: a user may give no further
command. Elsewhere a behaviour that is over stutters in an action of its own.

Every property of a passing run has a mutant: a plausible slip in the code
(a dropped terminator, a loop that ends early, a swapped condition) with which
TLC finds that very property violated.

### Fairness

Safety needs none. `LegacyRoundTrip` assumes weak fairness of the reader's
steps: reading is a plain call, which runs on once begun.
`Convert` assumes it of the steps of a running command (`Step`): rayon's
workers go on, and calls of the file system return, with or without an error.
Nothing obliges the user to start a command, nor a crash or fault to happen.

### Abstract specifications

`ReadBack` (`LegacyRoundTrip` implements `TableStore`): the store holds the
table from the moment the writer is done until the image is damaged, and the
answer is what the reader returns. Flags are left out of this mapping
because the code loses them (see findings); `FlagsAllOrNone` says what is left.
`Transparent` (`HashNameCache` implements `NameService`): a run asks when it
has the lines, and is answered when it ends.

## 4. Findings

Four disagreements between what the repository says and what its code does,
each shown by a run that expects a violation:

1. `src/io/legacy/read.rs:674`: `Flags::get_from_parent` uses `partition_point`
   with a predicate that does not partition the flags, so flags of a column may
   be lost when other columns have flags (`legacy_flags_lost`).
2. `toolset/src/util/hash.rs:82`: names files that differ only in line breaks
   share a cache (`names_split`).
3. `toolset/src/util/hash.rs:119`: `convert_all` names columns through
   `columns_mut`, which leaves the label index with the hashes
   (`src/table/modern.rs:248`); the diff command then finds neither cell of such
   a column, takes it to be unchanged, and prints nothing
   (`diff_names_hidden`), or panics when the column or the row is new.
4. `src/io/modern/read.rs:147`: a last table of narrow rows without a column of
   hashes is written but not read (`modern_overread`).

What else was met on the way and is excluded in a property, by name, or said
in its comment:

* The writer writes a single text or float in a column with flags, and the
  reader takes the value of every such column for an integer and panics
  (`src/io/legacy/read.rs:607`). `FlagsReadable` names it, and `Intact` in `ReadBack`
  leaves such a table out of what was stored.
* `NameMap::push` numbers columns wrongly after a repeated label
  (`DistinctLabels`).
* Text labels in modern files are read back as hashes (`HashedLabels`).
* A version may be mistaken for another. `DetectionRight` names three cases: an
  X file of many tables whose first is short; a Wii file whose first table has no
  columns; and, once scrambled, one whose first table has a single column. The
  third, and the first table with many hash slots in the second, came up when the
  proof of an earlier form did not go through; the run `legacy_file` reaches
  each of them.
* The writer scrambles without the padding and everyone else with it (the
  second half of `TextKept` is about files not scrambled by the writer).
* What an extract and a pack do not give back as it was is named in the
  hypotheses of `PackedAsExtracted` and `EditsStayLocal` (`TablesSeparate`): tables
  that share a file name or are named as their file, names that read as a hash,
  columns of one label with different flags, and flags of one name. Of two
  input files with one stem, tables may be lost without an error; what is
  packed is a table of one of them as long as both are of one version and give
  a file name to one label only (`MatesSeparate`). But a table that both have, and
  one of them writes in several pieces, or a schema that is written so, may come
  out as anything that can be read, for each worker's pieces go where its last
  one ended (`SpoiltTable`, `SpoiltSchema` in `NeverMixed`).
* A cell of a legacy JSON file with more or less values than its column has
  room for shifts all that is behind it in the rows; `src/io/legacy/write.rs:239`
  compares the size of all rows only, padded to 32, and may let it pass.
  `EditsStayLocal` then speaks of what is in front of that cell (`HasRoom`,
  `InFront`).
* Of several columns with one label diff looks at one (`Unambiguous`), as the
  label index has one position for them.
* Rows behind one that was taken out of a JSON file, and all rows if one with
  the lowest id was added at the end, get other ids without an error
  (`InOrder`). `FormatError::MissingRow` (`toolset/src/error.rs:54`) asks "was a
  row deleted without updating the IDs?", but nothing raises it.
* A flag that is missing from an edited cell, or has another name there, is
  passed over: the cell has a value less, and those behind it move up
  (`FlagValues`).
* Rows that only the old table has are never visited by diff, nor reported
  (`DifferencesPrinted` is about the rows of the new one); the argument
  `--expand-tables` is never read.
* A file that diff cannot read makes its tables look added or removed
  (`WrongSideOnlyIfUnread`).
* Without an output directory, the scramble commands write files of one stem to
  one file (`Apart`), and what a killed command leaves is an input of the next.
  That one fails, unless the file is cut in its last table and this is done
  already: then the table is skipped, the rest is copied as it is, and the command
  reports success (`AllDoneIfApart`). A file cut elsewhere cannot be read
  (`ErrorsHaveCauses`).

## 5. Proofs

Each theorem is about every value of the constants that meets the assumptions
of the module: tables of any size, any hash function, any number of runs or
workers, commands, crashes. The runs of section 3 evaluate those assumptions
and check the same properties on small instances. The named parts of the
inductive invariants below are definitions of the `_proofs` modules.

**Legacy table writer** (`LegacyTable_proofs`). Assumed: lengths and hash
sums are naturals; tables are well-formed, flags have parents, there is at least
one hash slot.

* `TypeCorrect`. `TypeOK` is not inductive: that a pointer read from `infoPtr`
  or `nameOff` is a number takes that it is there, which depends on how far the
  layout pass got. `IInv == TypeOK /\ Progress` adds, phase by phase, the
  domains of these functions and the range of `k`.
* `ReservationCorrect` (`SpaceReservedIsUsed`). The space that is reserved for
  the names and the space they take are sums over the same items, made by
  different code in different passes. `SpaceInv` carries both sums so far; when
  both passes are through they are equal.

**Image of a legacy table** (also there), with the same assumptions and, for the lookups, those of `LegacyRoundTrip`. `AllInv` has five parts, each of
which the next needs:
`SpaceInv`; `LayoutInv`, infos and names follow one another without gaps;
`SlotInv`, a slot has the nodes that hash to it, in rising order; and `ImageInv`,
in which `FrontInv` says that whatever is written ends before the cursor, so that
the next item overlaps nothing, `Cursor` where the cursor is in each phase,
`ThereInv` which items are in the image so far and where, `TextInv` the same for
the strings, `FitInv` that every u16 written fits, and `HeaderInv` what the
header says.

* `PointersCorrect`, `DisjointCorrect`, `TruncationCorrect`, `ScrambleCorrect`:
  `PointersLand`, `ItemsDisjoint`, `NoSilentTruncation` and
  `ScrambleRangesAgree` follow from `AllInv` state by state. That the offset of
  the names is cast without a check is harmless because the first node, or the
  first name, lies behind it and is checked.
* `AlignmentCorrect` (`RowsAligned`) takes `RowInv`: the cursor is at the start
  of a row plus the sizes of the values written in it, for tables whose rows
  fit their columns (`WellFormed`).
* `PatchesCorrect` (`OnlyLinksArePatched`): an action property. That a new item
  overwrites none takes `FrontInv`.
* `LookupsCorrect` (`LookupsComplete`): along a chain every link leads to the
  next node of the slot, so the walk of the reader is a recursive function that
  stays among them, and reaches each. `WrittenInv` says that `AllInv` outlives
  the writer until the image is damaged.

**Reading a legacy table** (also there), for images nobody damaged. `ReadInv`
has a part per phase of the reader. `NodesInv`: from the array of nodes come
exactly the items so far, in order (`ColumnsTo`, `FlagsTo`). `HashInv`: nodes on
the work list were visited, and of a visited node that is not on it any more the
item was found and the next node visited too; so when the list is empty, the chains
being complete, all items were found, and sorting them by their offsets (of cells for
columns, which rise because cells are not empty, of infos for flags) brings them
back into their order.

* `FlagsCorrect` (`FlagsAllOrNone`). The flags arrive sorted by parent, and
  `Flags::new`, a stable sort, leaves them so (`SortOfSorted`). Those of one
  column are one stretch of them (`FlagBlock`), and `get_from_parent` asks the
  binary search a question that holds just on that stretch. `PartitionPoints`
  says what the search answers whatever it is asked, partitioned or not: the
  predicate holds right below the answer and fails at it, unless there the
  sequence ends. For a stretch (`FromParentIs`) the upper answer is thus its end or
  0, never a place within; if its end, the lower search has a sequence that
  is partitioned and finds the beginning. That the upper search may miss the
  stretch is finding 1.
* `RoundTripCorrect` (`ReadBack`): writing and reading implement `TableStore`,
  for every table, but that one whose rows do not fit, or that has flags on a
  single text or float, was never stored. `ValuesInv` says that each value written so
  far is at the start of its row plus its `ValuePlace`, and a string value points
  to its text. The writer gets there by products (the start of the cell plus so
  many widths), the reader by moving a cursor value after value; `CursorPlaces`
  says the two agree. `RowsInv` then has the rows read so far equal to those of the
  table. Success of the writer is `Save`, damage is `Lose`, the reader's last
  step is `Load`, all others stutter. Flags are left aside; of them
  `FlagsCorrect` speaks. Assumed besides: no table expected back is the value
  `Nothing` that marks an empty store.

**Modern files** (`ModernFile_proofs`). Assumed: hashes and lengths of texts are
naturals, and only one text is empty; rows fit their columns. `WInv` has, for
each finished table, what its image says (`ImageOK`: sizes, columns, cells and
sorted keys in terms of the table, labels one behind the other), and for the
table at hand one part per phase. `RInv` says what the reader has of the tables
behind it and of the current one.

* `LabelsCorrect` (`LabelsLand`): labels get their offsets when they are first
  asked for and are written in a pass of their own, in the same order
  (`Chained`), so that they land where columns and cells already point to
  (`ColsOK`, `CellsOK`); those of columns have 16 bits, which the check in front
  makes enough (`AsItIs`).
* `KeysCorrect` (`KeyTableSearchable`): sorting loses no key and invents none;
  of equal keys each leads to a row that has it.
* `TablesCorrect` (`TablesApart`): offsets are running sums of the padded sizes.
* `ReadCorrect` (`ReadsWhatWasWritten`): every cell is read from where the
  writer put it; both compute that place as sums of widths, the writer cell by
  cell and the reader from the row length.
* `FailureCorrect` (`FailsOnlyPastEnd`): of what is written, reading fails only at
  text labels or past the end of the file, where a table without a column of
  hashes has no keys (finding 4). This is no matter of the last table only: a
  table in the middle with many narrow rows can be unreadable as well. An
  earlier form of the property said otherwise and the proof did not go through.

**Tables in memory** (`Tables_proofs`), with the limits and labels as
`AccessAssumption` has them and with any number of calls: `IInv == Shapes /\ IndexInv /\ IdsInv
/\ HashInv`. The label index is sorted and has exactly the labels of the
columns, until one is changed (`relabelled`); ids fit a legacy table; the hash
index is that of the rows, until one is replaced. `ColumnLookup`
(`LookupFindsColumn`) is about the binary search: a sorted sequence without
repetitions is searched by a halving that never loses its target; the lemma
about `Place` is by least counterexample. `RowsById` (`RowIdsResolve`),
`HashLookup` (`HashFindsRow`) and `ConversionIds` (`ConversionKeepsIds`) follow.

**Scramble commands** (`ScrambleTool_proofs`), for any directories, commands and
number of workers. Assumed: what is on the disk at first is of known kinds and
sizes are naturals. `IInv` has: `RunInv`, workers are busy with different files
that are not in the queue; `DoneInv`, if outputs are apart, what is still to be read is
as it was, and what was taken is in hand or done; `CauseInv`, as long as nothing
failed or clashed, every file is a whole legacy file, or was there at first, or
is being written; `KeptInv`. A file that is cut in its last table counts as one
with that table, in `DoneInv` as in the code. Theorems: `AllDone` (`AllDoneIfApart`), `Causes`
(`ErrorsHaveCauses`), `Originals` (`OriginalsKept`).

**Diff** (`Tables_proofs`), for any files, tables, names and order in which the
workers end. Assumed (`DiffAssumption`): rows are as wide as their table, modern
ones have no composite cells, and a name is not itself a hash that has a name.
`DiffInv` has: `ReadInv`, a file that was read holds its tables, converted;
`MergedInv`, the merged tables are, by name, those in the last place (`SideTables`);
`ShownInv` and `TodoInv`; and `PrintedInv`, of a table that was dealt with every
line that the comparison finds (`AllLines`) was printed, of the one at hand those
that are not among the rows still to come, and nothing else. Two arguments carry
the rest. The tables of the files end up one behind the other, and each element
of the result has a place in one file (`FlattenParts`), in the same order, so
that the greatest index of a name is its last place (`Merged`). And what is found under
an id and a label through the index is what the file has there, or nothing
because the column was renamed (`Looked`, from the lemmas about `NameMap`), so that a
line of the comparison is a difference and the other way round (`RealChange`,
`AllChanges`). `OnlyReal`, `AllShown`, `SidesShown` and `BreaksOff` state the four
properties of the run `diff`. The first, the second and the last are false for
tables with two columns of one label, which the attempt at a proof showed and the run
reproduces without the hypothesis `Unambiguous`.

**Extract and pack** (`Convert_proofs`), for any input files, options, number of
workers and of commands, and any faults, crashes and edits. Assumed
(`ConvertAssumption`): the input files are well-formed dumps such as the readers
give, no column of which has the name that stands for none (`NoName`) or for an
unknown one (`Unknown`). Which contents are larger than the buffer (`Large`) is
left open. All five safety properties are proved.

* About `TableJson`: a table that is written as JSON and read with its columns
  is `Kept(t)`, what JSON can hold of it (`RoundTrip`); after an edit it differs
  from that as the edit says, in the form in which it is written: where the changed
  cell has the values its column has room for, and in front of it otherwise
  (`EditRead`, with `Written` of `PackedRows`).
* `IInv` has: `Control` and `DiskInv`, what workers and files can be at all: a
  JSON file is broken, or a table of an input file, or mixed, and this only where two
  input files have a table of that name and one of them goes out in pieces
  (`SpoiltAt`), because a content that fits the buffer replaces what is there or
  leaves something behind it that no reader takes; `EditInv`; `ExtractWork` and `ExtractDone`, what of a file is on the disk while a
  worker has it and afterwards; `Extracted`, the same for the whole command once it
  has succeeded; `TablesFirst`, a schema that is whole has all of its tables
  whole beside it, because they are written before it; `PackWork`, `PackDone` and
  `PackedOnce`, the same for the other direction. The properties are about what
  is on the disk when a command is over, and none of them is inductive: each
  rests on the order in which a worker, possibly one of a command that failed or
  was killed, went about its files. TLC checked `IInv` over all states of
  the run before it was proved.
* `NothingTornHolds`, `NeverMixedHolds`, `PackedAsExtractedHolds`,
  `EditsStayLocalHolds` and `ErrorsReportedHolds` follow.

**Hash name cache** (`HashNameCache_proofs`), for any number of overlapping
runs, any lists and any hash. `BaseInv` says where in its fields a writer is.
The cache is a sequence of words; `Off` says where each field begins.

* `OneListCorrect` (`FailsButNeverLies`): if all runs have the same list,
  without names that are too long, then whatever is in the file agrees with the
  fields of that list as far as the file goes (`OneInv`), though two writers may
  be at different places in it: they write the same. A reader that gets to the
  end has the table, and one that does not fails.
* `SerialCorrect` (`WrongOnlyIfTornOrTooLong`): of runs one after another, a cache
  that is not torn is empty or complete for the list of a run that ended
  (`SerialInv`).
* `TransparentCorrect` (`Transparent`): the refinement of `NameService` by runs
  that follow one another and are not killed; initial states map to initial
  states, and each step to a step or a stutter.

The last two have an explicit hypothesis, `HashTellsApart`: lists that come
together differ in the hash of their names. The code does not ensure it, and
without it both are false: that is finding 2 (`names_split`). The modes of the
run `names_cache` meet it.

**Legacy files** (`LegacyFile_proofs`), for bytes of any size (`Base`), any exclusive
or with `XorByte(XorByte(a, b), b) = a`, files of any number of tables and any
number of operations. Assumed (`FileAssumption`): names are not empty, and at 32
and 36 a table has what the table writer puts there (`HeadRight`).

* In either direction the running keys of `Scramble` add up the scrambled
  bytes: the key of a byte is a function of the scrambled bytes before it. So
  "c is p scrambled with a key" can be said without the loop (`Scrambled`, by the
  existence of the keys, `AreKeys`), and determines p. The scrambling loop
  establishes it (`ScramblingDone`), the unscrambling loop arrives at p
  (`UnscramblingDone`); bytes put behind the region leave what comes before them
  alone (`Extended`), which is why the text survives a writer that leaves out
  the padding.
* `IInv` has `Frame` (what is built when; tables in a row), `TablesInv` (each table
  at rest has what was written, or that, scrambled with the key it stores) and
  `HandInv` (how far the loop is in the table in hand). A key recomputed from an
  unscrambled table is the one from before because the table is as it was, padding
  included; this fails for a file its writer scrambled, and `TextKept` says so.
* `TextKeptCorrect`, `SlicesCorrect` (`SlicesAreTables`), `DetectionCorrect`
  (`DetectionRight`) follow from `IInv` state by state.

How the proofs go. The provers have no induction over data. What would be an induction on a
natural number is a choice of a least or greatest counterexample (`NatMin`,
`NatMax`), from facts about the naturals alone; that a recursive function
exists and satisfies its equation is shown once, for running sums
(`RunningSums`), and cited where lengths are added up. Each proof that a step
keeps an invariant has one step per action, and a lemma for each group of them.

Only model-checked: the liveness properties `ReadEnds` and `CommandsEnd`, which
need fairness and `ENABLED`. Every other property of a passing run is stated by a
theorem.

## 6. Not modelled

* Bytes that no writer produced, apart from one damaged link: the readers'
  behaviour on arbitrary input.
* Value conversions (`cell.rs`, `float.rs`) and murmur3: arithmetic on single
  values. The hash is a constant operator.
* Of `CompatTable`, all but the lookups of rows and cells; of serde, how numbers
  are written, and `ValueWithType`, which only other programs use.
* Floats that JSON has no number for: they are written as null, which is no
  value of any type (`Readable`) when the table is packed.
* Error types, progress bars, formatting, logging.
* info and hash commands and CSV output: they print what they are given.
* Directories named like files, links, and two commands at once in one
  directory. The order in which the list of files is walked has no effect in
  `ScrambleTool`: workers take them in any.

## 7. Plan

Done: the legacy writer, reader and their composition; legacy files with
detection and scrambling; modern files; tables in memory; the name cache with
names that are too long; extract and pack with edits between them; the scramble
commands on directories; diff. Proofs about all of these.

Next would be the values themselves: the conversions of `cell.rs` and
`float.rs`, and readers on images that no writer produced.
