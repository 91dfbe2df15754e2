----------------------------- MODULE LegacyFile -----------------------------
(***************************************************************************)
(* A file of legacy tables and what is done to it as a whole: writing it   *)
(* (FileWriter), finding out its version (io/detect.rs), opening it, which *)
(* unscrambles its tables in place (LegacyBytes::new), and the scramble    *)
(* and unscramble commands of the toolset.                                 *)
(*                                                                         *)
(* Of a table the bytes after the 32nd are kept, in the parts that matter  *)
(* here: head (the second half of the header where the format has one, and *)
(* the column infos), names (with the nodes), mid (hashes and rows) and    *)
(* strings (with the padding at the end), as LegacyTableWriter makes them. *)
(***************************************************************************)
EXTENDS Scramble, SequencesExt

CONSTANTS
  Inputs,    \* the calls of write_file: version, scramble option, tables
  Page,      \* what the upper byte of an offset counts for: 256
  Extra,     \* how many unrelated bytes may follow a file
  MaxOps     \* bound for TLC: how often the file is opened or processed

Versions == {"Wii", "New3ds", "Switch", "X"}
Input == [version : Versions, scramble : BOOLEAN,
          tables : Seq([name : Nat, head : Seq(Byte), names : Seq(Byte),
                        mid : Seq(Byte), text : Seq(Byte), padding : Nat])]

(* What the table writer puts at 32 and 36: in an X file the offset of the *)
(* nodes, which lies in the table, and zeros; in a Wii file the infos of   *)
(* the columns, if any, the first of which has four bytes or more, and     *)
(* behind a single short one the name of the table and the first node.     *)
HeadRight(version, t) ==
  CASE version = "X" ->
         /\ Len(t.head) >= 8 /\ \A i \in 5..8 : t.head[i] = 0
         /\ t.head[1] * Page + t.head[2] <= 32 + Len(t.head)
    [] version = "Wii" ->
         \/ t.head = <<>>
         \/ Len(t.head) = 4 /\ Len(t.names) >= 4 /\ \E i \in 1..4 : t.names[i] # 0
         \/ Len(t.head) > 4 /\ \E i \in 5..8 : i <= Len(t.head) /\ t.head[i] # 0
    [] OTHER -> TRUE

ASSUME FileAssumption ==
  /\ Inputs \subseteq Input /\ Extra \subseteq Nat /\ MaxOps \in Nat /\ Page \in Nat
  /\ \A inp \in Inputs : \A i \in DOMAIN inp.tables :
       inp.tables[i].names # <<>> /\ HeadRight(inp.version, inp.tables[i])

VARIABLES
  input,     \* the call of write_file; its tables in the order of the file
  extra,
  tables,    \* the tables in the file
  offsets,   \* FileHeader::table_offsets
  op,        \* what is being done: "write", "scramble", "unscramble", "open"
  pc, n,     \* where it is, and at which table
  detected,  \* the version found
  ops

fvars == <<input, extra, tables, offsets, op, pc, n, detected, ops>>
vars == <<fvars, svars>>

Count == Len(input.tables)
Zeros(m) == [i \in 1..m |-> 0]

(* A table as the writer leaves it before it is scrambled. *)
Plain(t) == [head |-> t.head, names |-> t.names, mid |-> t.mid,
             strings |-> t.text \o Zeros(t.padding), scrambled |-> FALSE, key |-> 0]
Bytes(im) == im.head \o im.names \o im.mid \o im.strings
Size(im) == 32 + Len(Bytes(im))

(* calc_checksum: bytes are shifted as bytes, the sum wraps as a u16. *)
Shifted(b, i) == (b * <<1, 2, 4, 8>>[((i - 1) % 4) + 1]) % Base
ChecksumOf(bytes) ==
  LET sum[i \in 0..Len(bytes)] == IF i = 0 THEN 0 ELSE sum[i - 1] + Shifted(bytes[i], i)
  IN  sum[Len(bytes)] % (Base * Base)
Checksum(im) == ChecksumOf(Bytes(im))

(* for_each_table_mut: a table goes up to the next one, the last one up to *)
(* the end, bytes that follow the file left out.                           *)
HeaderLen == 8 + 4 * Count
TotalLen(tabs) ==
  LET upTo[i \in 0..Len(tabs)] == IF i = 0 THEN 0 ELSE upTo[i - 1] + Size(tabs[i])
  IN  upTo[Len(tabs)]
FileSize == HeaderLen + TotalLen(tables)
Smaller(a, b) == IF a <= b THEN a ELSE b
SliceEndOpen(i) == IF i < Count THEN offsets[i + 1] ELSE FileSize + extra
SliceEnd(i) ==
  IF i < Count THEN offsets[i + 1] ELSE Smaller(FileSize, FileSize + extra)

(* detect_version.  A little-endian file is told by its table count, and   *)
(* the byte order of its tables' magic tells New3ds from Switch.  For the  *)
(* others, the first table decides: whether it is long enough to have the  *)
(* longer header, and what it has at 32 and 36.                            *)
First == tables[1]
Word32 == Bytes(First)[1] * Page + Bytes(First)[2]
ZeroAt36Unread == TRUE
ZeroAt36 == \A i \in 5..8 : Bytes(First)[i] = 0
Final == Size(First)
Detect ==
  IF Count = 0 THEN "none"
  ELSE IF input.version \in {"Switch", "New3ds"} THEN input.version
  ELSE IF offsets[1] + 36 > Final THEN "Wii"
  ELSE IF Word32 <= Final /\ ZeroAt36 THEN "X"
  ELSE "Wii"

-----------------------------------------------------------------------------
(* write_file sorts the tables by name, in any order if names are equal. *)
SortedBy(order, tabs) ==
  \A i, j \in DOMAIN tabs : i < j => tabs[order[i]].name <= tabs[order[j]].name
Init ==
  /\ \E inp \in Inputs : \E order \in Bijection(DOMAIN inp.tables, DOMAIN inp.tables) :
       /\ SortedBy(order, inp.tables)
       /\ input = [inp EXCEPT !.tables = [i \in DOMAIN @ |-> @[order[i]]]]
  /\ extra \in Extra
  /\ tables = <<>> /\ offsets = <<>>
  /\ op = "write" /\ pc = "table" /\ n = 1 /\ detected = "none" /\ ops = 0
  /\ data = <<>> /\ at = 1 /\ t1 = 0 /\ t2 = 0

(* TableWriter::write_header stores the checksum whether or not the table  *)
(* is scrambled then.                                                      *)
WriteTable ==
  /\ op = "write" /\ pc = "table" /\ n <= Count
  /\ LET im == Plain(input.tables[n])
     IN  /\ offsets' = Append(offsets, HeaderLen + TotalLen(tables))
         /\ tables' = Append(tables, [im EXCEPT !.key = Checksum(im)])
         /\ \/ /\ input.scramble
               /\ Begin(im.names, Checksum(im))
               /\ pc' = "names" /\ UNCHANGED n
            \/ /\ ~input.scramble
               /\ n' = n + 1 /\ UNCHANGED <<pc, svars>>
  /\ UNCHANGED <<input, extra, op, detected, ops>>

(* The toolset's commands find out the version first.  Without tables they *)
(* end there, with an error.                                               *)
StartTool(tool) ==
  /\ pc = "ready" /\ ops < MaxOps
  /\ detected' = Detect
  /\ IF Detect = "none" THEN UNCHANGED <<op, pc, n>>
     ELSE op' = tool /\ pc' = "table" /\ n' = 1
  /\ ops' = ops + 1
  /\ UNCHANGED <<input, extra, tables, offsets, svars>>

(* from_bytes with the version of the file. *)
Open ==
  /\ pc = "ready" /\ ops < MaxOps
  /\ op' = "open" /\ pc' = "table" /\ n' = 1
  /\ ops' = ops + 1
  /\ UNCHANGED <<input, extra, tables, offsets, detected, svars>>

(* scramble_data and unscramble_data leave tables alone that are so        *)
(* already; indexing past the end of a slice panics.                       *)
Scrambling == op \in {"write", "scramble"}
Skips(im) == im.scrambled = Scrambling
InSlice(i) == Size(tables[i]) <= SliceEnd(i) - offsets[i]

SkipTable ==
  /\ op # "write" /\ pc = "table" /\ n <= Count
  /\ Skips(tables[n])
  /\ n' = n + 1
  /\ UNCHANGED <<input, extra, tables, offsets, op, pc, detected, ops, svars>>

StartTable ==
  /\ op # "write" /\ pc = "table" /\ n <= Count
  /\ ~Skips(tables[n])
  /\ IF ~InSlice(n) THEN pc' = "panic" /\ UNCHANGED <<tables, svars>>
     ELSE LET key == IF Scrambling THEN Checksum(tables[n]) ELSE tables[n].key
          IN  /\ tables' = [tables EXCEPT ![n].key = key]
              /\ Begin(tables[n].names, key)
              /\ pc' = "names"
  /\ UNCHANGED <<input, extra, offsets, op, n, detected, ops>>

Loop ==
  /\ pc \in {"names", "strings"}
  /\ IF Scrambling THEN ScrambleChunk \/ Remainder ELSE UnscrambleChunk \/ Remainder
  /\ UNCHANGED fvars

(* The writer's rescramble leaves the padding out, which the others take   *)
(* to be part of the strings.                                              *)
TextLen == Len(input.tables[n].text)
Region == IF op = "write" THEN SubSeq(tables[n].strings, 1, TextLen) ELSE tables[n].strings
Outside == IF op = "write" THEN SubSeq(tables[n].strings, TextLen + 1, Len(tables[n].strings))
           ELSE <<>>

NamesDone ==
  /\ pc = "names" /\ AtEnd
  /\ tables' = [tables EXCEPT ![n].names = data]
  /\ Begin(Region, tables[n].key)
  /\ pc' = "strings"
  /\ UNCHANGED <<input, extra, offsets, op, n, detected, ops>>

StringsDone ==
  /\ pc = "strings" /\ AtEnd
  /\ tables' = [tables EXCEPT ![n].strings = data \o Outside, ![n].scrambled = Scrambling]
  /\ n' = n + 1 /\ pc' = "table"
  /\ UNCHANGED <<input, extra, offsets, op, detected, ops, svars>>

TablesDone ==
  /\ pc = "table" /\ n > Count
  /\ pc' = "ready"
  /\ UNCHANGED <<input, extra, tables, offsets, op, n, detected, ops, svars>>

Rest ==
  /\ pc = "panic" \/ (pc = "ready" /\ ops = MaxOps)
  /\ UNCHANGED vars

Next ==
  \/ WriteTable \/ SkipTable \/ StartTable \/ Loop \/ NamesDone \/ StringsDone
  \/ TablesDone
  \/ StartTool("scramble") \/ StartTool("unscramble") \/ Open
  \/ Rest

Spec == Init /\ [][Next]_vars
-----------------------------------------------------------------------------
(* Properties. *)

(* However often a file is scrambled, unscrambled and opened, the tables   *)
(* that are not scrambled have the names and the texts they were given.    *)
(* In a file that was not scrambled when it was written, the padding comes *)
(* back too, and so the key is the checksum of the plain table each time.  *)
(* (A table scrambled by the writer gets its padding garbled instead.)     *)
TextKept ==
  pc = "ready" =>
    \A i \in 1..Count :
      /\ ~tables[i].scrambled =>
           /\ tables[i].names = input.tables[i].names
           /\ SubSeq(tables[i].strings, 1, Len(input.tables[i].text)) = input.tables[i].text
           /\ ~input.scramble => Bytes(tables[i]) = Bytes(Plain(input.tables[i]))
      /\ ~input.scramble => tables[i].key = Checksum(Plain(input.tables[i]))

(* Each table is handed to the closure of for_each_table_mut as a whole    *)
(* and alone, so that no index is out of its bounds.                       *)
SlicesAreTables ==
  /\ pc # "panic"
  /\ pc = "ready" =>
       \A i \in 1..Count : SliceEnd(i) = offsets[i] + Size(tables[i])

(* The version found is the one the file was written in, up to three       *)
(* cases: an X file of many tables, the first of them short, passes for a  *)
(* Wii file; a Wii file whose first table has no columns, and an empty or  *)
(* scrambled name or many hash slots, may pass for an X file; and so may   *)
(* one whose first table has a single column, when scrambling happens to   *)
(* turn what is behind its info into zeros.                                *)
DetectionRight ==
  (pc = "ready" /\ Count > 0 /\ Detect # input.version) =>
    \/ input.version = "X" /\ 4 * Count + 44 > Final
    \/ /\ input.version = "Wii" /\ First.head = <<>>
       /\ input.tables[1].names[1] = 0 \/ First.scrambled \/ Final >= Page
    \/ input.version = "Wii" /\ Len(First.head) \in 4..7 /\ First.scrambled
=============================================================================
