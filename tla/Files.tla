------------------------------- MODULE Files -------------------------------
(* The file system of kernel/mem.c: the header, file records and data blocks *)
(* it keeps in memory and writes through to the disk.                        *)
(*                                                                           *)
(* A system call runs with interrupts masked, so calls never overlap; but it *)
(* writes the disk block by block, any write may fail (the code goes on), and *)
(* the machine may stop between two of them.  A step is the work up to and   *)
(* including one disk_wr; op says where the call in progress goes on.        *)
(*                                                                           *)
(* Disk block 0 is the header, blocks 1 .. MAX_FILES are the file records,   *)
(* the rest data blocks, which this module names by their disk address.      *)
(* Callers use descriptors of open files.                                    *)
EXTENDS Naturals, SequencesExt

CONSTANTS
  MAX_FILES,        \* file records
  MAX_DATA_LINES,   \* data blocks
  MAX_CONTENT,      \* characters in a data block
  MAX_NAME,         \* characters of its name that a file record keeps
  Names,            \* the names that open is given
  Texts,            \* what a call of write is given
  MAX_FAILURES,     \* model bound: disk writes and reads that fail
  MAX_CRASHES,      \* model bound: times the machine stops
  MAX_READ          \* model bound: characters a read asks for

ASSUME FilesAssumption ==
  /\ MAX_FILES \in Nat \ {0} /\ MAX_DATA_LINES \in Nat \ {0} /\ MAX_CONTENT \in Nat \ {0}
  /\ MAX_NAME \in Nat /\ MAX_FAILURES \in Nat /\ MAX_CRASHES \in Nat /\ MAX_READ \in Nat

VARIABLES
  header,           \* header.new_data_block
  file, data,       \* file[ MAX_FILES ], data[ MAX_DATA_LINES ]
  disk,             \* [header, file, data] as the disk has them
  op,               \* the call in progress
  written,          \* history: the characters each open file was given
  acked,            \* history: how many of them are of calls that returned
  failures, crashes

vars == <<header, file, data, disk, op, written, acked, failures, crashes>>

Fds == 0 .. MAX_FILES - 1
FirstBlock == MAX_FILES + 1
LastAddress == MAX_FILES + MAX_DATA_LINES
Addresses == FirstBlock .. LastAddress
NoName == <<>>
Chars == UNION {{t[k] : k \in DOMAIN t} : t \in Texts}

ASSUME TextsAssumption == \A text \in Texts : text \in Seq(Chars) /\ text # <<>>

ASSUME NamesAssumption == \A name \in Names : name \in Seq(STRING)

First(s, n) == SubSeq(s, 1, IF n < Len(s) THEN n ELSE Len(s))

set_file_name(name) == First(name, MAX_NAME)

File == [active : BOOLEAN, name : {set_file_name(name) : name \in Names} \cup {NoName},
         no_of_blocks : Nat, address : Nat]
Data == [content : Seq(Chars), full : BOOLEAN, next : Nat]
Op == [at : {"setup", "load", "idle", "open", "write", "link", "count"},
       fd : Fds, name : Names \cup {NoName}, cur : Nat, rest : Seq(Chars)]

NoFile == [active |-> FALSE, name |-> NoName, no_of_blocks |-> 0, address |-> 0]
NoData == [content |-> <<>>, full |-> FALSE, next |-> 0]
At(where) == [at |-> where, fd |-> 0, name |-> NoName, cur |-> 0, rest |-> <<>>]
Idle == At("idle")

TypeOK ==
  /\ header \in Nat
  /\ file \in [Fds -> File]
  /\ data \in [Addresses -> Data]
  /\ disk \in [header : Nat, file : [Fds -> File], data : [Addresses -> Data]]
  /\ \A a \in Addresses : /\ Len(data[a].content) <= MAX_CONTENT
                          /\ Len(disk.data[a].content) <= MAX_CONTENT
  /\ op \in Op
  /\ written \in [Fds -> Seq(Chars)] /\ acked \in [Fds -> Nat]
  /\ failures \in 0 .. MAX_FAILURES /\ crashes \in 0 .. MAX_CRASHES

\* power-up with the disk that create-disk filled with zeros
Init ==
  /\ header = 0
  /\ file = [i \in Fds |-> NoFile]
  /\ data = [a \in Addresses |-> NoData]
  /\ disk = [header |-> 0, file |-> file, data |-> data]
  /\ op = At("setup")
  /\ written = [i \in Fds |-> <<>>] /\ acked = [i \in Fds |-> 0]
  /\ failures = 0 /\ crashes = 0

----------------------------------------------------------------------------
(* disk_wr: the block is on the disk, or the disk refused it DISK_RETRY times *)
(* and the caller goes on as if it were.                                     *)

DiskWr(new_disk) ==
  \/ disk' = new_disk /\ UNCHANGED failures
  \/ failures < MAX_FAILURES /\ failures' = failures + 1 /\ UNCHANGED disk

disk_of(h, files, blocks) == [header |-> h, file |-> files, data |-> blocks]

WrHeader(h) == DiskWr(disk_of(h, disk.file, disk.data))
WrFile(i, f) == DiskWr(disk_of(disk.header, [disk.file EXCEPT ![i] = f], disk.data))
WrData(a, d) == DiskWr(disk_of(disk.header, disk.file, [disk.data EXCEPT ![a] = d]))

\* Wrong on purpose: the next block in line is asked of the disk.
NewBlockFromDisk(a) ==
  /\ disk.header \in Addresses
  /\ a = disk.header
  /\ header' = a + 1
  /\ WrHeader(a + 1)

\* new_data_block_address: a is the next block in line.  No block is ever
\* given back.  The code checks neither for the last one nor for the 0 that a
\* header never written holds; the model stops there.
NewBlock(a) ==
  /\ header \in Addresses
  /\ a = header
  /\ header' = a + 1
  /\ WrHeader(a + 1)

----------------------------------------------------------------------------
(* Boot: file_setup, then file_disk_load *)

Setup ==
  /\ op.at = "setup"
  /\ header' = FirstBlock
  /\ WrHeader(FirstBlock)
  /\ op' = At("load")
  /\ UNCHANGED <<file, data, written, acked, crashes>>

\* what disk_rd makes of the records and blocks in memory that were zero: those
\* whose read fails stay zero
ReadFiles(lost) == [i \in Fds |-> IF i + 1 \in lost THEN NoFile ELSE disk.file[i]]
ReadData(lost) == [a \in Addresses |-> IF a \in lost THEN NoData ELSE disk.data[a]]

\* the addresses load_data follows for a file record: as many as it counts blocks,
\* wherever next_data_block leads.  (After a block whose read failed the code goes
\* on outside data[]; the model stops there.)
Loads(f, blocks) ==
  LET at[j \in 1 .. f.no_of_blocks] ==
        IF j = 1 THEN f.address
        ELSE IF at[j - 1] \in Addresses THEN blocks[at[j - 1]].next ELSE 0
  IN  at

Loaded(files, blocks) ==
  UNION {Range(Loads(files[i], blocks)) : i \in {j \in Fds : files[j].active}}

\* the reads of the disk blocks lost fail, and the code goes on
LoadWithout(lost) ==
  /\ header' = IF 0 \in lost THEN 0 ELSE disk.header
  /\ file' = ReadFiles(lost)
  /\ data' = [a \in Addresses |->
                IF a \in Loaded(file', ReadData(lost)) THEN ReadData(lost)[a] ELSE data[a]]
  /\ lost \subseteq (0 .. MAX_FILES) \cup Loaded(file', ReadData(lost))

Load ==
  /\ op.at = "load"
  /\ \E lost \in SUBSET (0 .. LastAddress) :
       /\ failures' = failures + Cardinality(lost) /\ failures' <= MAX_FAILURES
       /\ LoadWithout(lost)
  /\ op' = Idle
  /\ UNCHANGED <<disk, written, acked, crashes>>

\* the machine stops, whatever it was doing, and starts again with clear memory
Crash ==
  /\ crashes < MAX_CRASHES
  /\ crashes' = crashes + 1
  /\ header' = 0
  /\ file' = [i \in Fds |-> NoFile]
  /\ data' = [a \in Addresses |-> NoData]
  /\ op' = At("setup")
  /\ UNCHANGED <<disk, written, acked, failures>>

----------------------------------------------------------------------------
(* open and close *)

\* Wrong on purpose: find_file_id stops before the last record.
IsFileStopsShort(i, name) == i < MAX_FILES - 1 /\ file[i].active /\ file[i].name = name

\* find_file_id compares the whole name with what a record keeps of one
IsFile(i, name) == file[i].active /\ file[i].name = name

\* i is what new_file_id returns
IsNewFile(i) == ~file[i].active /\ \A j \in Fds : j < i => file[j].active

\* opening a file that is found open, or one more than MAX_FILES, changes nothing
Open(name) ==
  /\ op.at = "idle"
  /\ \A i \in Fds : ~IsFile(i, name)
  /\ \E i \in Fds, a \in Addresses :
       /\ IsNewFile(i)
       /\ NewBlock(a)
       /\ op' = [at |-> "open", fd |-> i, name |-> name, cur |-> a, rest |-> <<>>]
  /\ UNCHANGED <<file, data, written, acked, crashes>>

NewFile ==
  [active |-> TRUE, name |-> set_file_name(op.name), no_of_blocks |-> 1, address |-> op.cur]

OpenRecord ==
  /\ op.at = "open"
  /\ file' = [file EXCEPT ![op.fd] = NewFile]
  /\ WrFile(op.fd, NewFile)
  /\ op' = Idle
  /\ written' = [written EXCEPT ![op.fd] = <<>>]
  /\ acked' = [acked EXCEPT ![op.fd] = 0]
  /\ UNCHANGED <<header, data, crashes>>

Close(i) ==
  /\ op.at = "idle"
  /\ file' = [file EXCEPT ![i] = NoFile]
  /\ WrFile(i, NoFile)
  /\ written' = [written EXCEPT ![i] = <<>>]
  /\ acked' = [acked EXCEPT ![i] = 0]
  /\ UNCHANGED <<header, data, op, crashes>>

----------------------------------------------------------------------------
(* write *)

\* where file_write starts to append: it follows next out of each full block
LastBlock(i) ==
  LET at[j \in 0 .. file[i].no_of_blocks] ==
        IF j = 0 THEN file[i].address
        ELSE IF at[j - 1] \in Addresses /\ data[at[j - 1]].full THEN data[at[j - 1]].next
        ELSE at[j - 1]
  IN  at[file[i].no_of_blocks]

\* model bound: the call finds the blocks it needs
Room(a, text) ==
  header + (Len(data[a].content) + Len(text)) \div MAX_CONTENT <= LastAddress + 1

\* The call of write.  That the block it starts from is not full is part of
\* ContentIntact; what it does to a full one is undefined.  As a restart lets
\* files share blocks (BlocksKeptForever), and so meet such blocks, the model
\* follows writes up to the first restart only.
Write(i, text) ==
  /\ op.at = "idle" /\ file[i].active /\ crashes = 0
  /\ \E a \in Addresses :
       /\ a = LastBlock(i) /\ ~data[a].full /\ Room(a, text)
       /\ op' = [at |-> "write", fd |-> i, name |-> NoName, cur |-> a, rest |-> text]
  /\ written' = [written EXCEPT ![i] = @ \o text]
  /\ UNCHANGED <<header, file, data, disk, acked, failures, crashes>>

\* Wrong on purpose: one character more than is left.
SizeLeftOffByOne == MAX_CONTENT + 1 - Len(data[op.cur].content)

SizeLeft == MAX_CONTENT - Len(data[op.cur].content)

Moved(where, cur, rest) ==
  [at |-> where, fd |-> op.fd, name |-> NoName, cur |-> cur, rest |-> rest]

Returned ==
  /\ op' = Idle
  /\ acked' = [acked EXCEPT ![op.fd] = Len(written[op.fd])]

Appended(d, text) == [content |-> d.content \o text, full |-> d.full, next |-> d.next]

\* what is left to write fits in the block and does not fill it
WriteShort ==
  /\ op.at = "write"
  /\ Len(op.rest) < SizeLeft
  /\ LET d == Appended(data[op.cur], op.rest)
     IN  data' = [data EXCEPT ![op.cur] = d] /\ WrData(op.cur, d)
  /\ Returned
  /\ UNCHANGED <<header, file, written, crashes>>

\* Wrong on purpose: input is not advanced.
SameInput(text, n) == text

Beyond(text, n) == SubSeq(text, n + 1, Len(text))

Filled(d, text, a) == [content |-> d.content \o text, full |-> TRUE, next |-> a]

\* what is left fills the block: it gets a successor
WriteFull ==
  /\ op.at = "write"
  /\ Len(op.rest) >= SizeLeft
  /\ \E a \in Addresses :
       /\ NewBlock(a)
       /\ data' = [data EXCEPT ![op.cur] = Filled(@, SubSeq(op.rest, 1, SizeLeft), a)]
  /\ op' = Moved("link", op.cur, Beyond(op.rest, SizeLeft))
  /\ UNCHANGED <<file, written, acked, crashes>>

\* Wrong on purpose: the full block is not saved.
WriteLinkUnsaved ==
  /\ op.at = "link"
  /\ op' = Moved("count", data[op.cur].next, op.rest)
  /\ UNCHANGED <<header, file, data, disk, written, acked, failures, crashes>>

WriteLink ==
  /\ op.at = "link"
  /\ WrData(op.cur, data[op.cur])
  /\ op' = Moved("count", data[op.cur].next, op.rest)
  /\ UNCHANGED <<header, file, data, written, acked, crashes>>

OneMoreBlock(f) ==
  [active |-> f.active, name |-> f.name, no_of_blocks |-> f.no_of_blocks + 1,
   address |-> f.address]

WriteCount ==
  /\ op.at = "count"
  /\ LET f == OneMoreBlock(file[op.fd])
     IN  file' = [file EXCEPT ![op.fd] = f] /\ WrFile(op.fd, f)
  /\ \/ op.rest = <<>> /\ Returned
     \/ op.rest # <<>> /\ op' = Moved("write", op.cur, op.rest) /\ UNCHANGED acked
  /\ UNCHANGED <<header, data, written, crashes>>

----------------------------------------------------------------------------
(* read: it changes nothing *)

\* Wrong on purpose: what a full block gave is not taken off n_left.
ReadWithoutCount(i, n) ==
  LET read[a \in Addresses] ==
        IF n > MAX_CONTENT /\ data[a].full
        THEN data[a].content \o read[data[a].next]
        ELSE First(data[a].content, n)
  IN  read[file[i].address]

\* the characters file_read returns when n are asked for.  Nothing ends the
\* content of a full block but the flag behind it, which strlen counts.
FileRead(i, n) ==
  LET read[a \in Addresses] ==
        [left \in Nat |->
           IF left > MAX_CONTENT /\ data[a].full
           THEN data[a].content \o read[data[a].next][left - (MAX_CONTENT + 1)]
           ELSE First(data[a].content, left)]
  IN  read[file[i].address][n]

----------------------------------------------------------------------------

Next ==
  \/ Setup \/ Load \/ Crash
  \/ \E name \in Names : Open(name)
  \/ OpenRecord
  \/ \E i \in Fds : Close(i)
  \/ \E i \in Fds, text \in Texts : Write(i, text)
  \/ WriteShort \/ WriteFull \/ WriteLink \/ WriteCount

Spec == Init /\ [][Next]_vars

----------------------------------------------------------------------------
(* Properties *)

\* the characters in the chain of blocks that starts at a, in blocks as in d
ContentOf(d, a) ==
  LET from[b \in Nat] ==
        IF b \notin Addresses THEN <<>>
        ELSE IF d[b].full THEN d[b].content \o from[d[b].next]
        ELSE d[b].content
  IN  from[a]

\* the blocks that file records and full blocks point to, by who points
FilesTo(a) == {i \in Fds : file[i].active /\ file[i].address = a}
DataTo(a) == {b \in Addresses : data[b].full /\ data[b].next = a}

Unshared ==
  \A a \in Addresses :
    /\ \A i, j \in FilesTo(a) : i = j
    /\ \A b, c \in DataTo(a) : b = c
    /\ FilesTo(a) = {} \/ DataTo(a) = {}

NoneBeyondHeader ==
  \A a \in Addresses : a >= header => FilesTo(a) = {} /\ DataTo(a) = {}

(* A block belongs to one file, at one place of its chain, and none is in    *)
(* use that the header has still to give out, whichever disk writes fail     *)
(* (new_data_block_address counts in memory and only then tells the disk).   *)
(* Until the machine is restarted.                                           *)
NoSharedBlocks == crashes = 0 => Unshared /\ NoneBeyondHeader

(* What file_open, file_write and new_data_block_address say of themselves   *)
(* holds after a restart too: the header is initialised "only on a new disk" *)
(* (mem.c:7), so the blocks of the files found on the disk stay theirs.      *)
BlocksKeptForever == Unshared

(* The blocks of an open file hold what it was given, in order, call after   *)
(* call, but for what the call in progress has still to write, whichever     *)
(* disk writes fail; and the block the next call starts from has room.       *)
ContentIntact ==
  crashes = 0 =>
    \A i \in Fds :
      file[i].active =>
        /\ ContentOf(data, file[i].address) \o (IF op.fd = i THEN op.rest ELSE <<>>)
             = written[i]
        /\ op.at = "idle" => LastBlock(i) \in Addresses /\ ~data[LastBlock(i)].full

(* When no disk access failed, a restart at any point finds every file that   *)
(* was written to, with all that calls of write returned for and nothing     *)
(* that was not written; and load_data stays inside data[].                  *)
RestartKeepsFiles ==
  [][Load /\ crashes = 1 /\ failures' = 0 =>
       \A i \in Fds :
         /\ acked[i] > 0 => file'[i].active
         /\ file'[i].active =>
              LET content == ContentOf(data', file'[i].address)
              IN  /\ Range(Loads(disk.file[i], disk.data)) \subseteq Addresses
                  /\ IsPrefix(content, written[i])
                  /\ Len(content) >= acked[i]]_vars

\* what records keep of names that are longer
CutNames == {set_file_name(name) : name \in {n \in Names : Len(n) > MAX_NAME}}

(* Two open files have different names, through restarts too, when no access *)
(* to the disk failed: find_file_id looks through all the records.  But for  *)
(* names that a longer one is cut to (mem.c:38-44): the longer one is never   *)
(* found (mem.c:50), so every call that opens it makes one more file of that *)
(* name.                                                                     *)
NamesUnique ==
  failures = 0 =>
    \A i, j \in Fds :
      /\ file[i].active /\ file[j].active /\ file[i].name = file[j].name
      /\ file[i].name \notin CutNames
      => i = j

(* A read returns the start of the file, never more characters than were     *)
(* asked for (the buffer of file_read has room for n).                       *)
ReadIsPrefix ==
  crashes = 0 /\ op.at = "idle" =>
    \A i \in Fds, n \in 0 .. MAX_READ :
      file[i].active => IsPrefix(FileRead(i, n), written[i]) /\ Len(FileRead(i, n)) <= n

(* libc.h:87: "read n bytes into x from the file descriptor fd": all n, of a *)
(* file that has as many.                                                    *)
ReadsAllOfN ==
  crashes = 0 /\ op.at = "idle" =>
    \A i \in Fds, n \in 0 .. MAX_READ :
      file[i].active /\ n <= Len(written[i]) => Len(FileRead(i, n)) = n

=============================================================================
