----------------------------- MODULE FilesProofs -----------------------------
(* Proofs about module Files, for every size of the tables and of a block,   *)
(* every set of names and texts, and any number of failed writes and         *)
(* restarts.                                                                 *)
EXTENDS Files, TLAPS, WellFoundedInduction, SequenceTheorems, FiniteSetTheorems

Blocks == {d \in [Addresses -> Data] : \A a \in Addresses : Len(d[a].content) <= MAX_CONTENT}
Disk == [header : Nat, file : [Fds -> File], data : Blocks]

(* Which blocks the call in progress is at. *)
OpOK ==
  /\ op.at \in {"open", "write", "link", "count"} => op.cur \in Addresses
  /\ op.at = "link" => data[op.cur].next \in Addresses

(* Before the first boot is through nothing is in use, on the disk either. *)
Fresh ==
  op.at \in {"setup", "load"} =>
    /\ \A i \in Fds : ~file[i].active /\ ~disk.file[i].active
    /\ \A a \in Addresses : ~data[a].full

FilePoints(i, a) == file[i].active /\ file[i].address = a
DataPoints(b, a) == data[b].full /\ data[b].next = a

(* Unshared, pointer by pointer. *)
OneOwner ==
  \A a \in Addresses :
    /\ \A i, j \in Fds : FilePoints(i, a) /\ FilePoints(j, a) => i = j
    /\ \A b, c \in Addresses : DataPoints(b, a) /\ DataPoints(c, a) => b = c
    /\ \A i \in Fds, b \in Addresses : ~(FilePoints(i, a) /\ DataPoints(b, a))

Free(a) ==
  /\ \A i \in Fds : ~FilePoints(i, a)
  /\ \A b \in Addresses : ~DataPoints(b, a)

(* Blocks the header has still to give out, and the one file_open has got    *)
(* and not yet put in the record, are free.                                  *)
FreeBeyondHeader == \A a \in Addresses : a >= header => Free(a)

PendingFree == op.at = "open" => op.cur < header /\ Free(op.cur)

IInv ==
  /\ TypeOK
  /\ OpOK
  /\ crashes = 0 => Fresh /\ OneOwner /\ FreeBeyondHeader /\ PendingFree

----------------------------------------------------------------------------

LEMMA ConstantTypes ==
  /\ MAX_FILES \in Nat /\ MAX_FILES > 0 /\ MAX_CONTENT \in Nat /\ MAX_FAILURES \in Nat
  /\ MAX_CRASHES \in Nat /\ MAX_DATA_LINES \in Nat
  /\ 0 \in Fds /\ FirstBlock \in Nat
  /\ \A a \in Addresses : a \in Nat
BY FilesAssumption DEF Fds, FirstBlock, Addresses, LastAddress

(* The two halves of a text, and what is put behind it. *)
LEMMA ConcatFacts ==
  ASSUME NEW S, NEW s \in Seq(S), NEW t \in Seq(S)
  PROVE  s \o t \in Seq(S) /\ Len(s \o t) = Len(s) + Len(t)
         /\ Len(s) \in Nat /\ Len(t) \in Nat
OBVIOUS

LEMMA CutFacts ==
  ASSUME NEW S, NEW s \in Seq(S), NEW n \in Nat, n <= Len(s)
  PROVE  /\ SubSeq(s, 1, n) \in Seq(S) /\ Len(SubSeq(s, 1, n)) = n
         /\ Beyond(s, n) \in Seq(S)
<1>1. Len(s) \in Nat
  OBVIOUS
<1>2. SubSeq(s, 1, n) \in Seq(S) /\ Len(SubSeq(s, 1, n)) = n
  BY <1>1
<1>3. SubSeq(s, n + 1, Len(s)) \in Seq(S)
  BY <1>1
<1> QED BY <1>2, <1>3 DEF Beyond

(* Characters in a block, to come, and at most. *)
LEMMA RoomFacts ==
  ASSUME NEW used \in Nat, NEW more \in Nat, NEW max \in Nat, used <= max
  PROVE  /\ max - used \in Nat
         /\ more < max - used => used + more <= max
         /\ more >= max - used => max - used <= more
OBVIOUS

(* What a disk write leaves behind, done or failed. *)
LEMMA DiskWrTyped ==
  ASSUME TypeOK, NEW d \in Disk, DiskWr(d)
  PROVE  /\ disk' = d \/ disk' = disk
         /\ disk' \in Disk
         /\ failures' \in 0 .. MAX_FAILURES
<1>1. disk \in Disk /\ failures \in 0 .. MAX_FAILURES
  BY DEF TypeOK, Disk, Blocks
<1>2. CASE disk' = d /\ UNCHANGED failures
  BY <1>1, <1>2
<1>3. CASE failures < MAX_FAILURES /\ failures' = failures + 1 /\ UNCHANGED disk
  BY <1>1, <1>3, ConstantTypes
<1> QED BY <1>2, <1>3 DEF DiskWr

LEMMA NewBlockTyped ==
  ASSUME TypeOK, NEW a \in Addresses, NewBlock(a)
  PROVE  /\ a = header /\ header' = header + 1 /\ header' \in Nat
         /\ disk' \in Disk /\ disk'.file = disk.file
         /\ failures' \in 0 .. MAX_FAILURES
<1>1. a = header /\ header' = header + 1 /\ a \in Nat
  BY ConstantTypes DEF NewBlock
<1>2. disk_of(a + 1, disk.file, disk.data) \in Disk
  BY <1>1 DEF TypeOK, Disk, Blocks, disk_of
<1>3. DiskWr(disk_of(a + 1, disk.file, disk.data))
  BY DEF NewBlock, WrHeader
<1>4. disk' = disk_of(a + 1, disk.file, disk.data) \/ disk' = disk
  BY <1>2, <1>3, DiskWrTyped
<1>5. disk'.file = disk.file
  BY <1>4 DEF disk_of
<1> QED BY <1>1, <1>2, <1>3, <1>5, DiskWrTyped

LEMMA WrFileTyped ==
  ASSUME TypeOK, NEW i \in Fds, NEW f \in File, WrFile(i, f)
  PROVE  disk' \in Disk /\ failures' \in 0 .. MAX_FAILURES
<1>1. disk_of(disk.header, [disk.file EXCEPT ![i] = f], disk.data) \in Disk
  BY DEF TypeOK, Disk, Blocks, disk_of
<1> QED BY <1>1, DiskWrTyped DEF WrFile

LEMMA WrDataTyped ==
  ASSUME TypeOK, NEW a \in Addresses, NEW d \in Data, Len(d.content) <= MAX_CONTENT,
         WrData(a, d)
  PROVE  disk' \in Disk /\ failures' \in 0 .. MAX_FAILURES
<1>1. [disk.data EXCEPT ![a] = d] \in Blocks
  BY DEF TypeOK, Blocks
<1>2. disk_of(disk.header, disk.file, [disk.data EXCEPT ![a] = d]) \in Disk
  BY <1>1 DEF TypeOK, Disk, disk_of
<1> QED BY <1>2, DiskWrTyped DEF WrData

LEMMA IdleTyped ==
  /\ \A where \in {"setup", "load", "idle"} : At(where) \in Op /\ At(where).at = where
  /\ Idle \in Op /\ Idle.at = "idle"
  /\ NoFile \in File /\ ~NoFile.active
  /\ NoData \in Data /\ ~NoData.full /\ Len(NoData.content) = 0
BY ConstantTypes DEF At, Idle, Op, NoFile, File, NoData, Data

----------------------------------------------------------------------------

(* TypeOK, as the steps below use and prove it. *)
Types ==
  /\ header \in Nat /\ file \in [Fds -> File] /\ data \in Blocks /\ disk \in Disk
  /\ op \in Op
  /\ written \in [Fds -> Seq(Chars)] /\ acked \in [Fds -> Nat]
  /\ failures \in 0 .. MAX_FAILURES /\ crashes \in 0 .. MAX_CRASHES

LEMMA TypesSame == TypeOK <=> Types
BY DEF TypeOK, Types, Disk, Blocks

(* A record keeps all of a name that is not too long. *)
LEMMA ShortNames ==
  ASSUME NEW name \in Names \cup {NoName}, Len(name) <= MAX_NAME
  PROVE  set_file_name(name) = name
<1> DEFINE S == STRING
<1> HIDE DEF S
<1>1. name \in Seq(S) /\ Len(name) \in Nat /\ MAX_NAME \in Nat
  <2>1. \A n \in Names : n \in Seq(S)
    BY NamesAssumption DEF S
  <2>2. NoName \in Seq(S)
    BY EmptySeq DEF NoName
  <2>3. name \in Seq(S)
    BY <2>1, <2>2
  <2> QED BY <2>3, FilesAssumption
<1>2. ~(MAX_NAME < Len(name))
  BY <1>1
<1>3. set_file_name(name) = SubSeq(name, 1, Len(name))
  BY <1>2 DEF set_file_name, First
<1> QED BY <1>1, <1>3

LEMMA KeptNames ==
  /\ \A name \in Names \cup {NoName} :
       set_file_name(name) \in {set_file_name(n) : n \in Names} \cup {NoName}
  /\ \A name \in Names \cup {NoName} :
       set_file_name(name) \notin CutNames => set_file_name(name) = name
<1>1. set_file_name(NoName) = NoName
  <2>1. Len(NoName) = 0 /\ MAX_NAME \in Nat
    BY FilesAssumption DEF NoName
  <2> QED BY <2>1, ShortNames
<1>2. ASSUME NEW name \in Names, set_file_name(name) \notin CutNames
      PROVE  set_file_name(name) = name
  <2>1. ~(Len(name) > MAX_NAME)
    BY <1>2 DEF CutNames
  <2>2. Len(name) \in Nat /\ MAX_NAME \in Nat
    BY NamesAssumption, FilesAssumption
  <2> QED BY <2>1, <2>2, ShortNames
<1> QED BY <1>1, <1>2

(* The reads at boot: some fail, and that is counted; or all the disk has    *)
(* gets into memory.                                                         *)
DiskLoads(i) == Loads(disk.file[i], disk.data)
AllLoaded == Loaded(disk.file, disk.data)

LEMMA LoadEffect ==
  ASSUME Types, Load
  PROVE  \E lost \in SUBSET (0 .. LastAddress) :
           /\ LoadWithout(lost)
           /\ failures' \in 0 .. MAX_FAILURES
           /\ failures' = 0 => lost = {} /\ failures = 0
<1>1. PICK lost \in SUBSET (0 .. LastAddress) :
        /\ failures' = failures + Cardinality(lost) /\ failures' <= MAX_FAILURES
        /\ LoadWithout(lost)
  BY DEF Load
<1>2. LastAddress \in Int
  BY FilesAssumption DEF LastAddress
<1>3. IsFiniteSet(lost)
  <2>1. 0 \in Int
    OBVIOUS
  <2>2. IsFiniteSet(0 .. LastAddress)
    BY <1>2, <2>1, FS_Interval
  <2> QED BY <2>2, FS_Subset
<1>4. Cardinality(lost) \in Nat /\ (Cardinality(lost) = 0 <=> lost = {})
  BY <1>3, FS_CardinalityType, FS_EmptySet
<1>5. failures \in Nat /\ MAX_FAILURES \in Nat
  BY FilesAssumption DEF Types
<1> QED BY <1>1, <1>4, <1>5

LEMMA FullLoad ==
  ASSUME Types, Load, failures' = 0
  PROVE  /\ failures = 0 /\ header' = disk.header /\ file' = disk.file
         /\ data' = [a \in Addresses |-> IF a \in AllLoaded THEN disk.data[a] ELSE data[a]]
<1>1. LoadWithout({}) /\ failures = 0
  BY LoadEffect
<1>2. disk.file \in [Fds -> File] /\ disk.data \in [Addresses -> Data]
  BY DEF Types, Disk, Blocks
<1>3. ReadFiles({}) = disk.file
  BY <1>2 DEF ReadFiles
<1>4. ReadData({}) = disk.data
  BY <1>2 DEF ReadData
<1> QED BY <1>1, <1>3, <1>4 DEF LoadWithout, AllLoaded

(* Of an empty disk nothing is loaded, whichever reads fail. *)
LEMMA EmptyLoad ==
  ASSUME Load, Types, \A i \in Fds : ~disk.file[i].active
  PROVE  /\ \A i \in Fds : ~file'[i].active
         /\ data' = [a \in Addresses |-> data[a]]
<1>1. PICK lost \in SUBSET (0 .. LastAddress) : LoadWithout(lost)
  BY LoadEffect
<1>2. \A i \in Fds : ~file'[i].active
  BY <1>1 DEF LoadWithout, ReadFiles, NoFile
<1>3. Loaded(file', ReadData(lost)) = {}
  BY <1>2 DEF Loaded
<1> QED BY <1>1, <1>2, <1>3 DEF LoadWithout

LEMMA InitIInv == Init => IInv
<1> SUFFICES ASSUME Init PROVE IInv
  OBVIOUS
<1>1. TypeOK
  BY IdleTyped, ConstantTypes DEF Init, TypeOK
<1>2. OpOK
  BY IdleTyped DEF Init, OpOK
<1>3. Fresh
  BY IdleTyped DEF Init, Fresh
<1>4. \A a \in Addresses : Free(a)
  BY IdleTyped DEF Init, Free, FilePoints, DataPoints
<1>5. OneOwner
  BY <1>4 DEF OneOwner, Free
<1>6. FreeBeyondHeader
  BY <1>4 DEF FreeBeyondHeader
<1>7. PendingFree
  BY IdleTyped DEF Init, PendingFree
<1> QED BY <1>1, <1>2, <1>3, <1>5, <1>6, <1>7 DEF IInv

(* Types and the progress of the call, action by action. *)

LEMMA TypeStep == IInv /\ [Next]_vars => TypeOK' /\ OpOK'
<1> SUFFICES ASSUME TypeOK, OpOK, [Next]_vars PROVE Types' /\ OpOK'
  <2>1. Types' <=> TypeOK'
    BY TypesSame, PTL
  <2> QED BY <2>1 DEF IInv
<1> USE ConstantTypes, IdleTyped
<1>types. Types
  BY TypesSame
<1>block. \A a \in Addresses :
            /\ data[a] \in Data /\ Len(data[a].content) <= MAX_CONTENT
            /\ data[a].content \in Seq(Chars) /\ data[a].next \in Nat
            /\ data[a].full \in BOOLEAN
  BY <1>types DEF Types, Blocks, Data
<1>op. /\ op.fd \in Fds /\ op.cur \in Nat /\ op.rest \in Seq(Chars)
       /\ op.name \in Names \cup {NoName}
  BY <1>types DEF Types, Op
<1>history. written[op.fd] \in Seq(Chars) /\ Len(written[op.fd]) \in Nat
  BY <1>types, <1>op DEF Types
<1>same. CASE UNCHANGED vars
  BY <1>same, <1>types DEF vars, Types, OpOK
<1>1. CASE Setup
  <2>1. header' \in Nat
    BY <1>1 DEF Setup
  <2>2. disk_of(FirstBlock, disk.file, disk.data) \in Disk
    BY <1>types DEF Types, Disk, disk_of
  <2>3. disk' \in Disk /\ failures' \in 0 .. MAX_FAILURES
    BY <1>1, <2>2, DiskWrTyped DEF Setup, WrHeader
  <2>4. op' \in Op /\ op'.at = "load"
    BY <1>1 DEF Setup
  <2>5. Types'
    BY <1>1, <1>types, <2>1, <2>3, <2>4 DEF Setup, Types
  <2> QED BY <2>4, <2>5 DEF OpOK
<1>2. CASE Load
  <2> PICK lost \in SUBSET (0 .. LastAddress) :
             LoadWithout(lost) /\ failures' \in 0 .. MAX_FAILURES
    BY <1>2, <1>types, LoadEffect
  <2>1. header' \in Nat /\ file' \in [Fds -> File]
    BY <1>types DEF LoadWithout, ReadFiles, Types, Disk
  <2>2. \A a \in Addresses : disk.data[a] \in Data /\ Len(disk.data[a].content) <= MAX_CONTENT
    BY <1>types DEF Types, Disk, Blocks
  <2>3. \A a \in Addresses : data'[a] \in {data[a], disk.data[a], NoData}
    BY DEF LoadWithout, ReadData
  <2>4. data' \in Blocks
    <3>1. data' = [a \in Addresses |-> data'[a]]
      BY DEF LoadWithout
    <3>2. \A a \in Addresses : data'[a] \in Data /\ Len(data'[a].content) <= MAX_CONTENT
      BY <1>block, <2>2, <2>3
    <3> QED BY <3>1, <3>2 DEF Blocks
  <2>5. op' \in Op /\ op'.at = "idle"
    BY <1>2 DEF Load
  <2>6. Types'
    BY <1>2, <1>types, <2>1, <2>4, <2>5 DEF Load, Types
  <2> QED BY <2>5, <2>6 DEF OpOK
<1>3. CASE Crash
  <2>1. op' \in Op /\ op'.at = "setup"
    BY <1>3 DEF Crash
  <2>2. data' \in Blocks /\ file' \in [Fds -> File] /\ header' = 0
    BY <1>3 DEF Crash, Blocks
  <2>3. crashes' \in 0 .. MAX_CRASHES
    BY <1>3, <1>types DEF Crash, Types
  <2>4. Types'
    BY <1>3, <1>types, <2>1, <2>2, <2>3 DEF Crash, Types
  <2> QED BY <2>1, <2>4 DEF OpOK
<1>4. ASSUME NEW name \in Names, Open(name) PROVE Types' /\ OpOK'
  <2>1. PICK i \in Fds, a \in Addresses :
          /\ NewBlock(a)
          /\ op' = [at |-> "open", fd |-> i, name |-> name, cur |-> a, rest |-> <<>>]
    BY <1>4 DEF Open
  <2>2. op' \in Op /\ op'.at = "open" /\ op'.cur = a
    BY <2>1 DEF Op
  <2>3. Types'
    BY <1>4, <1>types, <2>1, <2>2, NewBlockTyped DEF Open, Types
  <2> QED BY <2>2, <2>3 DEF OpOK
<1>5. CASE OpenRecord
  <2>1. NewFile \in File
    BY <1>op, KeptNames DEF NewFile, File
  <2>2. disk' \in Disk /\ failures' \in 0 .. MAX_FAILURES
    BY <1>5, <1>op, <2>1, WrFileTyped DEF OpenRecord
  <2>3. file' \in [Fds -> File] /\ written' \in [Fds -> Seq(Chars)] /\ acked' \in [Fds -> Nat]
    BY <1>5, <1>types, <1>op, <2>1 DEF OpenRecord, Types
  <2>4. op' \in Op /\ op'.at = "idle"
    BY <1>5 DEF OpenRecord
  <2>5. Types'
    BY <1>5, <1>types, <2>2, <2>3, <2>4 DEF OpenRecord, Types
  <2> QED BY <2>4, <2>5 DEF OpOK
<1>6. ASSUME NEW i \in Fds, Close(i) PROVE Types' /\ OpOK'
  <2>1. disk' \in Disk /\ failures' \in 0 .. MAX_FAILURES
    BY <1>6, WrFileTyped DEF Close
  <2>2. file' \in [Fds -> File] /\ written' \in [Fds -> Seq(Chars)] /\ acked' \in [Fds -> Nat]
    BY <1>6, <1>types DEF Close, Types
  <2>3. Types'
    BY <1>6, <1>types, <2>1, <2>2 DEF Close, Types
  <2> QED BY <1>6, <2>3 DEF Close, OpOK
<1>7. ASSUME NEW i \in Fds, NEW text \in Texts, Write(i, text) PROVE Types' /\ OpOK'
  <2>1. PICK a \in Addresses :
          op' = [at |-> "write", fd |-> i, name |-> NoName, cur |-> a, rest |-> text]
    BY <1>7 DEF Write
  <2>2. text \in Seq(Chars)
    BY TextsAssumption
  <2>3. op' \in Op /\ op'.at = "write" /\ op'.cur = a
    BY <2>1, <2>2 DEF Op
  <2>4. written' \in [Fds -> Seq(Chars)]
    BY <1>7, <1>types, <2>2 DEF Write, Types
  <2>5. Types'
    BY <1>7, <1>types, <2>3, <2>4 DEF Write, Types
  <2> QED BY <2>3, <2>5 DEF OpOK
<1>8. CASE WriteShort
  <2>1. op.cur \in Addresses
    BY <1>8 DEF WriteShort, OpOK
  <2> DEFINE d == Appended(data[op.cur], op.rest)
  <2> DEFINE whole == data[op.cur].content \o op.rest
  <2>2. whole \in Seq(Chars) /\ Len(whole) <= MAX_CONTENT
    <3>1. /\ whole \in Seq(Chars)
          /\ Len(whole) = Len(data[op.cur].content) + Len(op.rest)
          /\ Len(data[op.cur].content) \in Nat /\ Len(op.rest) \in Nat
      BY <1>block, <1>op, <2>1, ConcatFacts
    <3>2. Len(op.rest) < MAX_CONTENT - Len(data[op.cur].content)
      BY <1>8 DEF WriteShort, SizeLeft
    <3>3. Len(data[op.cur].content) + Len(op.rest) <= MAX_CONTENT
      BY <1>block, <2>1, <3>1, <3>2, RoomFacts
    <3> HIDE DEF whole
    <3> QED BY <3>1, <3>3
  <2>3. d \in Data /\ Len(d.content) <= MAX_CONTENT
    <3>1. d = [content |-> whole, full |-> data[op.cur].full, next |-> data[op.cur].next]
      BY DEF Appended
    <3> HIDE DEF d, whole
    <3> QED BY <1>block, <2>1, <2>2, <3>1 DEF Data
  <2>4. disk' \in Disk /\ failures' \in 0 .. MAX_FAILURES
    BY <1>8, <2>1, <2>3, WrDataTyped DEF WriteShort
  <2>5. data' \in Blocks
    BY <1>8, <1>types, <2>1, <2>3 DEF WriteShort, Types, Blocks
  <2>6. op' \in Op /\ op'.at = "idle" /\ acked' \in [Fds -> Nat]
    BY <1>8, <1>types, <1>history DEF WriteShort, Returned, Types
  <2>7. Types'
    BY <1>8, <1>types, <2>4, <2>5, <2>6 DEF WriteShort, Types
  <2> QED BY <2>6, <2>7 DEF OpOK
<1>9. CASE WriteFull
  <2>1. op.cur \in Addresses
    BY <1>9 DEF WriteFull, OpOK
  <2>2. PICK a \in Addresses :
          /\ NewBlock(a)
          /\ data' = [data EXCEPT ![op.cur] =
                        Filled(data[op.cur], SubSeq(op.rest, 1, SizeLeft), a)]
    BY <1>9 DEF WriteFull
  <2>3. SizeLeft \in Nat /\ SizeLeft <= Len(op.rest)
    <3>1. Len(data[op.cur].content) \in Nat /\ Len(op.rest) \in Nat
      BY <1>block, <1>op, <2>1
    <3>2. Len(op.rest) >= SizeLeft
      BY <1>9 DEF WriteFull
    <3> QED BY <1>block, <2>1, <3>1, <3>2, RoomFacts DEF SizeLeft
  <2>4. /\ SubSeq(op.rest, 1, SizeLeft) \in Seq(Chars)
        /\ Len(SubSeq(op.rest, 1, SizeLeft)) = SizeLeft
        /\ Beyond(op.rest, SizeLeft) \in Seq(Chars)
    BY <1>op, <2>3, CutFacts
  <2> DEFINE d == Filled(data[op.cur], SubSeq(op.rest, 1, SizeLeft), a)
  <2> DEFINE whole == data[op.cur].content \o SubSeq(op.rest, 1, SizeLeft)
  <2>5. whole \in Seq(Chars) /\ Len(whole) <= MAX_CONTENT
    <3>1. /\ whole \in Seq(Chars)
          /\ Len(whole) = Len(data[op.cur].content) + SizeLeft
          /\ Len(data[op.cur].content) \in Nat
      BY <1>block, <2>1, <2>4, ConcatFacts
    <3> HIDE DEF whole
    <3> QED BY <3>1, <2>3 DEF SizeLeft
  <2>6. d \in Data /\ Len(d.content) <= MAX_CONTENT /\ d.next = a
    <3>1. d = [content |-> whole, full |-> TRUE, next |-> a]
      BY DEF Filled
    <3> HIDE DEF d, whole
    <3> QED BY <2>5, <3>1 DEF Data
  <2>7. data' \in Blocks /\ data'[op.cur].next = a
    BY <1>types, <2>1, <2>2, <2>6 DEF Types, Blocks
  <2>8. op' \in Op /\ op'.at = "link" /\ op'.cur = op.cur
    BY <1>9, <1>op, <2>4 DEF WriteFull, Moved, Op
  <2>9. Types'
    BY <1>9, <1>types, <2>2, <2>7, <2>8, NewBlockTyped DEF WriteFull, Types
  <2> QED BY <2>1, <2>7, <2>8, <2>9 DEF OpOK
<1>10. CASE WriteLink
  <2>1. op.cur \in Addresses /\ data[op.cur].next \in Addresses
    BY <1>10 DEF WriteLink, OpOK
  <2>2. disk' \in Disk /\ failures' \in 0 .. MAX_FAILURES
    BY <1>10, <1>block, <2>1, WrDataTyped DEF WriteLink
  <2>3. op' \in Op /\ op'.at = "count" /\ op'.cur \in Addresses
    BY <1>10, <1>op, <2>1 DEF WriteLink, Moved, Op
  <2>4. Types'
    BY <1>10, <1>types, <2>2, <2>3 DEF WriteLink, Types
  <2> QED BY <2>3, <2>4 DEF OpOK
<1>11. CASE WriteCount
  <2>1. op.cur \in Addresses
    BY <1>11 DEF WriteCount, OpOK
  <2> DEFINE f == OneMoreBlock(file[op.fd])
  <2>2. file[op.fd] \in File
    BY <1>types, <1>op DEF Types
  <2>3. f \in File
    BY <2>2 DEF OneMoreBlock, File
  <2>4. disk' \in Disk /\ failures' \in 0 .. MAX_FAILURES
    BY <1>11, <1>op, <2>3, WrFileTyped DEF WriteCount
  <2>5. file' \in [Fds -> File]
    BY <1>11, <1>types, <1>op, <2>3 DEF WriteCount, Types
  <2>6. CASE op.rest = <<>> /\ Returned
    <3>1. op' \in Op /\ op'.at = "idle" /\ acked' \in [Fds -> Nat]
      BY <1>types, <1>history, <2>6 DEF Returned, Types
    <3>2. Types'
      BY <1>11, <1>types, <2>4, <2>5, <3>1 DEF WriteCount, Types
    <3> QED BY <3>1, <3>2 DEF OpOK
  <2>7. CASE op' = Moved("write", op.cur, op.rest) /\ UNCHANGED acked
    <3>1. op' \in Op /\ op'.at = "write" /\ op'.cur \in Addresses
      BY <1>op, <2>1, <2>7 DEF Moved, Op
    <3>2. Types'
      BY <1>11, <1>types, <2>4, <2>5, <2>7, <3>1 DEF WriteCount, Types
    <3> QED BY <3>1, <3>2 DEF OpOK
  <2> QED BY <1>11, <2>6, <2>7 DEF WriteCount
<1> QED BY <1>same, <1>1, <1>2, <1>3, <1>4, <1>5, <1>6, <1>7, <1>8, <1>9, <1>10, <1>11 DEF Next

----------------------------------------------------------------------------
(* Ownership of the blocks, until the first restart. *)

(* A step that adds no pointer and takes no block back shares none. *)
LEMMA NoNewPointers ==
  ASSUME OneOwner, FreeBeyondHeader, header \in Nat, header' \in Nat, header' >= header,
         \A a \in Addresses, i \in Fds : FilePoints(i, a)' => FilePoints(i, a),
         \A a \in Addresses, b \in Addresses : DataPoints(b, a)' => DataPoints(b, a)
  PROVE  OneOwner' /\ FreeBeyondHeader'
<1>1. OneOwner'
  BY DEF OneOwner
<1>2. FreeBeyondHeader'
  BY ConstantTypes DEF FreeBeyondHeader, Free
<1> QED BY <1>1, <1>2

(* A step that makes one block, free so far, the target of one file record. *)
LEMMA NewFilePointer ==
  ASSUME OneOwner, FreeBeyondHeader, header' = header,
         NEW fd \in Fds, NEW cur \in Addresses, Free(cur), ~(cur >= header),
         \A a \in Addresses, i \in Fds :
            FilePoints(i, a)' => (i = fd /\ a = cur) \/ (i # fd /\ FilePoints(i, a)),
         \A a \in Addresses, b \in Addresses : DataPoints(b, a)' => DataPoints(b, a)
  PROVE  OneOwner' /\ FreeBeyondHeader'
<1>1. OneOwner'
  BY DEF OneOwner, Free
<1>2. FreeBeyondHeader'
  BY DEF FreeBeyondHeader, Free
<1> QED BY <1>1, <1>2

(* A step that makes the block at the header the target of one data block. *)
LEMMA NewDataPointer ==
  ASSUME OneOwner, FreeBeyondHeader, header \in Addresses, header' = header + 1,
         NEW cur \in Addresses,
         \A a \in Addresses, i \in Fds : FilePoints(i, a)' => FilePoints(i, a),
         \A a \in Addresses, b \in Addresses :
            DataPoints(b, a)' => (b = cur /\ a = header) \/ (b # cur /\ DataPoints(b, a))
  PROVE  OneOwner' /\ FreeBeyondHeader'
<1>0. header \in Nat /\ Free(header)
  BY ConstantTypes DEF FreeBeyondHeader
<1>1. OneOwner'
  BY <1>0 DEF OneOwner, Free
<1>2. \A a \in Addresses : a >= header' => a >= header /\ a # header
  BY <1>0, ConstantTypes
<1>3. FreeBeyondHeader'
  BY <1>2 DEF FreeBeyondHeader, Free
<1> QED BY <1>1, <1>3

LEMMA OwnerStep ==
  IInv /\ [Next]_vars => (crashes = 0 => Fresh /\ OneOwner /\ FreeBeyondHeader /\ PendingFree)'
<1> SUFFICES ASSUME TypeOK, OpOK, [Next]_vars, crashes' = 0,
                    crashes = 0 => Fresh /\ OneOwner /\ FreeBeyondHeader /\ PendingFree
             PROVE  Fresh' /\ OneOwner' /\ FreeBeyondHeader' /\ PendingFree'
  BY DEF IInv
<1>types. Types
  BY TypesSame
<1>head. header \in Nat
  BY <1>types DEF Types
<1>op. op.fd \in Fds
  BY <1>types DEF Types, Op
<1>0. crashes = 0 /\ ~Crash
  <2>1. crashes \in Nat
    BY <1>types, ConstantTypes DEF Types
  <2>2. ~Crash
    BY <2>1 DEF Crash
  <2>3. crashes' = crashes
    BY <2>2 DEF Next, vars, Setup, Load, Open, OpenRecord, Close, Write, WriteShort, WriteFull,
                WriteLink, WriteCount
  <2> QED BY <2>2, <2>3
<1>inv. Fresh /\ OneOwner /\ FreeBeyondHeader /\ PendingFree
  BY <1>0
<1>nothing. ASSUME \A i \in Fds : ~file'[i].active, \A a \in Addresses : ~data'[a].full
            PROVE  OneOwner' /\ FreeBeyondHeader'
  BY <1>nothing DEF OneOwner, FreeBeyondHeader, Free, FilePoints, DataPoints
<1>same. ASSUME UNCHANGED <<header, file, data>> PROVE OneOwner' /\ FreeBeyondHeader'
  <2>1. /\ \A a \in Addresses, i \in Fds : FilePoints(i, a)' => FilePoints(i, a)
        /\ \A a \in Addresses, b \in Addresses : DataPoints(b, a)' => DataPoints(b, a)
    BY <1>same DEF FilePoints, DataPoints
  <2> QED BY <1>same, <1>inv, <1>head, <2>1, NoNewPointers
<1>later. ASSUME op'.at \notin {"setup", "load", "open"} PROVE Fresh' /\ PendingFree'
  BY <1>later DEF Fresh, PendingFree
<1>1. CASE UNCHANGED vars
  BY <1>1, <1>inv, <1>same DEF vars, Fresh, PendingFree, Free, FilePoints, DataPoints
<1>2. CASE Setup
  <2>1. op.at = "setup" /\ op'.at = "load" /\ UNCHANGED <<file, data>>
    BY <1>2, IdleTyped DEF Setup
  <2>2. disk'.file = disk.file
    BY <1>2 DEF Setup, WrHeader, DiskWr, disk_of
  <2>3. /\ \A i \in Fds : ~file'[i].active /\ ~disk'.file[i].active
        /\ \A a \in Addresses : ~data'[a].full
    BY <1>inv, <2>1, <2>2 DEF Fresh
  <2> QED BY <1>nothing, <2>1, <2>3 DEF Fresh, PendingFree
<1>3. CASE Load
  <2>1. /\ \A i \in Fds : ~file[i].active /\ ~disk.file[i].active
        /\ \A a \in Addresses : ~data[a].full
    BY <1>3, <1>inv DEF Load, Fresh
  <2>3. \A i \in Fds : ~file'[i].active
    BY <1>3, <1>types, <2>1, EmptyLoad
  <2>4. \A a \in Addresses : ~data'[a].full
    BY <1>3, <1>types, <2>1, EmptyLoad
  <2>5. op'.at = "idle"
    BY <1>3, IdleTyped DEF Load
  <2> QED BY <1>nothing, <1>later, <2>3, <2>4, <2>5
<1>4. ASSUME NEW name \in Names, Open(name)
      PROVE  Fresh' /\ OneOwner' /\ FreeBeyondHeader' /\ PendingFree'
  <2>1. PICK i \in Fds, a \in Addresses :
          /\ NewBlock(a)
          /\ op' = [at |-> "open", fd |-> i, name |-> name, cur |-> a, rest |-> <<>>]
    BY <1>4 DEF Open
  <2>2. /\ a = header /\ header' = header + 1 /\ a < header' /\ header' >= header
        /\ header' \in Nat /\ UNCHANGED <<file, data>>
    BY <1>4, <1>head, <2>1 DEF Open, NewBlock
  <2>3. /\ \A x \in Addresses, j \in Fds : FilePoints(j, x)' <=> FilePoints(j, x)
        /\ \A x \in Addresses, b \in Addresses : DataPoints(b, x)' <=> DataPoints(b, x)
    BY <2>2 DEF FilePoints, DataPoints
  <2>4. OneOwner' /\ FreeBeyondHeader'
    BY <1>inv, <1>head, <2>2, <2>3, NoNewPointers
  <2>5. Free(a)
    BY <1>inv, <1>head, <2>2 DEF FreeBeyondHeader
  <2>6. op'.at = "open" /\ op'.cur = a
    BY <2>1
  <2>7. Free(op.cur)'
    BY <2>2, <2>5, <2>6 DEF Free, FilePoints, DataPoints
  <2> QED BY <2>2, <2>4, <2>6, <2>7 DEF Fresh, PendingFree
<1>5. CASE OpenRecord
  <2>1. /\ op.at = "open" /\ op.cur \in Addresses /\ op.cur < header /\ Free(op.cur)
        /\ UNCHANGED <<header, data>>
    BY <1>5, <1>inv DEF OpenRecord, PendingFree, OpOK
  <2>2. ~(op.cur >= header)
    BY <1>head, <2>1, ConstantTypes
  <2>3. file' = [file EXCEPT ![op.fd] = NewFile] /\ NewFile.address = op.cur
    BY <1>5 DEF OpenRecord, NewFile
  <2>4. \A a \in Addresses, i \in Fds :
          FilePoints(i, a)' => (i = op.fd /\ a = op.cur) \/ (i # op.fd /\ FilePoints(i, a))
    BY <1>types, <1>op, <2>3 DEF Types, FilePoints
  <2>5. \A a \in Addresses, b \in Addresses : DataPoints(b, a)' => DataPoints(b, a)
    BY <2>1 DEF DataPoints
  <2>6. OneOwner' /\ FreeBeyondHeader'
    BY <1>inv, <1>op, <2>1, <2>2, <2>4, <2>5, NewFilePointer
  <2> QED BY <1>5, <1>later, <2>6, IdleTyped DEF OpenRecord
<1>6. ASSUME NEW i \in Fds, Close(i)
      PROVE  Fresh' /\ OneOwner' /\ FreeBeyondHeader' /\ PendingFree'
  <2>1. \A a \in Addresses, j \in Fds : FilePoints(j, a)' => FilePoints(j, a)
    BY <1>6, <1>types, IdleTyped DEF Close, Types, FilePoints
  <2>2. \A a \in Addresses, b \in Addresses : DataPoints(b, a)' => DataPoints(b, a)
    BY <1>6 DEF Close, DataPoints
  <2>3. OneOwner' /\ FreeBeyondHeader'
    BY <1>6, <1>inv, <1>head, <2>1, <2>2, NoNewPointers DEF Close
  <2> QED BY <1>6, <1>later, <2>3 DEF Close
<1>7. ASSUME NEW i \in Fds, NEW text \in Texts, Write(i, text)
      PROVE  Fresh' /\ OneOwner' /\ FreeBeyondHeader' /\ PendingFree'
  <2>1. op'.at = "write"
    BY <1>7 DEF Write
  <2> QED BY <1>7, <1>same, <1>later, <2>1 DEF Write
<1>8. CASE WriteShort
  <2>1. \A a \in Addresses, b \in Addresses : DataPoints(b, a)' => DataPoints(b, a)
    BY <1>8, <1>types DEF WriteShort, Appended, Types, Blocks, DataPoints
  <2>2. \A a \in Addresses, i \in Fds : FilePoints(i, a)' => FilePoints(i, a)
    BY <1>8 DEF WriteShort, FilePoints
  <2>3. OneOwner' /\ FreeBeyondHeader'
    BY <1>8, <1>inv, <1>head, <2>1, <2>2, NoNewPointers DEF WriteShort
  <2> QED BY <1>8, <1>later, <2>3, IdleTyped DEF WriteShort, Returned
<1>9. CASE WriteFull
  <2>1. PICK a \in Addresses :
          /\ NewBlock(a)
          /\ data' = [data EXCEPT ![op.cur] =
                        Filled(data[op.cur], SubSeq(op.rest, 1, SizeLeft), a)]
    BY <1>9 DEF WriteFull
  <2>2. a = header /\ header' = header + 1 /\ op.cur \in Addresses
    BY <1>9, <2>1 DEF NewBlock, WriteFull, OpOK
  <2>3. \A x \in Addresses, b \in Addresses :
          DataPoints(b, x)' => (b = op.cur /\ x = header) \/ (b # op.cur /\ DataPoints(b, x))
    BY <1>types, <2>1, <2>2 DEF Filled, Types, Blocks, DataPoints
  <2>4. \A x \in Addresses, i \in Fds : FilePoints(i, x)' => FilePoints(i, x)
    BY <1>9 DEF WriteFull, FilePoints
  <2>5. OneOwner' /\ FreeBeyondHeader'
    BY <1>inv, <2>2, <2>3, <2>4, NewDataPointer
  <2>6. op'.at = "link"
    BY <1>9 DEF WriteFull, Moved
  <2> QED BY <1>later, <2>5, <2>6
<1>10. CASE WriteLink
  <2>1. op'.at = "count"
    BY <1>10 DEF WriteLink, Moved
  <2> QED BY <1>10, <1>same, <1>later, <2>1 DEF WriteLink
<1>11. CASE WriteCount
  <2>1. \A a \in Addresses, i \in Fds : FilePoints(i, a)' => FilePoints(i, a)
    BY <1>11, <1>types DEF WriteCount, OneMoreBlock, Types, FilePoints
  <2>2. \A a \in Addresses, b \in Addresses : DataPoints(b, a)' => DataPoints(b, a)
    BY <1>11 DEF WriteCount, DataPoints
  <2>3. OneOwner' /\ FreeBeyondHeader'
    BY <1>11, <1>inv, <1>head, <2>1, <2>2, NoNewPointers DEF WriteCount
  <2>4. op'.at \in {"idle", "write"}
    BY <1>11, IdleTyped DEF WriteCount, Returned, Moved
  <2> QED BY <1>later, <2>3, <2>4
<1> QED BY <1>0, <1>1, <1>2, <1>3, <1>4, <1>5, <1>6, <1>7, <1>8, <1>9, <1>10, <1>11 DEF Next

----------------------------------------------------------------------------

LEMMA Inductive == IInv /\ [Next]_vars => IInv'
BY TypeStep, OwnerStep DEF IInv

LEMMA Invariant == Spec => []IInv
BY InitIInv, Inductive, PTL DEF Spec

(* The tables of mem.c, the disk and the call in progress stay well-formed,  *)
(* no block overflows, through failed writes and restarts.                   *)
THEOREM FilesTypeCorrect == Spec => []TypeOK
<1>1. IInv => TypeOK
  BY DEF IInv
<1> QED BY <1>1, Invariant, PTL

(* Until the machine is restarted no two files, and no two places of a file, *)
(* share a block, and new_data_block_address hands out none in use, however  *)
(* many disk writes fail.                                                    *)
THEOREM BlocksNeverShared == Spec => []NoSharedBlocks
<1>1. IInv => NoSharedBlocks
  <2> SUFFICES ASSUME OneOwner, FreeBeyondHeader PROVE Unshared /\ NoneBeyondHeader
    BY DEF IInv, NoSharedBlocks
  <2>1. Unshared
    <3> SUFFICES ASSUME NEW a \in Addresses
                 PROVE  /\ \A i, j \in FilesTo(a) : i = j
                        /\ \A b, c \in DataTo(a) : b = c
                        /\ FilesTo(a) = {} \/ DataTo(a) = {}
      BY DEF Unshared
    <3>1. /\ \A i \in FilesTo(a) : i \in Fds /\ FilePoints(i, a)
          /\ \A b \in DataTo(a) : b \in Addresses /\ DataPoints(b, a)
      BY DEF FilesTo, DataTo, FilePoints, DataPoints
    <3> QED BY <3>1 DEF OneOwner
  <2>2. NoneBeyondHeader
    BY DEF FreeBeyondHeader, Free, NoneBeyondHeader, FilesTo, DataTo, FilePoints, DataPoints
  <2> QED BY <2>1, <2>2
<1> QED BY <1>1, Invariant, PTL

----------------------------------------------------------------------------
(* The names of the open files, as long as no access to the disk fails. *)

DistinctNames(files) ==
  \A i, j \in Fds :
    /\ files[i].active /\ files[j].active /\ files[i].name = files[j].name
    /\ files[i].name \notin CutNames
    => i = j

(* From boot to the end of file_disk_load no file is open; after it the      *)
(* records in memory are those on the disk.                                  *)
RecordsSaved ==
  /\ op.at \in {"setup", "load"} => \A i \in Fds : ~file[i].active
  /\ op.at \notin {"setup", "load"} => file = disk.file

(* The name that file_open has found unused stays unused until it has its    *)
(* record.                                                                   *)
NameFree == op.at = "open" => \A i \in Fds : ~IsFile(i, op.name)

NamesInv == failures = 0 => DistinctNames(disk.file) /\ RecordsSaved /\ NameFree

LEMMA DiskWritten ==
  ASSUME TypeOK, NEW d, DiskWr(d), failures' = 0
  PROVE  disk' = d /\ failures = 0
BY FilesAssumption DEF DiskWr, TypeOK

LEMMA NamesStep == TypeOK /\ NamesInv /\ [Next]_vars => NamesInv'
<1> SUFFICES ASSUME TypeOK, NamesInv, [Next]_vars, failures' = 0
             PROVE  DistinctNames(disk'.file) /\ RecordsSaved' /\ NameFree'
  BY DEF NamesInv
<1>types. /\ op.fd \in Fds /\ file \in [Fds -> File] /\ disk.file \in [Fds -> File]
          /\ op.name \in Names \cup {NoName}
  BY DEF TypeOK, Op
<1> USE IdleTyped DEF DistinctNames
<1>later. ASSUME failures = 0, op.at \notin {"setup", "load", "open"},
                 NEW files, disk'.file = files, DistinctNames(files), file' = files,
                 op'.at \notin {"setup", "load", "open"}
          PROVE  DistinctNames(disk'.file) /\ RecordsSaved' /\ NameFree'
  BY <1>later DEF RecordsSaved, NameFree
<1>same. CASE UNCHANGED vars
  BY <1>same DEF vars, NamesInv, RecordsSaved, NameFree, IsFile
<1>1. CASE Setup
  <2>1. disk' = disk_of(FirstBlock, disk.file, disk.data) /\ failures = 0
    BY <1>1, DiskWritten DEF Setup, WrHeader
  <2>2. disk'.file = disk.file
    BY <2>1 DEF disk_of
  <2> QED BY <1>1, <2>1, <2>2 DEF Setup, NamesInv, RecordsSaved, NameFree
<1>2. CASE Load
  <2>1. disk' = disk /\ file' = disk.file /\ failures' = failures /\ op' = Idle
    BY <1>2, TypesSame, FullLoad DEF Load
  <2> QED BY <2>1 DEF NamesInv, RecordsSaved, NameFree
<1>3. CASE Crash
  BY <1>3 DEF Crash, NamesInv, RecordsSaved, NameFree
<1>4. ASSUME NEW name \in Names, Open(name)
      PROVE  DistinctNames(disk'.file) /\ RecordsSaved' /\ NameFree'
  <2>1. PICK i \in Fds, a \in Addresses :
          /\ NewBlock(a)
          /\ op' = [at |-> "open", fd |-> i, name |-> name, cur |-> a, rest |-> <<>>]
    BY <1>4 DEF Open
  <2>2. op'.at = "open" /\ op'.name = name
    BY <2>1
  <2>3. disk' = disk_of(a + 1, disk.file, disk.data) /\ failures = 0
    BY <2>1, DiskWritten DEF NewBlock, WrHeader
  <2>4. disk'.file = disk.file
    BY <2>3 DEF disk_of
  <2> QED BY <1>4, <2>2, <2>3, <2>4 DEF Open, NamesInv, RecordsSaved, NameFree, IsFile
<1>5. CASE OpenRecord
  <2>1. /\ failures = 0
        /\ disk' = disk_of(disk.header, [disk.file EXCEPT ![op.fd] = NewFile], disk.data)
    BY <1>5, DiskWritten DEF OpenRecord, WrFile
  <2>2. disk'.file = [disk.file EXCEPT ![op.fd] = NewFile]
    BY <2>1 DEF disk_of
  <2>3. /\ disk.file = file /\ DistinctNames(file)
        /\ \A i \in Fds : ~IsFile(i, op.name)
        /\ NewFile.name = set_file_name(op.name)
    BY <1>5, <2>1 DEF OpenRecord, NamesInv, RecordsSaved, NameFree, NewFile
  <2>6. NewFile.name \in CutNames \/ NewFile.name = op.name
    BY <1>types, <2>3, KeptNames
  <2>4. DistinctNames([file EXCEPT ![op.fd] = NewFile])
    BY <1>types, <2>3, <2>6 DEF IsFile
  <2>5. file' = [file EXCEPT ![op.fd] = NewFile] /\ op'.at = "idle"
    BY <1>5 DEF OpenRecord
  <2> QED BY <2>2, <2>3, <2>4, <2>5 DEF RecordsSaved, NameFree
<1>6. ASSUME NEW i \in Fds, Close(i)
      PROVE  DistinctNames(disk'.file) /\ RecordsSaved' /\ NameFree'
  <2>1. /\ failures = 0
        /\ disk' = disk_of(disk.header, [disk.file EXCEPT ![i] = NoFile], disk.data)
    BY <1>6, DiskWritten DEF Close, WrFile
  <2>2. disk'.file = [disk.file EXCEPT ![i] = NoFile]
    BY <2>1 DEF disk_of
  <2>3. disk.file = file /\ DistinctNames(file)
    BY <1>6, <2>1 DEF Close, NamesInv, RecordsSaved
  <2>4. DistinctNames([file EXCEPT ![i] = NoFile])
    BY <1>types, <2>3
  <2> QED BY <1>6, <2>1, <2>2, <2>3, <2>4, <1>later DEF Close
<1>7. ASSUME NEW i \in Fds, NEW text \in Texts, Write(i, text)
      PROVE  DistinctNames(disk'.file) /\ RecordsSaved' /\ NameFree'
  <2>1. op'.at = "write"
    BY <1>7 DEF Write
  <2> QED BY <1>7, <1>later, <2>1 DEF Write, NamesInv, RecordsSaved
<1>8. CASE WriteShort
  <2>1. disk'.file = disk.file /\ failures = 0
    BY <1>8, DiskWritten DEF WriteShort, WrData, disk_of
  <2> QED BY <1>8, <1>later, <2>1 DEF WriteShort, Returned, NamesInv, RecordsSaved
<1>9. CASE WriteFull
  <2>1. disk'.file = disk.file /\ failures = 0
    BY <1>9, DiskWritten DEF WriteFull, NewBlock, WrHeader, disk_of
  <2>2. op'.at = "link"
    BY <1>9 DEF WriteFull, Moved
  <2> QED BY <1>9, <1>later, <2>1, <2>2 DEF WriteFull, NamesInv, RecordsSaved
<1>10. CASE WriteLink
  <2>1. disk'.file = disk.file /\ failures = 0
    BY <1>10, DiskWritten DEF WriteLink, WrData, disk_of
  <2>2. op'.at = "count"
    BY <1>10 DEF WriteLink, Moved
  <2> QED BY <1>10, <1>later, <2>1, <2>2 DEF WriteLink, NamesInv, RecordsSaved
<1>11. CASE WriteCount
  <2> DEFINE f == OneMoreBlock(file[op.fd])
  <2>1. disk'.file = [disk.file EXCEPT ![op.fd] = f] /\ failures = 0
    BY <1>11, DiskWritten DEF WriteCount, WrFile, disk_of
  <2>2. disk.file = file /\ DistinctNames(file)
    BY <1>11, <2>1 DEF WriteCount, NamesInv, RecordsSaved
  <2>3. f.active = file[op.fd].active /\ f.name = file[op.fd].name
    BY DEF OneMoreBlock
  <2> HIDE DEF f
  <2>4. DistinctNames([file EXCEPT ![op.fd] = f])
    BY <1>types, <2>2, <2>3
  <2>5. op'.at \in {"idle", "write"}
    BY <1>11 DEF WriteCount, Returned, Moved
  <2> QED BY <1>11, <1>later, <2>1, <2>2, <2>4, <2>5 DEF WriteCount, f
<1> QED BY <1>same, <1>1, <1>2, <1>3, <1>4, <1>5, <1>6, <1>7, <1>8, <1>9, <1>10, <1>11 DEF Next

LEMMA NamesForever == Spec => []NamesInv
<1>1. Init => NamesInv
  BY IdleTyped DEF Init, NamesInv, DistinctNames, RecordsSaved, NameFree
<1> QED BY <1>1, NamesStep, FilesTypeCorrect, PTL DEF Spec

(* Two open files have different names, but for those that longer names are  *)
(* cut to, through restarts too, as long as no access to the disk fails: what *)
(* find_file_id searches is what the disk has.                               *)
THEOREM NamesStayUnique == Spec => []NamesUnique
<1>1. TypeOK /\ NamesInv => NamesUnique
  BY IdleTyped DEF NamesInv, NamesUnique, RecordsSaved, DistinctNames
<1> QED BY <1>1, NamesForever, FilesTypeCorrect, PTL

----------------------------------------------------------------------------
(* Induction over a set of numbers, from the library's fact that < on Nat is *)
(* well-founded (its induction theorems take the property as an operator,    *)
(* which the provers here cannot supply).                                    *)

Smaller == {ss \in Nat \X Nat : ss[1] < ss[2]}

LEMMA Least ==
  ASSUME NEW T, T \subseteq Nat, T # {}
  PROVE  \E x \in T : \A y \in T : x <= y
<1>1. IsWellFoundedOn(Smaller, Nat)
  BY NatLessThanWellFounded DEF OpToRel, Smaller
<1>2. PICK x \in T : \A y \in T : <<y, x>> \notin Smaller
  BY <1>1, WFMin
<1>3. \A y \in T : ~(y < x)
  BY <1>2 DEF Smaller
<1> QED BY <1>3

LEMMA Induction ==
  ASSUME NEW T, 0 \in T, \A n \in Nat : n \in T => n + 1 \in T
  PROVE  \A n \in Nat : n \in T
<1> SUFFICES ASSUME {n \in Nat : n \notin T} # {} PROVE FALSE
  OBVIOUS
<1>1. PICK x \in {n \in Nat : n \notin T} : \A y \in {n \in Nat : n \notin T} : x <= y
  BY Least
<1>2. x # 0 /\ x - 1 \in Nat
  BY <1>1
<1>3. x - 1 \notin T
  BY <1>2
<1> QED BY <1>1, <1>2, <1>3

(* From the last block down: what holds of a block as soon as it holds of    *)
(* all later ones holds of all.                                              *)
LEMMA DownFromTheLast ==
  ASSUME NEW T,
         \A b \in Addresses : (\A c \in Addresses : c > b => c \in T) => b \in T
  PROVE  \A b \in Addresses : b \in T
<1>1. LastAddress \in Nat /\ \A b \in Addresses : b \in Nat /\ b <= LastAddress
  BY FilesAssumption DEF Addresses, LastAddress, FirstBlock
<1> SUFFICES ASSUME NEW e \in Addresses, e \notin T PROVE FALSE
  OBVIOUS
<1> DEFINE Up == {n \in Nat : \E b \in Addresses : b \notin T /\ n = LastAddress - b}
<1>2. LastAddress - e \in Up
  BY <1>1
<1>3. PICK n \in Up : \A m \in Up : n <= m
  BY <1>2, Least
<1>4. PICK b \in Addresses : b \notin T /\ n = LastAddress - b
  BY <1>3
<1>5. PICK c \in Addresses : c > b /\ c \notin T
  BY <1>4
<1>6. LastAddress - c \in Up
  BY <1>1, <1>5
<1>7. LastAddress - c < n
  BY <1>1, <1>4, <1>5
<1> QED BY <1>1, <1>3, <1>4, <1>5, <1>6, <1>7

----------------------------------------------------------------------------
(* The content of a chain whose links all lead to later blocks. *)

Forward(d) ==
  \A b \in Addresses : d[b].full => d[b].next \in Addresses /\ b < d[b].next

FromHere(f, d, b) ==
  IF b \notin Addresses THEN <<>>
  ELSE IF d[b].full THEN d[b].content \o f[d[b].next]
  ELSE d[b].content

(* The recursive function inside ContentOf exists. *)
LEMMA ContentDefined ==
  ASSUME NEW d \in [Addresses -> Data], Forward(d)
  PROVE  \E f \in [Nat -> Seq(Chars)] : f = [b \in Nat |-> FromHere(f, d, b)]
<1>1. LastAddress \in Nat /\ \A b \in Addresses : b \in Nat /\ b <= LastAddress
  BY FilesAssumption DEF Addresses, LastAddress, FirstBlock
<1>2. \A b \in Addresses : d[b].content \in Seq(Chars) /\ d[b].next \in Nat
  BY DEF Data
<1>3. \A f \in [Nat -> Seq(Chars)], b \in Nat : FromHere(f, d, b) \in Seq(Chars)
  BY <1>2, ConcatProperties, EmptySeq DEF FromHere
<1> DEFINE Upto == {n \in Nat : \E f \in [Nat -> Seq(Chars)] :
                      \A b \in Nat : b + n > LastAddress => f[b] = FromHere(f, d, b)}
<1>4. 0 \in Upto
  <2> DEFINE f == [b \in Nat |-> <<>>]
  <2>1. f \in [Nat -> Seq(Chars)]
    BY EmptySeq
  <2>2. \A b \in Nat : b + 0 > LastAddress => b \notin Addresses
    BY <1>1
  <2>3. \A b \in Nat : b + 0 > LastAddress => f[b] = FromHere(f, d, b)
    BY <2>2 DEF FromHere
  <2> QED BY <2>1, <2>3
<1>5. ASSUME NEW n \in Nat, n \in Upto PROVE n + 1 \in Upto
  <2>1. PICK f \in [Nat -> Seq(Chars)] :
          \A b \in Nat : b + n > LastAddress => f[b] = FromHere(f, d, b)
    BY <1>5
  <2>2. CASE n > LastAddress
    <3>1. \A b \in Nat : f[b] = FromHere(f, d, b)
      BY <1>1, <2>1, <2>2
    <3> QED BY <3>1
  <2>3. CASE ~(n > LastAddress)
    <3> DEFINE c == LastAddress - n
    <3> DEFINE g == [f EXCEPT ![c] = FromHere(f, d, c)]
    <3>1. c \in Nat
      BY <1>1, <2>3
    <3>2. g \in [Nat -> Seq(Chars)]
      BY <1>3, <3>1
    <3>3. g[c] = FromHere(f, d, c) /\ \A b \in Nat \ {c} : g[b] = f[b]
      BY <3>1
    <3>4. \A b \in Addresses : b >= c /\ d[b].full => d[b].next \in Nat \ {c}
      <4>1. \A m, k \in Nat : m >= c /\ m < k => k # c
        BY <3>1
      <4> HIDE DEF c, g, Upto
      <4> QED BY <1>1, <4>1 DEF Forward
    <3>5. \A b \in Nat : b + (n + 1) > LastAddress => b >= c /\ (b # c => b + n > LastAddress)
      BY <1>1
    <3> HIDE DEF c, g
    <3>6. \A b \in Nat : b >= c => FromHere(g, d, b) = FromHere(f, d, b)
      BY <3>3, <3>4 DEF FromHere
    <3>7. \A b \in Nat : b + (n + 1) > LastAddress => g[b] = FromHere(g, d, b)
      BY <2>1, <3>1, <3>3, <3>5, <3>6
    <3> QED BY <3>2, <3>7
  <2> QED BY <2>2, <2>3
<1>6. LastAddress + 1 \in Upto
  <2> HIDE DEF Upto
  <2> QED BY <1>1, <1>4, <1>5, Induction
<1>7. PICK f \in [Nat -> Seq(Chars)] :
        \A b \in Nat : b + (LastAddress + 1) > LastAddress => f[b] = FromHere(f, d, b)
  BY <1>6
<1>8. \A b \in Nat : b + (LastAddress + 1) > LastAddress
  BY <1>1
<1>9. \A b \in Nat : f[b] = FromHere(f, d, b)
  BY <1>7, <1>8
<1> QED BY <1>9

(* ContentOf, block by block. *)
LEMMA ContentFacts ==
  ASSUME NEW d \in [Addresses -> Data], Forward(d), NEW a \in Addresses
  PROVE  /\ ContentOf(d, a) \in Seq(Chars)
         /\ d[a].full => ContentOf(d, a) = d[a].content \o ContentOf(d, d[a].next)
         /\ ~d[a].full => ContentOf(d, a) = d[a].content
<1> DEFINE f == CHOOSE g : g = [b \in Nat |-> FromHere(g, d, b)]
<1>1. f = [b \in Nat |-> FromHere(f, d, b)]
  BY ContentDefined
<1>2. \A b \in Addresses : b \in Nat
  BY ConstantTypes
<1>3. \A b \in Nat : ContentOf(d, b) = f[b]
  BY DEF ContentOf, FromHere
<1> HIDE DEF f
<1>4. \A b \in Addresses : f[b] = FromHere(f, d, b) /\ f[b] = ContentOf(d, b)
  BY <1>1, <1>2, <1>3
<1>5. \A b \in Addresses : ContentOf(d, b) =
          IF d[b].full THEN d[b].content \o ContentOf(d, d[b].next) ELSE d[b].content
  BY <1>4 DEF FromHere, Forward
<1>6. \A b \in Addresses : d[b].content \in Seq(Chars)
  BY DEF Data
<1> DEFINE T == {b \in Addresses : ContentOf(d, b) \in Seq(Chars)}
<1>7. ASSUME NEW b \in Addresses, \A c \in Addresses : c > b => c \in T PROVE b \in T
  <2>1. CASE d[b].full
    <3>1. d[b].next \in T
      BY <1>2, <1>7, <2>1 DEF Forward
    <3>2. d[b].content \in Seq(Chars) /\ ContentOf(d, d[b].next) \in Seq(Chars)
      BY <1>6, <3>1
    <3>3. d[b].content \o ContentOf(d, d[b].next) \in Seq(Chars)
      BY <3>2, ConcatFacts
    <3> QED BY <1>5, <2>1, <3>3
  <2>2. CASE ~d[b].full
    BY <1>5, <1>6, <2>2
  <2> QED BY <2>1, <2>2
<1>8. a \in T
  <2> HIDE DEF T
  <2> QED BY <1>7, DownFromTheLast
<1> QED BY <1>5, <1>8

----------------------------------------------------------------------------
(* Where LastBlock gets to. *)

OneOn(f, i, j) ==
  IF j = 0 THEN file[i].address
  ELSE IF f[j - 1] \in Addresses /\ data[f[j - 1]].full THEN data[f[j - 1]].next
  ELSE f[j - 1]

LEMMA LastDefined ==
  ASSUME NEW i \in Fds, NEW n \in Nat
  PROVE  \E f : f = [j \in 0 .. n |-> OneOn(f, i, j)]
<1> DEFINE Good(m) == \E f : /\ f = [j \in 0 .. n |-> f[j]]
                             /\ \A j \in 0 .. n : j <= m => f[j] = OneOn(f, i, j)
<1> DEFINE T == {m \in Nat : Good(m)}
<1>1. 0 \in T
  <2> DEFINE f == [j \in 0 .. n |-> file[i].address]
  <2>1. f = [j \in 0 .. n |-> f[j]]
    OBVIOUS
  <2>2. \A j \in 0 .. n : j <= 0 => f[j] = OneOn(f, i, j)
    BY DEF OneOn
  <2> HIDE DEF f
  <2>3. Good(0)
    BY <2>1, <2>2
  <2> QED BY <2>3
<1>2. ASSUME NEW m \in Nat, m \in T PROVE m + 1 \in T
  <2>1. PICK f : /\ f = [j \in 0 .. n |-> f[j]]
                 /\ \A j \in 0 .. n : j <= m => f[j] = OneOn(f, i, j)
    BY <1>2
  <2> DEFINE g == [j \in 0 .. n |-> IF j = m + 1 THEN OneOn(f, i, j) ELSE f[j]]
  <2>2. \A j \in 0 .. n : g[j] = IF j = m + 1 THEN OneOn(f, i, j) ELSE f[j]
    OBVIOUS
  <2>3. g = [j \in 0 .. n |-> g[j]]
    OBVIOUS
  <2> HIDE DEF g
  <2>4. \A j \in 0 .. n : j <= m + 1 => OneOn(g, i, j) = OneOn(f, i, j)
    <3> SUFFICES ASSUME NEW j \in 0 .. n, j <= m + 1 PROVE OneOn(g, i, j) = OneOn(f, i, j)
      OBVIOUS
    <3>1. j # 0 => j - 1 \in 0 .. n /\ j - 1 # m + 1
      OBVIOUS
    <3>2. j # 0 => g[j - 1] = f[j - 1]
      BY <2>2, <3>1
    <3> QED BY <3>2 DEF OneOn
  <2>5. \A j \in 0 .. n : j <= m + 1 => j = m + 1 \/ j <= m
    OBVIOUS
  <2>6. \A j \in 0 .. n : j <= m + 1 => g[j] = OneOn(g, i, j)
    BY <2>1, <2>2, <2>4, <2>5
  <2>7. Good(m + 1)
    BY <2>3, <2>6
  <2> QED BY <2>7
<1>3. n \in T
  <2> HIDE DEF T
  <2> QED BY <1>1, <1>2, Induction
<1>4. PICK f : /\ f = [j \in 0 .. n |-> f[j]]
               /\ \A j \in 0 .. n : j <= n => f[j] = OneOn(f, i, j)
  BY <1>3
<1>5. \A j \in 0 .. n : f[j] = OneOn(f, i, j)
  BY <1>4
<1> QED BY <1>4, <1>5

LEMMA LastBlockFacts ==
  ASSUME NEW i \in Fds, file[i].no_of_blocks \in Nat
  PROVE  \E f : /\ LastBlock(i) = f[file[i].no_of_blocks]
                /\ \A j \in 0 .. file[i].no_of_blocks : f[j] = OneOn(f, i, j)
<1> DEFINE n == file[i].no_of_blocks
<1> DEFINE f == CHOOSE g : g = [j \in 0 .. n |-> OneOn(g, i, j)]
<1>1. f = [j \in 0 .. n |-> OneOn(f, i, j)]
  BY LastDefined
<1>2. LastBlock(i) = f[n]
  BY DEF LastBlock, OneOn
<1> HIDE DEF f
<1> QED BY <1>1, <1>2

LEMMA CutJoined ==
  ASSUME NEW S, NEW r \in Seq(S), NEW n \in Nat, n <= Len(r)
  PROVE  SubSeq(r, 1, n) \o Beyond(r, n) = r
<1>1. /\ 1 \in 1 .. Len(r) + 1 /\ n \in 1 - 1 .. Len(r) /\ Len(r) \in n .. Len(r)
  OBVIOUS
<1>2. SubSeq(r, 1, n) \o SubSeq(r, n + 1, Len(r)) = SubSeq(r, 1, Len(r))
  BY <1>1, ConcatAdjacentSubSeq, Zenon
<1> QED BY <1>2, SubSeqFull DEF Beyond

LEMMA Joined ==
  \A s, t, u \in Seq(Chars) :
    /\ (s \o t) \o u = s \o (t \o u)
    /\ s \o t \in Seq(Chars) /\ t \o u \in Seq(Chars)
<1>1. ASSUME NEW s \in Seq(Chars), NEW t \in Seq(Chars), NEW u \in Seq(Chars)
      PROVE  (s \o t) \o u = s \o (t \o u)
  BY <1>1
<1>2. \A s, t \in Seq(Chars) : s \o t \in Seq(Chars)
  OBVIOUS
<1> QED BY <1>1, <1>2, Zenon

(* The start of a sequence. *)
Starts(S, s, t) == s \in Seq(S) /\ \E u \in Seq(S) : t = s \o u

LEMMA StartsIsPrefix ==
  ASSUME NEW S, NEW s, NEW t, Starts(S, s, t)
  PROVE  IsPrefix(s, t)
<1>1. PICK u \in Seq(S) : t = s \o u
  BY DEF Starts
<1>2. s \in Seq(S) /\ Len(s) \in Nat /\ Len(u) \in Nat /\ Len(t) = Len(s) + Len(u)
  BY <1>1, ConcatFacts DEF Starts
<1>3. \A k \in 1 .. Len(s) : t[k] = s[k]
  BY <1>1, <1>2
<1>4. SubSeq(s, 1, Len(s)) = SubSeq(t, 1, Len(s))
  BY <1>2, <1>3
<1> QED BY <1>2, <1>4 DEF IsPrefix

LEMMA StartsWithin ==
  ASSUME NEW p \in Seq(Chars), NEW s, NEW t, NEW w, Starts(Chars, s, t), Starts(Chars, p \o t, w)
  PROVE  Starts(Chars, p \o s, w)
<1>1. PICK u \in Seq(Chars) : s \in Seq(Chars) /\ t = s \o u
  BY DEF Starts
<1>2. PICK v \in Seq(Chars) : w = (p \o t) \o v
  BY DEF Starts
<1>3. (p \o s) \o u = p \o (s \o u) /\ p \o s \in Seq(Chars)
  <2>1. s \in Seq(Chars) /\ u \in Seq(Chars)
    BY <1>1
  <2>2. (p \o s) \o u = p \o (s \o u)
    BY <2>1, Joined
  <2>3. p \o s \in Seq(Chars)
    BY <2>1, ConcatFacts
  <2> QED BY <2>2, <2>3, Zenon
<1>4. ((p \o s) \o u) \o v = (p \o s) \o (u \o v) /\ u \o v \in Seq(Chars)
  BY <1>3, Joined, Zenon
<1>5. w = (p \o s) \o (u \o v)
  BY <1>1, <1>2, <1>3, <1>4, Zenon
<1> QED BY <1>3, <1>4, <1>5, Zenon DEF Starts

LEMMA FirstStarts ==
  ASSUME NEW S, NEW s \in Seq(S), NEW n \in Nat
  PROVE  Starts(S, First(s, n), s) /\ Len(First(s, n)) <= n
<1>1. Len(s) \in Nat
  OBVIOUS
<1> DEFINE k == IF n < Len(s) THEN n ELSE Len(s)
<1>2. k \in Nat /\ k <= Len(s) /\ k <= n
  BY <1>1
<1>3. First(s, n) = SubSeq(s, 1, k)
  BY DEF First
<1> HIDE DEF k
<1>4. SubSeq(s, 1, k) \in Seq(S) /\ Len(SubSeq(s, 1, k)) = k /\ Beyond(s, k) \in Seq(S)
  BY <1>2, CutFacts
<1>5. s = SubSeq(s, 1, k) \o Beyond(s, k)
  BY <1>2, CutJoined
<1> QED BY <1>2, <1>3, <1>4, <1>5 DEF Starts

----------------------------------------------------------------------------
(* The blocks of the files, until the first restart.                         *)
(*                                                                           *)
(* Label each block with the open file it belongs to, its place in that      *)
(* file's chain and the characters that come before it.  The labels that the *)
(* code's writes build up have to agree from each block to the next, and at  *)
(* the last one with the file's record and with what it was given: that is   *)
(* enough to know the content of the chain, and no step disturbs more than   *)
(* the labels of one block.                                                  *)

Writing == op.at \in {"write", "link", "count"}

\* still to be written to file i
Pending(i) == IF op.fd = i THEN op.rest ELSE <<>>

\* a block of file i that its record does not count yet
Uncounted(i) == IF op.at \in {"link", "count"} /\ op.fd = i THEN 1 ELSE 0

\* the last block of the file being written
LastOne == IF op.at = "link" THEN data[op.cur].next ELSE op.cur

(* What the disk has, until the first restart and as long as nothing fails:   *)
(* all blocks but the one that has just been filled, which has to be saved.  *)

BlockSaved(b) == (op.at = "link" /\ op.cur = b) \/ disk.data[b] = data[b]

\* a closed file has nothing, and an open one a block to begin with
RecordOK(i) ==
  /\ ~file[i].active => acked[i] = 0
  /\ file[i].active => file[i].no_of_blocks >= 1

SavedInv ==
  crashes = 0 =>
    /\ \A i \in Fds : RecordOK(i)
    /\ failures = 0 => \A b \in Addresses : BlockSaved(b)

BlocksInv ==
  /\ Forward(data)
  /\ \A b \in Addresses : data[b].full => Len(data[b].content) = MAX_CONTENT
  /\ \A b \in Addresses : b >= header => data[b] = NoData
  /\ op.at \in {"setup", "load"} => \A b \in Addresses : data[b] = NoData
  /\ op.at = "open" => data[op.cur] = NoData /\ ~file[op.fd].active
  /\ Writing => file[op.fd].active
  /\ ~Writing => op.rest = <<>>

StartOK(own, pos, pre, i) ==
  /\ file[i].address \in Addresses
  /\ own[file[i].address] = i /\ pos[file[i].address] = 1 /\ pre[file[i].address] = <<>>

LinkOK(own, pos, pre, i, b) ==
  /\ own[data[b].next] = i
  /\ pos[data[b].next] = pos[b] + 1
  /\ pre[data[b].next] = pre[b] \o data[b].content
  /\ pos[b] < file[i].no_of_blocks + Uncounted(i)

EndOK(pos, pre, i, b) ==
  /\ pos[b] = file[i].no_of_blocks + Uncounted(i)
  /\ (pre[b] \o data[b].content) \o Pending(i) = written[i]

\* what calls of write have returned for is in the blocks the record counts
AckedOK(pos, pre, i, b) ==
  file[i].no_of_blocks <= pos[b] => acked[i] <= Len(pre[b] \o data[b].content)

\* between new_data_block_address and the save of the full block the disk has
\* the block as it was before
NotYetSaved(pre) ==
  failures = 0 =>
    /\ data[op.cur].full /\ ~disk.data[op.cur].full
    /\ Starts(Chars, disk.data[op.cur].content, data[op.cur].content)
    /\ acked[op.fd] <= Len(pre[op.cur] \o disk.data[op.cur].content)

Of(own, i, b) == file[i].active /\ own[b] = i

LabelsOK(own, pos, pre) ==
  /\ \A i \in Fds : file[i].active => StartOK(own, pos, pre, i)
  /\ \A i \in Fds, b \in Addresses :
       Of(own, i, b) =>
         /\ b < header
         /\ data[b].full => LinkOK(own, pos, pre, i, b)
         /\ ~data[b].full => EndOK(pos, pre, i, b)
         /\ AckedOK(pos, pre, i, b)
         /\ \A c \in Addresses : own[c] = i /\ ~data[b].full /\ ~data[c].full => b = c
  /\ Writing => own[LastOne] = op.fd /\ ~data[LastOne].full
  /\ op.at = "link" => NotYetSaved(pre)

Labels == [own : [Addresses -> Nat], pos : [Addresses -> Nat], pre : [Addresses -> Seq(Chars)]]

ChainInv == \E l \in Labels : LabelsOK(l.own, l.pos, l.pre)

ContentInv == crashes = 0 => BlocksInv /\ ChainInv

----------------------------------------------------------------------------
(* What the invariant says of the content of a file. *)

LEMMA ContentFollows ==
  ASSUME TypeOK, BlocksInv, NEW l \in Labels, LabelsOK(l.own, l.pos, l.pre),
         NEW i \in Fds, file[i].active
  PROVE  \A b \in Addresses :
           l.own[b] = i => (l.pre[b] \o ContentOf(data, b)) \o Pending(i) = written[i]
<1>1. data \in [Addresses -> Data] /\ Forward(data) /\ op.rest \in Seq(Chars)
  BY DEF BlocksInv, TypeOK, Op
<1>2. \A b \in Addresses : b \in Nat /\ data[b].content \in Seq(Chars) /\ l.pre[b] \in Seq(Chars)
  BY <1>1, ConstantTypes DEF Data, Labels
<1> DEFINE T == {b \in Addresses :
     l.own[b] = i => (l.pre[b] \o ContentOf(data, b)) \o Pending(i) = written[i]}
<1>3. ASSUME NEW b \in Addresses, \A c \in Addresses : c > b => c \in T PROVE b \in T
  <2> SUFFICES ASSUME l.own[b] = i
               PROVE  (l.pre[b] \o ContentOf(data, b)) \o Pending(i) = written[i]
    OBVIOUS
  <2>1. CASE ~data[b].full
    <3>1. EndOK(l.pos, l.pre, i, b)
      BY <2>1 DEF LabelsOK, Of
    <3>2. ContentOf(data, b) = data[b].content
      BY <1>1, <2>1, ContentFacts
    <3> QED BY <3>1, <3>2 DEF EndOK
  <2>2. CASE data[b].full
    <3> DEFINE c == data[b].next
    <3>1. LinkOK(l.own, l.pos, l.pre, i, b)
      BY <2>2 DEF LabelsOK, Of
    <3>2. c \in Addresses /\ c > b
      BY <1>1, <1>2, <2>2 DEF Forward
    <3>3. (l.pre[c] \o ContentOf(data, c)) \o Pending(i) = written[i]
      BY <1>3, <3>1, <3>2 DEF LinkOK
    <3>4. /\ ContentOf(data, c) \in Seq(Chars)
          /\ ContentOf(data, b) = data[b].content \o ContentOf(data, c)
      BY <1>1, <2>2, <3>2, ContentFacts
    <3>5. l.pre[c] = l.pre[b] \o data[b].content
      BY <3>1 DEF LinkOK
    <3>6. (l.pre[b] \o data[b].content) \o ContentOf(data, c)
            = l.pre[b] \o (data[b].content \o ContentOf(data, c))
      <4> DEFINE p == l.pre[b]
      <4> DEFINE m == data[b].content
      <4> DEFINE r == ContentOf(data, c)
      <4>1. p \in Seq(Chars) /\ m \in Seq(Chars) /\ r \in Seq(Chars)
        BY <1>2, <3>4
      <4> HIDE DEF p, m, r
      <4>2. (p \o m) \o r = p \o (m \o r)
        BY <4>1
      <4> QED BY <4>2 DEF p, m, r
    <3> QED BY <3>3, <3>4, <3>5, <3>6
  <2> QED BY <2>1, <2>2
<1> HIDE DEF T
<1>4. \A b \in Addresses : b \in T
  BY <1>3, DownFromTheLast
<1> QED BY <1>4 DEF T

LEMMA LastFollows ==
  ASSUME TypeOK, BlocksInv, NEW l \in Labels, LabelsOK(l.own, l.pos, l.pre),
         NEW i \in Fds, file[i].active, op.at = "idle"
  PROVE  LastBlock(i) \in Addresses /\ l.own[LastBlock(i)] = i /\ ~data[LastBlock(i)].full
<1> DEFINE n == file[i].no_of_blocks
<1>1. n \in Nat /\ l.pos \in [Addresses -> Nat] /\ Forward(data)
  BY DEF TypeOK, File, Labels, BlocksInv
<1>2. PICK f : LastBlock(i) = f[n] /\ \A j \in 0 .. n : f[j] = OneOn(f, i, j)
  BY <1>1, LastBlockFacts
<1> DEFINE Good(j) == /\ f[j] \in Addresses /\ l.own[f[j]] = i
                      /\ data[f[j]].full => l.pos[f[j]] = j + 1
<1> DEFINE T == {j \in Nat : j <= n => Good(j)}
<1>3. 0 \in T
  <2>1. f[0] = file[i].address
    BY <1>1, <1>2 DEF OneOn
  <2> QED BY <2>1 DEF LabelsOK, StartOK
<1>4. ASSUME NEW j \in Nat, j \in T PROVE j + 1 \in T
  <2> SUFFICES ASSUME j + 1 <= n PROVE Good(j + 1)
    OBVIOUS
  <2>1. Good(j) /\ j + 1 \in 0 .. n
    BY <1>1, <1>4
  <2>2. f[j + 1] = IF f[j] \in Addresses /\ data[f[j]].full THEN data[f[j]].next ELSE f[j]
    BY <1>2, <2>1 DEF OneOn
  <2>3. CASE ~data[f[j]].full
    BY <2>1, <2>2, <2>3
  <2>4. CASE data[f[j]].full
    <3>1. LinkOK(l.own, l.pos, l.pre, i, f[j])
      BY <2>1, <2>4 DEF LabelsOK, Of
    <3>2. data[f[j]].next \in Addresses
      BY <1>1, <2>1, <2>4 DEF Forward
    <3> QED BY <2>1, <2>2, <2>4, <3>1, <3>2 DEF LinkOK
  <2> QED BY <2>3, <2>4
<1>5. n \in T
  <2> HIDE DEF T
  <2> QED BY <1>1, <1>3, <1>4, Induction
<1>6. Good(n)
  BY <1>1, <1>5
<1>7. Uncounted(i) = 0
  BY DEF Uncounted
<1>8. data[f[n]].full => l.pos[f[n]] < n + Uncounted(i)
  BY <1>6 DEF LabelsOK, Of, LinkOK
<1>9. data[f[n]].full => l.pos[f[n]] = n + 1
  BY <1>6
<1>10. ~data[f[n]].full
  BY <1>1, <1>7, <1>8, <1>9
<1> QED BY <1>2, <1>6, <1>10

(* Nothing is in use: no label is wrong. *)
NothingOpen == ~Writing /\ \A i \in Fds : ~file[i].active

LEMMA ChainEmpty == NothingOpen => ChainInv
<1> SUFFICES ASSUME NothingOpen PROVE ChainInv
  OBVIOUS
<1> DEFINE l == [own |-> [a \in Addresses |-> 0], pos |-> [a \in Addresses |-> 0],
                 pre |-> [a \in Addresses |-> <<>>]]
<1>1. l \in Labels
  BY EmptySeq DEF Labels
<1>2. LabelsOK(l.own, l.pos, l.pre)
  BY DEF NothingOpen, LabelsOK, Of, Writing
<1> QED BY <1>1, <1>2 DEF ChainInv

(* A step that changes no block, no record and no history but of closed      *)
(* files, and goes on writing or not, keeps the labels.                      *)
LEMMA LabelsKept ==
  ASSUME NEW l \in Labels, LabelsOK(l.own, l.pos, l.pre), header \in Nat, header' \in Nat,
         header <= header', data' = data,
         \A i \in Fds : file'[i].active =>
            /\ file[i].active /\ file'[i] = file[i]
            /\ written'[i] = written[i] /\ acked'[i] = acked[i]
            /\ Uncounted(i)' = Uncounted(i) /\ Pending(i)' = Pending(i),
         Writing' => l.own[LastOne'] = op.fd' /\ ~data[LastOne'].full,
         op'.at = "link" => NotYetSaved(l.pre)'
  PROVE  ChainInv'
<1>1. \A i \in Fds : file'[i].active => StartOK(l.own, l.pos, l.pre, i)'
  BY DEF LabelsOK, StartOK
<1>2. ASSUME NEW i \in Fds, NEW b \in Addresses, Of(l.own, i, b)'
      PROVE  /\ b < header'
             /\ data'[b].full => LinkOK(l.own, l.pos, l.pre, i, b)'
             /\ ~data'[b].full => EndOK(l.pos, l.pre, i, b)'
             /\ AckedOK(l.pos, l.pre, i, b)'
             /\ \A c \in Addresses : l.own[c] = i /\ ~data'[b].full /\ ~data'[c].full => b = c
  <2>1. Of(l.own, i, b) /\ file'[i].active
    BY <1>2 DEF Of
  <2>2. /\ b < header /\ b \in Nat
        /\ data[b].full => LinkOK(l.own, l.pos, l.pre, i, b)
        /\ ~data[b].full => EndOK(l.pos, l.pre, i, b)
        /\ AckedOK(l.pos, l.pre, i, b)
        /\ \A c \in Addresses : l.own[c] = i /\ ~data[b].full /\ ~data[c].full => b = c
    BY <2>1, ConstantTypes DEF LabelsOK
  <2>3. b < header'
    BY <2>2
  <2>4. data'[b].full => LinkOK(l.own, l.pos, l.pre, i, b)'
    BY <2>1, <2>2 DEF LinkOK
  <2>5. ~data'[b].full => EndOK(l.pos, l.pre, i, b)'
    BY <2>1, <2>2 DEF EndOK
  <2>6. AckedOK(l.pos, l.pre, i, b)'
    BY <2>1, <2>2 DEF AckedOK
  <2> QED BY <2>2, <2>3, <2>4, <2>5, <2>6
<1>3. LabelsOK(l.own, l.pos, l.pre)'
  BY <1>1, <1>2 DEF LabelsOK
<1> QED BY <1>3 DEF ChainInv, Labels

(* file_open's record: the new block is the file's first and last. *)
LEMMA ChainOpenRecord ==
  ASSUME IInv, BlocksInv, PendingFree, NEW l \in Labels, LabelsOK(l.own, l.pos, l.pre), OpenRecord
  PROVE  ChainInv'
<1> DEFINE fd == op.fd
<1> DEFINE cur == op.cur
<1>1. /\ op.at = "open" /\ cur \in Addresses /\ cur < header /\ Free(cur) /\ data[cur] = NoData
      /\ ~file[fd].active /\ UNCHANGED <<header, data>> /\ fd \in Fds /\ op.rest = <<>>
  BY DEF OpenRecord, IInv, OpOK, PendingFree, BlocksInv, TypeOK, Op, Writing
<1>2. /\ file' = [file EXCEPT ![fd] = NewFile] /\ op' = Idle
      /\ written' = [written EXCEPT ![fd] = <<>>] /\ acked' = [acked EXCEPT ![fd] = 0]
      /\ NewFile.active /\ NewFile.address = cur /\ NewFile.no_of_blocks = 1
  BY DEF OpenRecord, NewFile
<1>3. /\ file \in [Fds -> File] /\ written \in [Fds -> Seq(Chars)] /\ acked \in [Fds -> Nat]
      /\ l.own \in [Addresses -> Nat] /\ l.pos \in [Addresses -> Nat]
      /\ l.pre \in [Addresses -> Seq(Chars)]
  BY DEF IInv, TypeOK, Labels
<1> DEFINE own == [b \in Addresses |-> IF b = cur THEN fd
                                       ELSE IF l.own[b] = fd THEN MAX_FILES ELSE l.own[b]]
<1> DEFINE pos == [l.pos EXCEPT ![cur] = 1]
<1> DEFINE pre == [l.pre EXCEPT ![cur] = <<>>]
<1>4. MAX_FILES \in Nat /\ MAX_FILES \notin Fds /\ \A i \in Fds : i \in Nat
  BY ConstantTypes DEF Fds
<1>5. own \in [Addresses -> Nat]
  BY <1>1, <1>3, <1>4
<1>6. pos \in [Addresses -> Nat] /\ pre \in [Addresses -> Seq(Chars)]
  BY <1>1, <1>3, EmptySeq
<1>7. /\ own[cur] = fd /\ pos[cur] = 1 /\ pre[cur] = <<>>
      /\ \A b \in Addresses \ {cur} : pos[b] = l.pos[b] /\ pre[b] = l.pre[b]
      /\ \A b \in Addresses \ {cur}, i \in Fds : own[b] = i <=> i # fd /\ l.own[b] = i
  BY <1>1, <1>3, <1>4
<1> HIDE DEF own, pos, pre
<1>m. PICK m \in Labels : m.own = own /\ m.pos = pos /\ m.pre = pre
  <2>1. [own |-> own, pos |-> pos, pre |-> pre] \in Labels
    BY <1>5, <1>6 DEF Labels
  <2> QED BY <2>1
<1>8. /\ m.own[cur] = fd /\ m.pos[cur] = 1 /\ m.pre[cur] = <<>>
      /\ \A b \in Addresses \ {cur} : m.pos[b] = l.pos[b] /\ m.pre[b] = l.pre[b]
      /\ \A b \in Addresses \ {cur}, i \in Fds : m.own[b] = i <=> i # fd /\ l.own[b] = i
  BY <1>7, <1>m
<1>idle. /\ Idle.rest = <<>> /\ ~Writing' /\ op'.at = "idle" /\ op'.rest = <<>>
         /\ \A i \in Fds : Uncounted(i)' = 0 /\ Pending(i)' = <<>>
                           /\ Uncounted(i) = 0 /\ Pending(i) = <<>>
  BY <1>1, <1>2 DEF Idle, At, Writing, Uncounted, Pending
<1> HIDE DEF fd, cur
<1>9. ASSUME NEW i \in Fds, file'[i].active PROVE StartOK(m.own, m.pos, m.pre, i)'
  <2>1. CASE i = fd
    BY <1>1, <1>2, <1>3, <1>8, <2>1 DEF StartOK
  <2>2. CASE i # fd
    <3>1. file'[i] = file[i] /\ StartOK(l.own, l.pos, l.pre, i)
      BY <1>2, <1>3, <1>9, <2>2 DEF LabelsOK
    <3>2. file[i].address # cur
      BY <1>1, <1>9, <3>1 DEF Free, FilePoints
    <3> QED BY <1>8, <2>2, <3>1, <3>2 DEF StartOK
  <2> QED BY <2>1, <2>2
<1>10. ASSUME NEW i \in Fds, NEW b \in Addresses, Of(m.own, i, b)'
       PROVE  /\ b < header'
              /\ data'[b].full => LinkOK(m.own, m.pos, m.pre, i, b)'
              /\ ~data'[b].full => EndOK(m.pos, m.pre, i, b)'
              /\ AckedOK(m.pos, m.pre, i, b)'
              /\ \A c \in Addresses : m.own[c] = i /\ ~data'[b].full /\ ~data'[c].full => b = c
  <2>1. CASE i = fd
    <3>1. \A c \in Addresses : m.own[c] = i => c = cur
      BY <1>8, <2>1
    <3>2. b = cur /\ ~data'[b].full /\ data'[b].content = <<>>
      BY <1>1, <1>10, <3>1 DEF Of, NoData
    <3>3. EndOK(m.pos, m.pre, i, b)'
      <4>1. file'[i].no_of_blocks = 1 /\ written'[i] = <<>>
        BY <1>1, <1>2, <1>3, <2>1
      <4>2. <<>> \o <<>> = <<>>
        BY EmptySeq, ConcatEmptySeq
      <4> QED BY <1>8, <1>idle, <3>2, <4>1, <4>2 DEF EndOK
    <3>4. AckedOK(m.pos, m.pre, i, b)'
      <4>1. acked'[i] = 0
        BY <1>1, <1>2, <1>3, <2>1
      <4>2. <<>> \o <<>> = <<>> /\ Len(<<>>) = 0
        BY EmptySeq, ConcatEmptySeq
      <4> QED BY <1>8, <3>2, <4>1, <4>2 DEF AckedOK
    <3> QED BY <1>1, <3>1, <3>2, <3>3, <3>4
  <2>2. CASE i # fd
    <3>1. /\ b # cur /\ l.own[b] = i /\ file'[i] = file[i]
          /\ written'[i] = written[i] /\ acked'[i] = acked[i]
      BY <1>2, <1>3, <1>8, <1>10, <2>2 DEF Of
    <3>2. Of(l.own, i, b)
      BY <1>10, <3>1 DEF Of
    <3>3. /\ b < header
          /\ data[b].full => LinkOK(l.own, l.pos, l.pre, i, b)
          /\ ~data[b].full => EndOK(l.pos, l.pre, i, b)
          /\ AckedOK(l.pos, l.pre, i, b)
          /\ \A c \in Addresses : l.own[c] = i /\ ~data[b].full /\ ~data[c].full => b = c
      BY <3>2 DEF LabelsOK
    <3>4. data[b].full => LinkOK(m.own, m.pos, m.pre, i, b)'
      <4>1. data[b].full => data[b].next \in Addresses /\ data[b].next # cur
        BY <1>1, <3>2 DEF Free, DataPoints, BlocksInv, Forward
      <4>2. data[b].full => LinkOK(l.own, l.pos, l.pre, i, b)
        BY <3>3
      <4>3. data'[b] = data[b] /\ file'[i] = file[i] /\ Uncounted(i)' = Uncounted(i)
        BY <1>1, <1>idle, <3>1
      <4>4. data[b].full => /\ m.own[data[b].next] = i
                            /\ m.pos[data[b].next] = l.pos[data[b].next]
                            /\ m.pre[data[b].next] = l.pre[data[b].next]
                            /\ m.pos[b] = l.pos[b] /\ m.pre[b] = l.pre[b]
        BY <1>8, <2>2, <3>1, <4>1, <4>2 DEF LinkOK
      <4> QED BY <4>2, <4>3, <4>4 DEF LinkOK
    <3>5. ~data[b].full => EndOK(m.pos, m.pre, i, b)'
      BY <1>1, <1>8, <1>idle, <3>1, <3>3 DEF EndOK
    <3>6. \A c \in Addresses : m.own[c] = i => l.own[c] = i
      BY <1>8, <2>2
    <3>7. AckedOK(m.pos, m.pre, i, b)'
      BY <1>1, <1>8, <3>1, <3>3 DEF AckedOK
    <3> QED BY <1>1, <3>3, <3>4, <3>5, <3>6, <3>7
  <2> QED BY <2>1, <2>2
<1>11. LabelsOK(m.own, m.pos, m.pre)'
  BY <1>9, <1>10, <1>idle DEF LabelsOK
<1> QED BY <1>11 DEF ChainInv, Labels

(* The text fits: it goes to the end of the last block. *)
LEMMA ChainWriteShort ==
  ASSUME IInv, BlocksInv, NEW l \in Labels, LabelsOK(l.own, l.pos, l.pre), WriteShort
  PROVE  ChainInv'
<1> DEFINE fd == op.fd
<1> DEFINE cur == op.cur
<1>1. /\ op.at = "write" /\ fd \in Fds /\ cur \in Addresses /\ op.rest \in Seq(Chars)
      /\ UNCHANGED <<header, file, written>> /\ op' = Idle /\ Writing
      /\ data' = [data EXCEPT ![cur] = Appended(data[cur], op.rest)]
      /\ acked \in [Fds -> Nat] /\ acked' = [acked EXCEPT ![fd] = Len(written[fd])]
  BY DEF WriteShort, Returned, IInv, OpOK, TypeOK, Op, Writing
<1>2. /\ data \in [Addresses -> Data] /\ data[cur].content \in Seq(Chars)
      /\ l.pre[cur] \in Seq(Chars) /\ l.pos \in [Addresses -> Nat]
      /\ \A i \in Fds : file[i].no_of_blocks \in Nat /\ written[i] \in Seq(Chars)
  BY <1>1 DEF IInv, TypeOK, Data, Labels, File
<1>3. l.own[cur] = fd /\ ~data[cur].full /\ LastOne = cur
  BY <1>1 DEF LabelsOK, LastOne
<1>idle. /\ ~Writing' /\ op'.at = "idle" /\ \A i \in Fds : Uncounted(i)' = 0 /\ Pending(i)' = <<>> /\ Uncounted(i) = 0
         /\ Pending(fd) = op.rest /\ \A i \in Fds : i # fd => Pending(i) = <<>>
  BY <1>1 DEF Idle, At, Writing, Uncounted, Pending
<1>4. /\ \A b \in Addresses : data'[b].full = data[b].full /\ data'[b].next = data[b].next
      /\ \A b \in Addresses \ {cur} : data'[b] = data[b]
      /\ data'[cur].content = data[cur].content \o op.rest
  BY <1>1, <1>2 DEF Appended
<1> HIDE DEF fd, cur
<1>5. \A i \in Fds : file'[i].active => StartOK(l.own, l.pos, l.pre, i)'
  BY <1>1 DEF LabelsOK, StartOK
<1>6. ASSUME NEW i \in Fds, NEW b \in Addresses, Of(l.own, i, b)'
      PROVE  /\ b < header'
             /\ data'[b].full => LinkOK(l.own, l.pos, l.pre, i, b)'
             /\ ~data'[b].full => EndOK(l.pos, l.pre, i, b)'
             /\ AckedOK(l.pos, l.pre, i, b)'
             /\ \A c \in Addresses : l.own[c] = i /\ ~data'[b].full /\ ~data'[c].full => b = c
  <2>1. Of(l.own, i, b)
    BY <1>1, <1>6 DEF Of
  <2>2. /\ b < header
        /\ data[b].full => LinkOK(l.own, l.pos, l.pre, i, b)
        /\ ~data[b].full => EndOK(l.pos, l.pre, i, b)
        /\ AckedOK(l.pos, l.pre, i, b)
        /\ \A c \in Addresses : l.own[c] = i /\ ~data[b].full /\ ~data[c].full => b = c
    BY <2>1 DEF LabelsOK
  <2>3. data'[b].full => LinkOK(l.own, l.pos, l.pre, i, b)'
    BY <1>1, <1>3, <1>4, <1>idle, <2>2 DEF LinkOK
  <2>4. CASE b = cur
    <3>1. i = fd /\ l.pos[b] = file[i].no_of_blocks + 0
          /\ (l.pre[b] \o data[b].content) \o op.rest = written[i]
      BY <1>3, <1>idle, <2>1, <2>2, <2>4 DEF EndOK, Of
    <3> DEFINE p == l.pre[b]
    <3> DEFINE c == data[b].content
    <3> DEFINE r == op.rest
    <3>2. p \in Seq(Chars) /\ c \in Seq(Chars) /\ r \in Seq(Chars)
      BY <1>1, <1>2, <2>4
    <3>3. (p \o (c \o r)) \o <<>> = (p \o c) \o r /\ p \o (c \o r) = (p \o c) \o r
      <4> HIDE DEF p, c, r
      <4>1. p \o (c \o r) = (p \o c) \o r
        BY <3>2
      <4>2. p \o c \in Seq(Chars)
        BY <3>2, ConcatFacts
      <4>3. (p \o c) \o r \in Seq(Chars)
        BY <3>2, <4>2, ConcatFacts
      <4> QED BY <4>1, <4>3, ConcatEmptySeq
    <3>4. (l.pre[b] \o data'[b].content) \o Pending(i)' = written'[i]
      BY <1>1, <1>4, <1>idle, <2>4, <3>1, <3>3
    <3>5. EndOK(l.pos, l.pre, i, b)'
      BY <1>1, <1>idle, <3>1, <3>4 DEF EndOK
    <3>6. AckedOK(l.pos, l.pre, i, b)'
      <4>1. acked'[i] = Len(written[i]) /\ Len(written[i]) \in Nat
        BY <1>1, <1>2, <3>1
      <4>2. Len(l.pre[b] \o data'[b].content) = Len(written[i])
        BY <1>4, <2>4, <3>1, <3>3
      <4> QED BY <4>1, <4>2 DEF AckedOK
    <3> QED BY <1>1, <1>4, <2>2, <2>3, <3>5, <3>6
  <2>5. CASE b # cur
    <3>1. ~data[b].full => i # fd
      BY <1>1, <1>3, <2>1, <2>2, <2>5 DEF Of
    <3>2. ~data[b].full => EndOK(l.pos, l.pre, i, b)'
      BY <1>1, <1>4, <1>idle, <2>2, <2>5, <3>1 DEF EndOK
    <3>3. CASE i = fd
      <4>1. data[b].full /\ l.pos[b] < file[i].no_of_blocks + 0
        BY <1>idle, <2>2, <3>1, <3>3 DEF LinkOK
      <4>2. ~(file'[i].no_of_blocks <= l.pos[b])
        BY <1>1, <1>2, <4>1
      <4> QED BY <1>1, <1>4, <2>2, <2>3, <2>5, <3>2, <4>2 DEF AckedOK
    <3>4. CASE i # fd
      <4>1. AckedOK(l.pos, l.pre, i, b)'
        BY <1>1, <1>4, <2>2, <2>5, <3>4 DEF AckedOK
      <4> QED BY <1>1, <1>4, <2>2, <2>3, <2>5, <3>2, <4>1
    <3> QED BY <3>3, <3>4
  <2> QED BY <2>4, <2>5
<1>7. LabelsOK(l.own, l.pos, l.pre)'
  BY <1>5, <1>6, <1>idle DEF LabelsOK
<1> QED BY <1>7 DEF ChainInv, Labels

(* The text fills the last block: the block at the header goes behind it. *)
LEMMA ChainWriteFull ==
  ASSUME IInv, BlocksInv, FreeBeyondHeader, SavedInv, crashes = 0,
         NEW l \in Labels, LabelsOK(l.own, l.pos, l.pre), WriteFull
  PROVE  ChainInv' /\ BlocksInv'
<1> DEFINE fd == op.fd
<1> DEFINE cur == op.cur
<1> DEFINE fit == SubSeq(op.rest, 1, SizeLeft)
<1>1. /\ op.at = "write" /\ fd \in Fds /\ cur \in Addresses /\ op.rest \in Seq(Chars) /\ Writing
      /\ UNCHANGED <<file, written, acked>> /\ file[fd].active
      /\ op'.at = "link" /\ op'.fd = fd /\ op'.cur = cur /\ op'.rest = Beyond(op.rest, SizeLeft)
  BY DEF WriteFull, IInv, OpOK, TypeOK, Op, Writing, Moved, BlocksInv
<1>2. PICK a \in Addresses : /\ a = header /\ header' = a + 1 /\ header' \in Nat /\ NewBlock(a)
                             /\ data' = [data EXCEPT ![cur] = Filled(data[cur], fit, a)]
  <2>1. PICK a \in Addresses : /\ NewBlock(a)
                               /\ data' = [data EXCEPT ![cur] = Filled(data[cur], fit, a)]
    BY DEF WriteFull
  <2> QED BY <2>1, NewBlockTyped DEF IInv
<1>3. /\ data \in [Addresses -> Data] /\ data[cur].content \in Seq(Chars)
      /\ Len(data[cur].content) <= MAX_CONTENT /\ Len(data[cur].content) \in Nat
      /\ Len(op.rest) \in Nat /\ acked \in [Fds -> Nat]
  <2>1. data \in [Addresses -> Data] /\ Len(data[cur].content) <= MAX_CONTENT
    BY <1>1 DEF IInv, TypeOK
  <2>2. data[cur].content \in Seq(Chars)
    BY <1>1, <2>1 DEF Data
  <2>3. acked \in [Fds -> Nat]
    BY DEF IInv, TypeOK
  <2> QED BY <1>1, <2>1, <2>2, <2>3, ConcatFacts
<1>4. /\ l.own[cur] = fd /\ ~data[cur].full /\ LastOne = cur
      /\ l.own \in [Addresses -> Nat] /\ l.pos \in [Addresses -> Nat]
      /\ l.pre \in [Addresses -> Seq(Chars)]
  BY <1>1 DEF LabelsOK, LastOne, Labels
<1>5. cur < a /\ cur # a
  BY <1>1, <1>2, <1>4, ConstantTypes DEF LabelsOK, Of
<1>6. SizeLeft \in Nat /\ SizeLeft <= Len(op.rest)
      /\ Len(data[cur].content) + SizeLeft = MAX_CONTENT
  <2>1. Len(op.rest) >= SizeLeft
    BY DEF WriteFull
  <2>2. SizeLeft = MAX_CONTENT - Len(data[cur].content)
    BY DEF SizeLeft
  <2> HIDE DEF cur
  <2>3. SizeLeft \in Nat /\ Len(data[cur].content) + SizeLeft = MAX_CONTENT
    BY <1>3, <2>2, ConstantTypes
  <2> QED BY <1>3, <2>1, <2>3
<1>7. fit \in Seq(Chars) /\ Len(fit) = SizeLeft
  BY <1>1, <1>6, CutFacts
<1>8. /\ data'[cur].full /\ data'[cur].next = a /\ data'[cur].content = data[cur].content \o fit
      /\ \A b \in Addresses \ {cur} : data'[b] = data[b]
  BY <1>1, <1>2, <1>3 DEF Filled
<1>9. data[a] = NoData /\ data'[a] = NoData /\ Free(a)
  BY <1>2, <1>5, <1>8, ConstantTypes DEF BlocksInv, FreeBeyondHeader
<1>10. Len(data[cur].content \o fit) = MAX_CONTENT /\ data[cur].content \o fit \in Seq(Chars)
  <2>1. Len(data[cur].content \o fit) = Len(data[cur].content) + Len(fit)
        /\ data[cur].content \o fit \in Seq(Chars)
    BY <1>3, <1>7, ConcatFacts
  <2> QED BY <1>6, <1>7, <2>1
<1>op. /\ Writing' /\ LastOne' = a
       /\ \A i \in Fds : Uncounted(i) = 0 /\ Uncounted(i)' = IF i = fd THEN 1 ELSE 0
       /\ \A i \in Fds : i # fd => Pending(i)' = Pending(i)
       /\ Pending(fd) = op.rest /\ \A i \in Fds : i = fd => Pending(i)' = Beyond(op.rest, SizeLeft)
  BY <1>1, <1>8 DEF Writing, LastOne, Uncounted, Pending
<1> HIDE DEF fd, cur, fit
<1>blocks. BlocksInv'
  <2>1. Forward(data')
    BY <1>2, <1>5, <1>8 DEF BlocksInv, Forward
  <2>2. \A b \in Addresses : data'[b].full => Len(data'[b].content) = MAX_CONTENT
    BY <1>8, <1>10 DEF BlocksInv
  <2>3. \A b \in Addresses : b >= header' => b >= header /\ b # cur
    BY <1>1, <1>2, <1>5, ConstantTypes
  <2>4. \A b \in Addresses : b >= header' => data'[b] = NoData
    BY <1>8, <2>3 DEF BlocksInv
  <2>5. op'.at = "link" /\ file'[op'.fd].active
    BY <1>1 DEF fd
  <2> QED BY <1>op, <2>1, <2>2, <2>4, <2>5 DEF BlocksInv
<1> DEFINE own == [l.own EXCEPT ![a] = fd]
<1> DEFINE pos == [l.pos EXCEPT ![a] = l.pos[cur] + 1]
<1> DEFINE pre == [l.pre EXCEPT ![a] = l.pre[cur] \o (data[cur].content \o fit)]
<1>11. l.pre[cur] \o (data[cur].content \o fit) \in Seq(Chars) /\ l.pre[cur] \in Seq(Chars)
  BY <1>1, <1>4, <1>10, ConcatFacts
<1>12. own \in [Addresses -> Nat] /\ pos \in [Addresses -> Nat] /\ pre \in [Addresses -> Seq(Chars)]
  <2>1. fd \in Nat /\ l.pos[cur] + 1 \in Nat
    BY <1>1, <1>4 DEF Fds
  <2> QED BY <1>4, <1>11, <2>1
<1>13. /\ own[a] = fd /\ pos[a] = l.pos[cur] + 1
       /\ pre[a] = l.pre[cur] \o (data[cur].content \o fit)
       /\ \A b \in Addresses \ {a} : own[b] = l.own[b] /\ pos[b] = l.pos[b] /\ pre[b] = l.pre[b]
  BY <1>4
<1> HIDE DEF own, pos, pre
<1>m. PICK m \in Labels : m.own = own /\ m.pos = pos /\ m.pre = pre
  <2>1. [own |-> own, pos |-> pos, pre |-> pre] \in Labels
    BY <1>12 DEF Labels
  <2> QED BY <2>1
<1>14. /\ m.own[a] = fd /\ m.pos[a] = l.pos[cur] + 1
       /\ m.pre[a] = l.pre[cur] \o (data[cur].content \o fit)
       /\ \A b \in Addresses \ {a} :
            m.own[b] = l.own[b] /\ m.pos[b] = l.pos[b] /\ m.pre[b] = l.pre[b]
  BY <1>13, <1>m
<1>end. /\ l.pos[cur] = file[fd].no_of_blocks + 0
        /\ (l.pre[cur] \o data[cur].content) \o op.rest = written[fd]
  BY <1>1, <1>4, <1>op DEF LabelsOK, Of, EndOK
<1>acked. /\ acked[fd] <= Len(l.pre[cur] \o data[cur].content)
          /\ acked[fd] <= Len(l.pre[cur] \o (data[cur].content \o fit))
  <2>1. AckedOK(l.pos, l.pre, fd, cur) /\ l.pos[cur] = file[fd].no_of_blocks
        /\ file[fd].no_of_blocks \in Nat /\ acked[fd] \in Nat
    BY <1>1, <1>3, <1>4, <1>end DEF LabelsOK, Of, IInv, TypeOK, File
  <2>2. acked[fd] <= Len(l.pre[cur] \o data[cur].content)
    <3>1. file[fd].no_of_blocks <= l.pos[cur]
      BY <2>1
    <3> QED BY <2>1, <3>1, Zenon DEF AckedOK
  <2>3. /\ Len(l.pre[cur] \o data[cur].content) = Len(l.pre[cur]) + Len(data[cur].content)
        /\ Len(data[cur].content \o fit) = Len(data[cur].content) + Len(fit)
        /\ Len(l.pre[cur] \o (data[cur].content \o fit))
             = Len(l.pre[cur]) + Len(data[cur].content \o fit)
        /\ Len(l.pre[cur]) \in Nat /\ Len(fit) \in Nat
    BY <1>3, <1>7, <1>10, <1>11, ConcatFacts
  <2>4. \A n, x, y, z \in Nat : n <= x + y => n <= x + (y + z)
    OBVIOUS
  <2> HIDE DEF cur, fd
  <2> QED BY <1>3, <2>1, <2>2, <2>3, <2>4
<1>saved. NotYetSaved(m.pre)'
  <2> SUFFICES ASSUME failures' = 0
               PROVE  /\ data'[cur].full /\ ~disk'.data[cur].full
                      /\ Starts(Chars, disk'.data[cur].content, data'[cur].content)
                      /\ acked'[fd] <= Len(m.pre[cur] \o disk'.data[cur].content)
    BY <1>1 DEF NotYetSaved, fd, cur
  <2>1. disk'.data = disk.data /\ failures = 0
    BY <1>2, DiskWritten DEF NewBlock, WrHeader, disk_of, IInv
  <2>2. disk.data[cur] = data[cur]
    BY <1>1, <2>1 DEF SavedInv, BlockSaved, cur
  <2>3. Starts(Chars, data[cur].content, data[cur].content \o fit)
    BY <1>3, <1>7 DEF Starts
  <2>4. disk'.data[cur] = data[cur] /\ acked'[fd] = acked[fd] /\ m.pre[cur] = l.pre[cur]
    BY <1>1, <1>5, <1>14, <2>1, <2>2
  <2> QED BY <1>4, <1>8, <1>acked, <2>3, <2>4
<1>15. ASSUME NEW i \in Fds, file'[i].active PROVE StartOK(m.own, m.pos, m.pre, i)'
  <2>1. StartOK(l.own, l.pos, l.pre, i) /\ file[i].active
    BY <1>1, <1>15 DEF LabelsOK
  <2>2. file[i].address # a
    BY <1>9, <2>1 DEF Free, FilePoints
  <2> QED BY <1>1, <1>14, <2>1, <2>2 DEF StartOK
<1>16. ASSUME NEW i \in Fds, NEW b \in Addresses, Of(m.own, i, b)'
       PROVE  /\ b < header'
              /\ data'[b].full => LinkOK(m.own, m.pos, m.pre, i, b)'
              /\ ~data'[b].full => EndOK(m.pos, m.pre, i, b)'
              /\ AckedOK(m.pos, m.pre, i, b)'
              /\ \A c \in Addresses : m.own[c] = i /\ ~data'[b].full /\ ~data'[c].full => b = c
  <2>1. file[i].active /\ m.own[b] = i /\ l.pos[cur] \in Nat /\ file[i].no_of_blocks \in Nat
    BY <1>1, <1>4, <1>16 DEF Of, IInv, TypeOK, File
  <2>2. i = fd => \A c \in Addresses \ {a, cur} : l.own[c] = i => data[c].full
    BY <1>1, <1>4, <2>1 DEF LabelsOK, Of
  <2>3. CASE b = a
    <3>1. i = fd /\ b < header' /\ ~data'[b].full /\ data'[b].content = <<>>
      BY <1>2, <1>9, <1>14, <2>1, <2>3, ConstantTypes DEF NoData
    <3>2. m.pos[b] = file'[i].no_of_blocks + Uncounted(i)'
      BY <1>1, <1>14, <1>op, <1>end, <2>1, <2>3, <3>1
    <3>3. (m.pre[b] \o <<>>) \o Beyond(op.rest, SizeLeft) = written[fd]
      <4>1. m.pre[b] \o <<>> = m.pre[b] /\ m.pre[b] = l.pre[cur] \o (data[cur].content \o fit)
        BY <1>11, <1>14, <2>3, ConcatEmptySeq
      <4>2. (l.pre[cur] \o (data[cur].content \o fit)) \o Beyond(op.rest, SizeLeft)
              = (l.pre[cur] \o data[cur].content) \o op.rest
        <5> DEFINE p == l.pre[cur]
        <5> DEFINE c == data[cur].content
        <5> DEFINE y == Beyond(op.rest, SizeLeft)
        <5> DEFINE pc == p \o c
        <5>1. fit \o y = op.rest
          BY <1>1, <1>6, CutJoined DEF fit
        <5>2. p \in Seq(Chars) /\ c \in Seq(Chars) /\ y \in Seq(Chars) /\ fit \in Seq(Chars)
          BY <1>1, <1>3, <1>6, <1>7, <1>11, CutFacts
        <5> HIDE DEF p, c, y
        <5>3. p \o (c \o fit) = pc \o fit /\ pc \in Seq(Chars)
          BY <5>2
        <5> HIDE DEF pc
        <5>4. (pc \o fit) \o y = pc \o (fit \o y)
          BY <5>2, <5>3
        <5> QED BY <5>1, <5>3, <5>4 DEF p, c, y, pc
      <4> QED BY <1>end, <4>1, <4>2
    <3>4. EndOK(m.pos, m.pre, i, b)'
      BY <1>1, <1>op, <3>1, <3>2, <3>3 DEF EndOK
    <3>5. \A c \in Addresses : m.own[c] = i /\ ~data'[c].full => c = a
      BY <1>8, <1>14, <2>2, <3>1
    <3>6. AckedOK(m.pos, m.pre, i, b)'
      <4>1. m.pre[b] \o data'[b].content = l.pre[cur] \o (data[cur].content \o fit)
        BY <1>11, <1>14, <2>3, <3>1, ConcatEmptySeq
      <4> QED BY <1>1, <1>acked, <3>1, <4>1 DEF AckedOK
    <3> QED BY <2>3, <3>1, <3>4, <3>5, <3>6
  <2>4. CASE b = cur
    <3>1. i = fd /\ b < header'
      BY <1>2, <1>4, <1>5, <1>14, <1>1, <2>1, <2>4, ConstantTypes
    <3>2. m.pos[b] < file'[i].no_of_blocks + Uncounted(i)'
      BY <1>1, <1>5, <1>14, <1>op, <1>end, <2>1, <2>4, <3>1
    <3>3. LinkOK(m.own, m.pos, m.pre, i, b)'
      BY <1>1, <1>5, <1>8, <1>14, <2>4, <3>1, <3>2 DEF LinkOK
    <3>4. AckedOK(m.pos, m.pre, i, b)'
      BY <1>1, <1>5, <1>8, <1>14, <1>acked, <2>4, <3>1 DEF AckedOK
    <3> QED BY <1>8, <2>4, <3>1, <3>3, <3>4
  <2>5. CASE b # a /\ b # cur
    <3>1. Of(l.own, i, b) /\ data'[b] = data[b]
      BY <1>8, <1>14, <2>1, <2>5 DEF Of
    <3>2. /\ b < header
          /\ data[b].full => LinkOK(l.own, l.pos, l.pre, i, b)
          /\ ~data[b].full => EndOK(l.pos, l.pre, i, b)
          /\ AckedOK(l.pos, l.pre, i, b)
          /\ \A c \in Addresses : l.own[c] = i /\ ~data[b].full /\ ~data[c].full => b = c
      BY <3>1 DEF LabelsOK
    <3>3. b < header'
      BY <1>2, <3>2, ConstantTypes
    <3>4. data[b].full => LinkOK(m.own, m.pos, m.pre, i, b)'
      <4>1. data[b].full => data[b].next \in Addresses \ {a}
        BY <1>9, <2>5 DEF Free, DataPoints, BlocksInv, Forward
      <4>2. l.pos[b] \in Nat
        BY <1>4
      <4>3. data[b].full => l.pos[b] < file'[i].no_of_blocks + Uncounted(i)'
        BY <1>1, <1>op, <2>1, <3>2, <4>2 DEF LinkOK
      <4>4. data[b].full => LinkOK(l.own, l.pos, l.pre, i, b)
        BY <3>2
      <4> QED BY <1>14, <2>5, <3>1, <4>1, <4>3, <4>4 DEF LinkOK
    <3>5. ~data[b].full => i # fd
      BY <2>2, <2>5, <3>1 DEF Of
    <3>6. ~data[b].full => EndOK(m.pos, m.pre, i, b)'
      BY <1>1, <1>14, <1>op, <2>5, <3>1, <3>2, <3>5 DEF EndOK
    <3>7. ~data[b].full => \A c \in Addresses : m.own[c] = i /\ ~data'[c].full => b = c
      BY <1>8, <1>14, <3>2, <3>5
    <3>8. AckedOK(m.pos, m.pre, i, b)'
      BY <1>1, <1>14, <2>5, <3>1, <3>2 DEF AckedOK
    <3> QED BY <3>1, <3>3, <3>4, <3>6, <3>7, <3>8
  <2> QED BY <2>3, <2>4, <2>5
<1>17. LabelsOK(m.own, m.pos, m.pre)'
  <2>1. m.own[LastOne'] = op'.fd /\ ~data'[LastOne'].full
    BY <1>1, <1>9, <1>14, <1>op DEF NoData, fd
  <2> QED BY <1>15, <1>16, <1>saved, <2>1 DEF LabelsOK
<1>18. ChainInv'
  BY <1>17 DEF ChainInv, Labels
<1> QED BY <1>18, <1>blocks

LEMMA ContentStep == IInv /\ SavedInv /\ ContentInv /\ [Next]_vars => ContentInv'
<1> SUFFICES ASSUME IInv, SavedInv, ContentInv, [Next]_vars, crashes' = 0
             PROVE  BlocksInv' /\ ChainInv'
  BY DEF ContentInv
<1>types. /\ header \in Nat /\ file \in [Fds -> File] /\ data \in [Addresses -> Data]
          /\ written \in [Fds -> Seq(Chars)] /\ acked \in [Fds -> Nat]
          /\ op.fd \in Fds /\ op.rest \in Seq(Chars) /\ crashes \in Nat
  BY ConstantTypes DEF IInv, TypeOK, Op
<1>0. crashes = 0
  BY <1>types, FilesAssumption DEF Next, vars, Setup, Load, Crash, Open, OpenRecord, Close, Write,
       WriteShort, WriteFull, WriteLink, WriteCount
<1>1. BlocksInv /\ ChainInv /\ Fresh /\ FreeBeyondHeader /\ PendingFree
  BY <1>0 DEF ContentInv, IInv
<1>2. PICK l \in Labels : LabelsOK(l.own, l.pos, l.pre)
  BY <1>1 DEF ChainInv
<1> USE IdleTyped
<1>empty. NothingOpen' => ChainInv'
  BY ChainEmpty, PTL
(* A step that leaves the blocks alone. *)
<1>blocks. ASSUME data' = data, header' \in Nat, header <= header', ~Writing' => op'.rest = <<>>,
                  op'.at \notin {"setup", "load", "open"}, Writing' => file'[op'.fd].active
           PROVE  BlocksInv'
  <2>1. \A b \in Addresses : b >= header' => b >= header
    BY <1>types, <1>blocks, ConstantTypes
  <2> QED BY <1>1, <1>blocks, <2>1 DEF BlocksInv
<1>same. CASE UNCHANGED vars
  <2>1. /\ header' = header /\ file' = file /\ data' = data /\ op' = op /\ written' = written
        /\ acked' = acked /\ disk' = disk /\ failures' = failures /\ header <= header'
    BY <1>types, <1>same DEF vars
  <2>2. BlocksInv'
    BY <1>1, <2>1 DEF BlocksInv, Forward, Writing
  <2>3. Writing' => l.own[LastOne'] = op'.fd /\ ~data[LastOne'].full
    BY <1>2, <2>1 DEF LabelsOK, Writing, LastOne
  <2>4. \A i \in Fds : Uncounted(i)' = Uncounted(i) /\ Pending(i)' = Pending(i)
    BY <2>1 DEF Uncounted, Pending
  <2>s. op'.at = "link" => NotYetSaved(l.pre)'
    BY <1>2, <2>1 DEF LabelsOK, NotYetSaved
  <2>5. ChainInv'
    BY <1>types, <1>2, <2>1, <2>3, <2>4, <2>s, LabelsKept
  <2> QED BY <2>2, <2>5
<1>setup. CASE Setup
  <2>1. /\ op.at = "setup" /\ op'.at = "load" /\ op'.rest = <<>> /\ UNCHANGED <<file, data>>
        /\ ~Writing'
    BY <1>setup DEF Setup, At, Writing
  <2>2. /\ \A i \in Fds : ~file'[i].active
        /\ \A a \in Addresses : data'[a] = NoData
    BY <1>1, <2>1 DEF Fresh, BlocksInv
  <2>3. BlocksInv'
    BY <2>1, <2>2 DEF BlocksInv, Forward
  <2>4. ChainInv'
    BY <1>empty, <2>1, <2>2 DEF NothingOpen
  <2> QED BY <2>3, <2>4
<1>load. CASE Load
  <2>1. op.at = "load" /\ op' = Idle
    BY <1>load DEF Load
  <2>2. /\ \A i \in Fds : ~file'[i].active
        /\ data' = [a \in Addresses |-> data[a]]
    BY <1>1, <1>load, <2>1, EmptyLoad, TypesSame DEF Fresh, IInv
  <2>4. \A a \in Addresses : data'[a] = NoData
    BY <1>1, <2>1, <2>2 DEF BlocksInv
  <2>5. op'.at = "idle" /\ op'.rest = <<>> /\ ~Writing'
    BY <2>1 DEF Idle, At, Writing
  <2>6. BlocksInv'
    BY <2>4, <2>5 DEF BlocksInv, Forward
  <2>7. ChainInv'
    BY <1>empty, <2>1, <2>2, <2>5 DEF NothingOpen
  <2> QED BY <2>6, <2>7
<1>crash. CASE Crash
  BY <1>types, <1>crash DEF Crash
<1>open. ASSUME NEW name \in Names, Open(name) PROVE BlocksInv' /\ ChainInv'
  <2>1. PICK i \in Fds, a \in Addresses :
          /\ IsNewFile(i)
          /\ NewBlock(a)
          /\ op' = [at |-> "open", fd |-> i, name |-> name, cur |-> a, rest |-> <<>>]
    BY <1>open DEF Open
  <2>2. /\ a = header /\ header' = header + 1 /\ header' \in Nat /\ header <= header'
        /\ UNCHANGED <<file, data, written, acked>> /\ op.at = "idle"
    BY <1>open, <1>types, <2>1 DEF Open, NewBlock
  <2>3. data[a] = NoData /\ ~file[i].active
    BY <1>1, <1>types, <2>1, <2>2 DEF BlocksInv, IsNewFile
  <2>4. op'.at = "open" /\ op'.cur = a /\ op'.fd = i /\ op'.rest = <<>> /\ ~Writing'
    BY <2>1 DEF Writing
  <2>5. \A b \in Addresses : b >= header' => b >= header
    BY <1>types, <2>2, ConstantTypes
  <2>6. BlocksInv'
    BY <1>1, <2>2, <2>3, <2>4, <2>5 DEF BlocksInv
  <2>7. op.rest = <<>>
    BY <1>1, <2>2 DEF BlocksInv, Writing
  <2>8. \A j \in Fds : Uncounted(j)' = Uncounted(j) /\ Pending(j)' = Pending(j)
    BY <2>2, <2>4, <2>7 DEF Uncounted, Pending
  <2>9. ChainInv'
    BY <1>types, <1>2, <2>2, <2>4, <2>8, LabelsKept
  <2> QED BY <2>6, <2>9
<1>record. CASE OpenRecord
  <2>1. ChainInv'
    BY <1>1, <1>2, <1>record, ChainOpenRecord
  <2>2. op'.at = "idle" /\ op'.rest = <<>> /\ ~Writing' /\ UNCHANGED <<header, data>>
    BY <1>record DEF OpenRecord, Idle, At, Writing
  <2> QED BY <1>types, <1>blocks, <2>1, <2>2
<1>close. ASSUME NEW i \in Fds, Close(i) PROVE BlocksInv' /\ ChainInv'
  <2>1. /\ op.at = "idle" /\ op' = op /\ ~Writing /\ ~Writing' /\ op.rest = <<>>
        /\ UNCHANGED <<header, data>>
    BY <1>1, <1>close DEF Close, BlocksInv, Writing
  <2>2. BlocksInv'
    BY <1>types, <1>blocks, <2>1
  <2>3. \A j \in Fds : file'[j].active =>
            /\ file[j].active /\ file'[j] = file[j]
            /\ written'[j] = written[j] /\ acked'[j] = acked[j]
            /\ Uncounted(j)' = Uncounted(j) /\ Pending(j)' = Pending(j)
    BY <1>types, <1>close, <2>1 DEF Close, Uncounted, Pending
  <2>4. op'.at # "link" /\ header <= header' /\ header' \in Nat
    BY <1>types, <2>1
  <2>5. ChainInv'
    BY <1>types, <1>2, <2>1, <2>3, <2>4, LabelsKept
  <2> QED BY <2>2, <2>5
<1>write. ASSUME NEW i \in Fds, NEW text \in Texts, Write(i, text) PROVE BlocksInv' /\ ChainInv'
  <2>1. PICK a \in Addresses :
          /\ a = LastBlock(i)
          /\ op' = [at |-> "write", fd |-> i, name |-> NoName, cur |-> a, rest |-> text]
    BY <1>write DEF Write
  <2>2. /\ op.at = "idle" /\ file[i].active /\ op.rest = <<>>
        /\ UNCHANGED <<header, file, data, acked>>
        /\ written' = [written EXCEPT ![i] = written[i] \o text]
    BY <1>1, <1>write DEF Write, BlocksInv, Writing
  <2>3. l.own[a] = i /\ ~data[a].full
    BY <1>1, <1>2, <2>1, <2>2, LastFollows DEF IInv
  <2>4. op'.at = "write" /\ op'.fd = i /\ op'.cur = a /\ op'.rest = text /\ Writing' /\ LastOne' = a
    BY <2>1 DEF Writing, LastOne
  <2>5. BlocksInv'
    BY <1>types, <1>blocks, <2>2, <2>4
  <2>6. \A j \in Fds : Uncounted(j)' = 0 /\ Uncounted(j) = 0 /\ Pending(j) = <<>>
                       /\ Pending(j)' = IF j = i THEN text ELSE <<>>
    <3>1. \A j \in Fds : j = i <=> op'.fd = j
      BY <2>4
    <3>2. \A j \in Fds : j # i => Pending(j)' = <<>>
      BY <2>4 DEF Pending
    <3> QED BY <2>2, <2>4 DEF Uncounted, Pending
  <2>7. LabelsOK(l.own, l.pos, l.pre)'
    <3>1. \A j \in Fds : file'[j].active => StartOK(l.own, l.pos, l.pre, j)'
      BY <1>2, <2>2 DEF LabelsOK, StartOK
    <3>2. ASSUME NEW j \in Fds, NEW b \in Addresses, Of(l.own, j, b)'
          PROVE  /\ b < header'
                 /\ data'[b].full => LinkOK(l.own, l.pos, l.pre, j, b)'
                 /\ ~data'[b].full => EndOK(l.pos, l.pre, j, b)'
                 /\ AckedOK(l.pos, l.pre, j, b)'
                 /\ \A c \in Addresses : l.own[c] = j /\ ~data'[b].full /\ ~data'[c].full => b = c
      <4>1. Of(l.own, j, b)
        BY <2>2, <3>2 DEF Of
      <4>2. /\ b < header
            /\ data[b].full => LinkOK(l.own, l.pos, l.pre, j, b)
            /\ ~data[b].full => EndOK(l.pos, l.pre, j, b)
            /\ AckedOK(l.pos, l.pre, j, b)
            /\ \A c \in Addresses : l.own[c] = j /\ ~data[b].full /\ ~data[c].full => b = c
        BY <1>2, <4>1 DEF LabelsOK
      <4>3. data'[b].full => LinkOK(l.own, l.pos, l.pre, j, b)'
        BY <2>2, <2>6, <4>2 DEF LinkOK
      <4> DEFINE before == l.pre[b] \o data[b].content
      <4>4. before \in Seq(Chars)
        BY <1>types, ConcatFacts DEF Labels, Data
      <4>5. ~data[b].full => before \o <<>> = written[j]
        BY <2>6, <4>2 DEF EndOK
      <4>6. before \o <<>> = before
        <5> HIDE DEF before
        <5> QED BY <4>4, ConcatEmptySeq
      <4>7. ~data[b].full => before \o Pending(j)' = written'[j]
        <5> HIDE DEF before
        <5>1. CASE j = i
          BY <1>types, <2>2, <2>6, <4>5, <4>6, <5>1
        <5>2. CASE j # i
          BY <1>types, <2>2, <2>6, <4>5, <5>2
        <5> QED BY <5>1, <5>2
      <4>8. ~data'[b].full => EndOK(l.pos, l.pre, j, b)'
        BY <2>2, <2>6, <4>2, <4>7 DEF EndOK
      <4>9. AckedOK(l.pos, l.pre, j, b)'
        BY <2>2, <4>2 DEF AckedOK
      <4> QED BY <2>2, <4>2, <4>3, <4>8, <4>9
    <3>3. l.own[LastOne'] = op'.fd /\ ~data'[LastOne'].full
      BY <2>2, <2>3, <2>4
    <3> QED BY <2>4, <3>1, <3>2, <3>3 DEF LabelsOK
  <2> QED BY <2>5, <2>7 DEF ChainInv, Labels
<1>short. CASE WriteShort
  <2>1. ChainInv'
    BY <1>1, <1>2, <1>short, ChainWriteShort
  <2>2. op.at = "write" /\ op'.at = "idle" /\ op'.rest = <<>> /\ ~Writing' /\ header' = header
        /\ data' = [data EXCEPT ![op.cur] = Appended(data[op.cur], op.rest)] /\ op.cur \in Addresses
    BY <1>short DEF WriteShort, Returned, Idle, At, Writing, IInv, OpOK
  <2>3. l.own[op.cur] = op.fd /\ ~data[op.cur].full /\ file[op.fd].active
    BY <1>1, <1>2, <2>2 DEF LabelsOK, LastOne, Writing, BlocksInv
  <2>4. op.cur < header
    BY <1>types, <1>2, <2>2, <2>3 DEF LabelsOK, Of
  <2>5. \A b \in Addresses : b >= header => b # op.cur
    BY <1>types, <2>4, ConstantTypes
  <2>6. /\ ~data'[op.cur].full
        /\ \A b \in Addresses \ {op.cur} : data'[b] = data[b]
    BY <1>types, <2>2, <2>3 DEF Appended
  <2>7. BlocksInv'
    BY <1>1, <2>2, <2>5, <2>6 DEF BlocksInv, Forward
  <2> QED BY <2>1, <2>7
<1>full. CASE WriteFull
  BY <1>0, <1>1, <1>2, <1>full, ChainWriteFull
<1>link. CASE WriteLink
  <2>1. /\ op.at = "link" /\ UNCHANGED <<header, file, data, written, acked>>
        /\ op'.at = "count" /\ op'.fd = op.fd /\ op'.cur = data[op.cur].next /\ op'.rest = op.rest
        /\ Writing /\ Writing' /\ LastOne = data[op.cur].next /\ LastOne' = LastOne
    BY <1>link DEF WriteLink, Moved, Writing, LastOne
  <2>2. BlocksInv'
    BY <1>1, <1>types, <1>blocks, <2>1 DEF BlocksInv
  <2>3. \A j \in Fds : Uncounted(j)' = Uncounted(j) /\ Pending(j)' = Pending(j)
    BY <2>1 DEF Uncounted, Pending
  <2>4. l.own[LastOne'] = op'.fd /\ ~data[LastOne'].full
    BY <1>2, <2>1 DEF LabelsOK
  <2>5. ChainInv'
    BY <1>types, <1>2, <2>1, <2>3, <2>4, LabelsKept
  <2> QED BY <2>2, <2>5
<1>count. CASE WriteCount
  <2> DEFINE fd == op.fd
  <2>1. /\ op.at = "count" /\ UNCHANGED <<header, data, written>> /\ op'.rest = op.rest
        /\ file' = [file EXCEPT ![fd] = OneMoreBlock(file[fd])] /\ file[fd].active
        /\ Writing /\ LastOne = op.cur
    <3>1. op'.rest = op.rest
      BY <1>count DEF WriteCount, Returned, Moved, Idle, At
    <3> QED BY <1>1, <1>count, <3>1 DEF WriteCount, Writing, LastOne, BlocksInv
  <2>2. \/ op'.at = "idle" /\ ~Writing' /\ op'.rest = <<>>
        \/ op'.at = "write" /\ op'.fd = fd /\ op'.cur = op.cur /\ Writing' /\ LastOne' = op.cur
    BY <1>count DEF WriteCount, Returned, Moved, Idle, At, Writing, LastOne
  <2>3. /\ \A j \in Fds : file'[j].active = file[j].active /\ file'[j].address = file[j].address
        /\ \A j \in Fds : file'[j].no_of_blocks =
             IF j = fd THEN file[j].no_of_blocks + 1 ELSE file[j].no_of_blocks
    BY <1>types, <2>1 DEF OneMoreBlock
  <2>a. \A j \in Fds : acked'[j] = acked[j] \/ /\ j = fd /\ acked'[j] = Len(written[j])
                                               /\ op.rest = <<>>
    BY <1>types, <1>count DEF WriteCount, Returned
  <2>4. BlocksInv'
    BY <1>types, <1>blocks, <2>1, <2>2, <2>3
  <2>5. \A j \in Fds : Uncounted(j) = (IF j = fd THEN 1 ELSE 0) /\ Uncounted(j)' = 0
    BY <2>1, <2>2 DEF Uncounted
  <2>6. \A j \in Fds : Pending(j)' = Pending(j)
    BY <2>1, <2>2 DEF Pending
  <2> HIDE DEF fd
  <2>7. \A j \in Fds : file[j].no_of_blocks \in Nat
    BY <1>types DEF File
  <2>8. \A j \in Fds : file'[j].no_of_blocks + Uncounted(j)' = file[j].no_of_blocks + Uncounted(j)
    BY <2>3, <2>5, <2>7
  <2>9. LabelsOK(l.own, l.pos, l.pre)'
    <3>1. \A j \in Fds : file'[j].active => StartOK(l.own, l.pos, l.pre, j)'
      BY <1>2, <2>3 DEF LabelsOK, StartOK
    <3>2. ASSUME NEW j \in Fds, NEW b \in Addresses, Of(l.own, j, b)'
          PROVE  /\ b < header'
                 /\ data'[b].full => LinkOK(l.own, l.pos, l.pre, j, b)'
                 /\ ~data'[b].full => EndOK(l.pos, l.pre, j, b)'
                 /\ AckedOK(l.pos, l.pre, j, b)'
                 /\ \A c \in Addresses : l.own[c] = j /\ ~data'[b].full /\ ~data'[c].full => b = c
      <4>1. Of(l.own, j, b)
        BY <2>3, <3>2 DEF Of
      <4>2. /\ b < header
            /\ data[b].full => LinkOK(l.own, l.pos, l.pre, j, b)
            /\ ~data[b].full => EndOK(l.pos, l.pre, j, b)
            /\ AckedOK(l.pos, l.pre, j, b)
            /\ \A c \in Addresses : l.own[c] = j /\ ~data[b].full /\ ~data[c].full => b = c
        BY <1>2, <4>1 DEF LabelsOK
      <4>3. data'[b].full => LinkOK(l.own, l.pos, l.pre, j, b)'
        BY <2>1, <2>8, <4>2 DEF LinkOK
      <4>4. ~data'[b].full => EndOK(l.pos, l.pre, j, b)'
        BY <2>1, <2>6, <2>8, <4>2 DEF EndOK
      <4>5. AckedOK(l.pos, l.pre, j, b)'
        <5>1. CASE acked'[j] = acked[j]
          <6>1. file'[j].no_of_blocks <= l.pos[b] => file[j].no_of_blocks <= l.pos[b]
            <7>1. /\ l.pos[b] \in Nat /\ file[j].no_of_blocks \in Nat
                  /\ file'[j].no_of_blocks \in {file[j].no_of_blocks, file[j].no_of_blocks + 1}
              BY <2>3, <2>7 DEF Labels
            <7> QED BY <7>1
          <6> QED BY <2>1, <4>2, <5>1, <6>1 DEF AckedOK
        <5>2. CASE j = fd /\ acked'[j] = Len(written[j]) /\ op.rest = <<>>
          <6>1. CASE data[b].full
            <7>1. l.pos[b] < file'[j].no_of_blocks /\ l.pos[b] \in Nat /\ file'[j].no_of_blocks \in Nat
              BY <2>3, <2>5, <2>7, <4>2, <5>2, <6>1 DEF LinkOK, Labels
            <7> QED BY <7>1 DEF AckedOK
          <6>2. CASE ~data[b].full
            <7> DEFINE all == l.pre[b] \o data[b].content
            <7>1. all \in Seq(Chars)
              BY <1>types, ConcatFacts DEF Labels, Data
            <7>2. Pending(j) = <<>>
              BY <5>2 DEF Pending
            <7>3. all \o <<>> = written[j]
              BY <4>2, <6>2, <7>2 DEF EndOK
            <7>4. all = written[j]
              <8> HIDE DEF all
              <8> QED BY <7>1, <7>3, ConcatEmptySeq
            <7>5. acked'[j] = Len(l.pre[b] \o data'[b].content) /\ Len(written[j]) \in Nat
              BY <1>types, <2>1, <5>2, <7>4
            <7> QED BY <5>2, <7>5 DEF AckedOK
          <6> QED BY <6>1, <6>2
        <5> QED BY <2>a, <5>1, <5>2
      <4> QED BY <2>1, <4>2, <4>3, <4>4, <4>5
    <3>3. Writing' => l.own[LastOne'] = op'.fd /\ ~data'[LastOne'].full
      BY <1>2, <2>1, <2>2 DEF LabelsOK, fd
    <3> QED BY <2>2, <3>1, <3>2, <3>3 DEF LabelsOK
  <2> QED BY <2>4, <2>9 DEF ChainInv, Labels
<1> QED BY <1>same, <1>setup, <1>load, <1>crash, <1>open, <1>record, <1>close, <1>write, <1>short,
           <1>full, <1>link, <1>count DEF Next

LEMMA SavedStep == IInv /\ ContentInv /\ SavedInv /\ [Next]_vars => SavedInv'
<1> SUFFICES ASSUME IInv, ContentInv, SavedInv, [Next]_vars, crashes' = 0
             PROVE  /\ \A i \in Fds : RecordOK(i)'
                    /\ failures' = 0 => \A b \in Addresses : BlockSaved(b)'
  BY DEF SavedInv
<1>types. /\ TypeOK /\ file \in [Fds -> File] /\ data \in [Addresses -> Data]
          /\ disk.data \in [Addresses -> Data] /\ acked \in [Fds -> Nat]
          /\ written \in [Fds -> Seq(Chars)] /\ op.fd \in Fds /\ crashes \in Nat
  <2>1. TypeOK
    BY DEF IInv
  <2>2. /\ file \in [Fds -> File] /\ data \in [Addresses -> Data] /\ acked \in [Fds -> Nat]
        /\ disk.data \in [Addresses -> Data] /\ written \in [Fds -> Seq(Chars)]
    BY <2>1 DEF TypeOK
  <2>3. op.fd \in Fds /\ crashes \in Nat
    BY <2>1, ConstantTypes DEF TypeOK, Op
  <2> QED BY <2>1, <2>2, <2>3
<1>0. crashes = 0
  BY <1>types, FilesAssumption DEF Next, vars, Setup, Load, Crash, Open, OpenRecord, Close, Write,
       WriteShort, WriteFull, WriteLink, WriteCount
<1>1. \A i \in Fds : RecordOK(i)
  BY <1>0 DEF SavedInv
<1>2. failures = 0 => \A b \in Addresses : BlockSaved(b)
  BY <1>0 DEF SavedInv
<1> USE IdleTyped
(* A step that leaves records, blocks and what was returned alone. *)
<1>kept. ASSUME UNCHANGED <<file, data, acked>>, failures' = 0 => failures = 0,
                failures' = 0 => disk'.data = disk.data,
                op.at # "link", op'.at # "link"
         PROVE  /\ \A i \in Fds : RecordOK(i)'
                /\ failures' = 0 => \A b \in Addresses : BlockSaved(b)'
  BY <1>1, <1>2, <1>kept DEF RecordOK, BlockSaved
<1>same. CASE UNCHANGED vars
  BY <1>1, <1>2, <1>same DEF vars, RecordOK, BlockSaved
<1>setup. CASE Setup
  <2>1. failures' = 0 => disk' = disk_of(FirstBlock, disk.file, disk.data) /\ failures = 0
    BY <1>setup, <1>types, DiskWritten DEF Setup, WrHeader
  <2> QED BY <1>setup, <1>kept, <2>1 DEF Setup, disk_of
<1>load. CASE Load
  <2>1. op.at = "load" /\ op' = Idle /\ UNCHANGED <<disk, acked>>
    BY <1>load DEF Load
  <2>2. /\ \A i \in Fds : ~file[i].active /\ ~file'[i].active
        /\ data' = [a \in Addresses |-> data[a]]
    BY <1>0, <1>load, <2>1, EmptyLoad, TypesSame DEF IInv, Fresh
  <2>5. failures' = 0 => failures = 0
    BY <1>load, <1>types, FullLoad, TypesSame
  <2>3. \A i \in Fds : RecordOK(i)'
    BY <1>1, <2>1, <2>2 DEF RecordOK
  <2>4. failures' = 0 => \A b \in Addresses : BlockSaved(b)'
    BY <1>2, <2>1, <2>2, <2>5 DEF BlockSaved
  <2> QED BY <2>3, <2>4
<1>crash. CASE Crash
  BY <1>types, <1>crash DEF Crash
<1>open. ASSUME NEW name \in Names, Open(name)
         PROVE  /\ \A i \in Fds : RecordOK(i)'
                /\ failures' = 0 => \A b \in Addresses : BlockSaved(b)'
  <2>1. PICK i \in Fds, a \in Addresses :
          /\ NewBlock(a)
          /\ op' = [at |-> "open", fd |-> i, name |-> name, cur |-> a, rest |-> <<>>]
    BY <1>open DEF Open
  <2>2. failures' = 0 => disk' = disk_of(a + 1, disk.file, disk.data) /\ failures = 0
    BY <1>types, <2>1, DiskWritten DEF NewBlock, WrHeader
  <2>3. op.at = "idle" /\ op'.at = "open" /\ UNCHANGED <<file, data, acked>>
    BY <1>open, <2>1 DEF Open
  <2> QED BY <1>kept, <2>2, <2>3 DEF disk_of
<1>record. CASE OpenRecord
  <2>1. /\ file' = [file EXCEPT ![op.fd] = NewFile] /\ acked' = [acked EXCEPT ![op.fd] = 0]
        /\ data' = data /\ op.at = "open" /\ op' = Idle
        /\ NewFile.active /\ NewFile.no_of_blocks = 1
    BY <1>record DEF OpenRecord, NewFile
  <2>2. \A i \in Fds : RecordOK(i)'
    BY <1>1, <1>types, <2>1 DEF RecordOK
  <2>3. failures' = 0 => disk'.data = disk.data /\ failures = 0
    BY <1>record, <1>types, DiskWritten DEF OpenRecord, WrFile, disk_of
  <2>4. failures' = 0 => \A b \in Addresses : BlockSaved(b)'
    BY <1>2, <2>1, <2>3 DEF BlockSaved
  <2> QED BY <2>2, <2>4
<1>close. ASSUME NEW i \in Fds, Close(i)
          PROVE  /\ \A j \in Fds : RecordOK(j)'
                 /\ failures' = 0 => \A b \in Addresses : BlockSaved(b)'
  <2>1. /\ file' = [file EXCEPT ![i] = NoFile] /\ acked' = [acked EXCEPT ![i] = 0]
        /\ UNCHANGED <<data, op>> /\ op.at = "idle"
    BY <1>close DEF Close
  <2>2. \A j \in Fds : RecordOK(j)'
    BY <1>1, <1>types, <2>1 DEF RecordOK
  <2>3. failures' = 0 => disk'.data = disk.data /\ failures = 0
    BY <1>close, <1>types, DiskWritten DEF Close, WrFile, disk_of
  <2>4. failures' = 0 => \A b \in Addresses : BlockSaved(b)'
    BY <1>2, <2>1, <2>3 DEF BlockSaved
  <2> QED BY <2>2, <2>4
<1>write. ASSUME NEW i \in Fds, NEW text \in Texts, Write(i, text)
          PROVE  /\ \A j \in Fds : RecordOK(j)'
                 /\ failures' = 0 => \A b \in Addresses : BlockSaved(b)'
  BY <1>kept, <1>write DEF Write
<1>active. op.at \in {"write", "link", "count"} => file[op.fd].active
  BY <1>0 DEF ContentInv, BlocksInv, Writing
<1>short. CASE WriteShort
  <2> DEFINE d == Appended(data[op.cur], op.rest)
  <2>1. /\ op.at = "write" /\ op' = Idle /\ op.cur \in Addresses /\ UNCHANGED <<file, written>>
        /\ data' = [data EXCEPT ![op.cur] = d]
        /\ acked' = [acked EXCEPT ![op.fd] = Len(written[op.fd])]
    BY <1>short DEF WriteShort, Returned, IInv, OpOK
  <2>2. \A i \in Fds : RecordOK(i)'
    BY <1>1, <1>types, <1>active, <2>1 DEF RecordOK
  <2>3. failures' = 0 => disk'.data = [disk.data EXCEPT ![op.cur] = d] /\ failures = 0
    BY <1>short, <1>types, DiskWritten DEF WriteShort, WrData, disk_of
  <2> HIDE DEF d
  <2>4. failures' = 0 => \A b \in Addresses : BlockSaved(b)'
    BY <1>2, <1>types, <2>1, <2>3 DEF BlockSaved
  <2> QED BY <2>2, <2>4
<1>full. CASE WriteFull
  <2>1. PICK a \in Addresses :
          /\ NewBlock(a)
          /\ data' = [data EXCEPT ![op.cur] = Filled(data[op.cur], SubSeq(op.rest, 1, SizeLeft), a)]
    BY <1>full DEF WriteFull
  <2>2. /\ op.at = "write" /\ op'.at = "link" /\ op'.cur = op.cur /\ UNCHANGED <<file, acked>>
    BY <1>full DEF WriteFull, Moved
  <2>3. \A i \in Fds : RecordOK(i)'
    BY <1>1, <2>2 DEF RecordOK
  <2>4. failures' = 0 => disk'.data = disk.data /\ failures = 0
    BY <2>1, <1>types, DiskWritten DEF NewBlock, WrHeader, disk_of
  <2>5. failures' = 0 => \A b \in Addresses : BlockSaved(b)'
    BY <1>2, <1>types, <2>1, <2>2, <2>4 DEF BlockSaved
  <2> QED BY <2>3, <2>5
<1>link. CASE WriteLink
  <2>1. op.at = "link" /\ op'.at = "count" /\ UNCHANGED <<file, data, acked>>
    BY <1>link DEF WriteLink, Moved
  <2>2. \A i \in Fds : RecordOK(i)'
    BY <1>1, <2>1 DEF RecordOK
  <2>3. failures' = 0 => disk'.data = [disk.data EXCEPT ![op.cur] = data[op.cur]] /\ failures = 0
    BY <1>link, <1>types, DiskWritten DEF WriteLink, WrData, disk_of
  <2>4. failures' = 0 => \A b \in Addresses : BlockSaved(b)'
    BY <1>2, <1>types, <2>1, <2>3 DEF BlockSaved
  <2> QED BY <2>2, <2>4
<1>count. CASE WriteCount
  <2> DEFINE f == OneMoreBlock(file[op.fd])
  <2>1. /\ op.at = "count" /\ op'.at # "link" /\ data' = data
        /\ file' = [file EXCEPT ![op.fd] = f]
        /\ acked' = acked \/ acked' = [acked EXCEPT ![op.fd] = Len(written[op.fd])]
    BY <1>count DEF WriteCount, Returned, Moved
  <2>2. f.active = file[op.fd].active /\ f.no_of_blocks = file[op.fd].no_of_blocks + 1
    BY DEF OneMoreBlock
  <2>3. file[op.fd].no_of_blocks \in Nat
    BY <1>types DEF File
  <2>4. failures' = 0 => disk'.data = disk.data /\ failures = 0
    BY <1>count, <1>types, DiskWritten DEF WriteCount, WrFile, disk_of
  <2> HIDE DEF f
  <2>5. ASSUME NEW i \in Fds PROVE RecordOK(i)'
    <3>1. CASE i = op.fd
      BY <1>1, <1>types, <1>active, <2>1, <2>2, <2>3, <3>1 DEF RecordOK
    <3>2. CASE i # op.fd
      BY <1>1, <1>types, <2>1, <3>2 DEF RecordOK
    <3> QED BY <3>1, <3>2
  <2>6. failures' = 0 => \A b \in Addresses : BlockSaved(b)'
    BY <1>2, <2>1, <2>4 DEF BlockSaved
  <2> QED BY <2>5, <2>6
<1> QED BY <1>same, <1>setup, <1>load, <1>crash, <1>open, <1>record, <1>close, <1>write, <1>short,
           <1>full, <1>link, <1>count DEF Next

LEMMA InitContent == Init => ContentInv
<1> SUFFICES ASSUME Init PROVE BlocksInv /\ ChainInv
  BY DEF ContentInv
<1>1. /\ op.at = "setup" /\ op.rest = <<>> /\ ~Writing
      /\ \A i \in Fds : ~file[i].active
      /\ \A a \in Addresses : data[a] = NoData
  BY IdleTyped DEF Init, At, Writing
<1>2. BlocksInv
  BY <1>1, IdleTyped DEF BlocksInv, Forward
<1> QED BY <1>1, <1>2, ChainEmpty DEF NothingOpen

LEMMA ContentForever == Spec => [](ContentInv /\ SavedInv)
<1>1. Init => SavedInv
  BY IdleTyped DEF Init, SavedInv, RecordOK, BlockSaved
<1> QED BY <1>1, InitContent, ContentStep, SavedStep, Invariant, PTL DEF Spec

(* What the blocks of an open file hold is what it was given, for blocks of  *)
(* any size, any texts and any number of failed disk writes: until the       *)
(* restart, and but for what the call in progress has still to write.        *)
THEOREM WhatIsWrittenIsKept == Spec => []ContentIntact
<1>1. IInv /\ ContentInv => ContentIntact
  <2> SUFFICES ASSUME TypeOK, BlocksInv, ChainInv, NEW i \in Fds, file[i].active
               PROVE  /\ ContentOf(data, file[i].address) \o (IF op.fd = i THEN op.rest ELSE <<>>)
                           = written[i]
                      /\ op.at = "idle" => LastBlock(i) \in Addresses /\ ~data[LastBlock(i)].full
    BY DEF IInv, ContentInv, ContentIntact
  <2>1. PICK l \in Labels : LabelsOK(l.own, l.pos, l.pre)
    BY DEF ChainInv
  <2>2. StartOK(l.own, l.pos, l.pre, i)
    BY <2>1 DEF LabelsOK
  <2> DEFINE a == file[i].address
  <2>3. (<<>> \o ContentOf(data, a)) \o Pending(i) = written[i]
    <3>1. a \in Addresses /\ l.own[a] = i /\ l.pre[a] = <<>>
      BY <2>2 DEF StartOK
    <3>2. (l.pre[a] \o ContentOf(data, a)) \o Pending(i) = written[i]
      BY <2>1, <3>1, ContentFollows
    <3> QED BY <3>1, <3>2
  <2>4. ContentOf(data, file[i].address) \in Seq(Chars)
    BY <2>2, ContentFacts DEF StartOK, TypeOK, BlocksInv
  <2>5. <<>> \o ContentOf(data, file[i].address) = ContentOf(data, file[i].address)
    BY <2>4, ConcatEmptySeq
  <2> QED BY <2>1, <2>3, <2>5, LastFollows DEF Pending
<1> QED BY <1>1, ContentForever, Invariant, PTL

----------------------------------------------------------------------------
(* What read returns of one block and what the next ones give. *)
ReadHere(f, a, left) ==
  IF left > MAX_CONTENT /\ data[a].full
  THEN data[a].content \o f[data[a].next][left - (MAX_CONTENT + 1)]
  ELSE First(data[a].content, left)

LEMMA ReadDefined ==
  ASSUME data \in [Addresses -> Data], Forward(data)
  PROVE  \E f : f = [a \in Addresses |-> [left \in Nat |-> ReadHere(f, a, left)]]
<1>1. LastAddress \in Nat /\ \A b \in Addresses : b \in Nat /\ b <= LastAddress
  BY FilesAssumption DEF Addresses, LastAddress, FirstBlock
<1> DEFINE Upto == {n \in Nat :
       \E f : /\ f = [a \in Addresses |-> [left \in Nat |-> f[a][left]]]
              /\ \A a \in Addresses, left \in Nat :
                   a + n > LastAddress => f[a][left] = ReadHere(f, a, left)}
<1>2. 0 \in Upto
  <2> DEFINE f == [a \in Addresses |-> [left \in Nat |-> 0]]
  <2>1. f = [a \in Addresses |-> [left \in Nat |-> f[a][left]]]
    OBVIOUS
  <2>2. \A a \in Addresses : ~(a + 0 > LastAddress)
    BY <1>1
  <2> HIDE DEF f
  <2> QED BY <2>1, <2>2
<1>3. ASSUME NEW n \in Nat, n \in Upto PROVE n + 1 \in Upto
  <2>1. PICK f : /\ f = [a \in Addresses |-> [left \in Nat |-> f[a][left]]]
                 /\ \A a \in Addresses, left \in Nat :
                      a + n > LastAddress => f[a][left] = ReadHere(f, a, left)
    BY <1>3
  <2> DEFINE g == [a \in Addresses |-> [left \in Nat |->
                     IF a + n = LastAddress THEN ReadHere(f, a, left) ELSE f[a][left]]]
  <2>2. \A a \in Addresses, left \in Nat :
          g[a][left] = IF a + n = LastAddress THEN ReadHere(f, a, left) ELSE f[a][left]
    OBVIOUS
  <2>3. g = [a \in Addresses |-> [left \in Nat |-> g[a][left]]]
    OBVIOUS
  <2> HIDE DEF g
  <2>4. \A a, c \in Addresses : a + (n + 1) > LastAddress /\ c > a => c + n # LastAddress
    BY <1>1
  <2>5. \A a \in Addresses : a + (n + 1) > LastAddress => a + n > LastAddress \/ a + n = LastAddress
    BY <1>1
  <2>6. \A a \in Addresses, left \in Nat :
          a + (n + 1) > LastAddress => ReadHere(g, a, left) = ReadHere(f, a, left)
    <3> SUFFICES ASSUME NEW a \in Addresses, NEW left \in Nat, a + (n + 1) > LastAddress,
                        left > MAX_CONTENT, data[a].full
                 PROVE  g[data[a].next][left - (MAX_CONTENT + 1)]
                          = f[data[a].next][left - (MAX_CONTENT + 1)]
      BY DEF ReadHere
    <3>1. data[a].next \in Addresses /\ data[a].next > a
      BY <1>1 DEF Forward
    <3>2. left - (MAX_CONTENT + 1) \in Nat
      BY ConstantTypes
    <3> QED BY <2>2, <2>4, <3>1, <3>2
  <2>7. \A a \in Addresses, left \in Nat :
          a + (n + 1) > LastAddress => g[a][left] = ReadHere(g, a, left)
    BY <2>1, <2>2, <2>5, <2>6
  <2> QED BY <2>3, <2>7
<1>4. LastAddress + 1 \in Upto
  <2> HIDE DEF Upto
  <2> QED BY <1>1, <1>2, <1>3, Induction
<1>5. PICK f : /\ f = [a \in Addresses |-> [left \in Nat |-> f[a][left]]]
               /\ \A a \in Addresses, left \in Nat :
                    a + (LastAddress + 1) > LastAddress => f[a][left] = ReadHere(f, a, left)
  BY <1>4
<1>6. \A a \in Addresses : a + (LastAddress + 1) > LastAddress
  BY <1>1
<1>7. \A a \in Addresses, left \in Nat : f[a][left] = ReadHere(f, a, left)
  BY <1>5, <1>6
<1> QED BY <1>5, <1>7

LEMMA ReadFacts ==
  ASSUME data \in [Addresses -> Data], Forward(data), NEW i \in Fds, NEW n \in Nat
  PROVE  \E f : /\ FileRead(i, n) = f[file[i].address][n]
                /\ \A a \in Addresses, left \in Nat : f[a][left] = ReadHere(f, a, left)
<1> DEFINE f == CHOOSE g : g = [a \in Addresses |-> [left \in Nat |-> ReadHere(g, a, left)]]
<1>1. f = [a \in Addresses |-> [left \in Nat |-> ReadHere(f, a, left)]]
  BY ReadDefined
<1>2. FileRead(i, n) = f[file[i].address][n]
  BY DEF FileRead, ReadHere
<1> HIDE DEF f
<1>3. \A a \in Addresses, left \in Nat : f[a][left] = ReadHere(f, a, left)
  BY <1>1
<1> QED BY <1>2, <1>3

LEMMA ReadFollows ==
  ASSUME TypeOK, BlocksInv, NEW f,
         \A a \in Addresses, left \in Nat : f[a][left] = ReadHere(f, a, left)
  PROVE  \A a \in Addresses, left \in Nat :
           Starts(Chars, f[a][left], ContentOf(data, a)) /\ Len(f[a][left]) <= left
<1>1. /\ data \in [Addresses -> Data] /\ Forward(data) /\ MAX_CONTENT \in Nat
      /\ \A a \in Addresses : data[a].full => Len(data[a].content) = MAX_CONTENT
      /\ \A a \in Addresses : a \in Nat /\ data[a].content \in Seq(Chars)
  BY ConstantTypes DEF BlocksInv, TypeOK, Data
<1> DEFINE Good(a, left) == Starts(Chars, f[a][left], ContentOf(data, a)) /\ Len(f[a][left]) <= left
<1> DEFINE T == {a \in Addresses : \A left \in Nat : Good(a, left)}
<1>2. ASSUME NEW a \in Addresses, \A c \in Addresses : c > a => c \in T PROVE a \in T
  <2> SUFFICES ASSUME NEW left \in Nat PROVE Good(a, left)
    OBVIOUS
  <2> DEFINE here == data[a].content
  <2>1. here \in Seq(Chars)
    BY <1>1
  <2>2. CASE left > MAX_CONTENT /\ data[a].full
    <3> DEFINE c == data[a].next
    <3> DEFINE m == left - (MAX_CONTENT + 1)
    <3>1. c \in Addresses /\ c > a /\ m \in Nat
      BY <1>1, <2>2 DEF Forward
    <3>2. Good(c, m)
      BY <1>2, <3>1
    <3> DEFINE got == f[c][m]
    <3>3. PICK u \in Seq(Chars) : ContentOf(data, c) = got \o u
      BY <3>2 DEF Starts
    <3>4. got \in Seq(Chars) /\ Len(got) <= m
      BY <3>2 DEF Starts
    <3>5. f[a][left] = here \o got
      BY <2>2 DEF ReadHere
    <3>6. ContentOf(data, a) = here \o (got \o u)
      BY <1>1, <2>2, <3>3, ContentFacts
    <3>7. Len(here) = MAX_CONTENT
      BY <1>1, <2>2
    <3> HIDE DEF here, got
    <3>8. here \o got \in Seq(Chars) /\ Len(here \o got) = Len(here) + Len(got)
      BY <2>1, <3>4, ConcatFacts
    <3>9. here \o (got \o u) = (here \o got) \o u
      BY <2>1, <3>4
    <3>10. Len(here \o got) <= left
      <4>1. Len(got) \in Nat
        BY <3>4, ConcatFacts
      <4> QED BY <1>1, <3>1, <3>4, <3>7, <3>8, <4>1
    <3> QED BY <3>5, <3>6, <3>8, <3>9, <3>10 DEF Starts
  <2>3. CASE ~(left > MAX_CONTENT /\ data[a].full)
    <3> DEFINE got == First(here, left)
    <3>1. f[a][left] = got
      BY <2>3 DEF ReadHere
    <3>2. Starts(Chars, got, here) /\ Len(got) <= left
      BY <2>1, FirstStarts
    <3>3. PICK u \in Seq(Chars) : here = got \o u
      BY <3>2 DEF Starts
    <3>4. got \in Seq(Chars)
      BY <3>2 DEF Starts
    <3> HIDE DEF got
    <3>5. PICK v \in Seq(Chars) : ContentOf(data, a) = here \o v
      <4>1. CASE data[a].full
        <5>1. data[a].next \in Addresses
          BY <1>1, <4>1 DEF Forward
        <5>2. ContentOf(data, a) = here \o ContentOf(data, data[a].next)
              /\ ContentOf(data, data[a].next) \in Seq(Chars)
          BY <1>1, <4>1, <5>1, ContentFacts
        <5> QED BY <5>2
      <4>2. CASE ~data[a].full
        <5>1. ContentOf(data, a) = here
          BY <1>1, <4>2, ContentFacts
        <5>2. here = here \o <<>> /\ <<>> \in Seq(Chars)
          BY <2>1, ConcatEmptySeq, EmptySeq
        <5> QED BY <5>1, <5>2
      <4> QED BY <4>1, <4>2
    <3> HIDE DEF here
    <3>6. (got \o u) \o v = got \o (u \o v) /\ u \o v \in Seq(Chars)
      BY <3>4, ConcatFacts
    <3>7. ContentOf(data, a) = got \o (u \o v)
      BY <3>3, <3>5, <3>6
    <3> QED BY <3>1, <3>2, <3>4, <3>6, <3>7 DEF Starts
  <2> QED BY <2>2, <2>3
<1> HIDE DEF T
<1>3. \A a \in Addresses : a \in T
  BY <1>2, DownFromTheLast
<1> QED BY <1>3 DEF T

(* A read returns the start of the file and never more characters than were  *)
(* asked for: any number may be asked for, of files of any length.           *)
THEOREM ReadsStartOfFile == Spec => []ReadIsPrefix
<1>1. IInv /\ ContentInv => ReadIsPrefix
  <2> SUFFICES ASSUME TypeOK, BlocksInv, ChainInv, op.at = "idle",
                      NEW i \in Fds, NEW n \in 0 .. MAX_READ, file[i].active
               PROVE  IsPrefix(FileRead(i, n), written[i]) /\ Len(FileRead(i, n)) <= n
    BY DEF IInv, ContentInv, ReadIsPrefix
  <2> DEFINE a == file[i].address
  <2>1. PICK l \in Labels : LabelsOK(l.own, l.pos, l.pre)
    BY DEF ChainInv
  <2>2. a \in Addresses /\ l.own[a] = i /\ l.pre[a] = <<>>
    BY <2>1 DEF LabelsOK, StartOK
  <2>3. (<<>> \o ContentOf(data, a)) \o Pending(i) = written[i] /\ Pending(i) = <<>>
    <3>1. (l.pre[a] \o ContentOf(data, a)) \o Pending(i) = written[i]
      BY <2>1, <2>2, ContentFollows
    <3>2. Pending(i) = <<>>
      BY DEF Pending, BlocksInv, Writing
    <3> QED BY <2>2, <3>1, <3>2
  <2>4. /\ data \in [Addresses -> Data] /\ Forward(data)
        /\ ContentOf(data, a) \in Seq(Chars) /\ n \in Nat
    <3>1. data \in [Addresses -> Data] /\ Forward(data) /\ n \in Nat
      BY DEF TypeOK, BlocksInv
    <3> QED BY <2>2, <3>1, ContentFacts
  <2>5. ContentOf(data, a) = written[i]
    <3> DEFINE c == ContentOf(data, a)
    <3>1. c \in Seq(Chars) /\ (<<>> \o c) \o <<>> = written[i]
      BY <2>3, <2>4
    <3> HIDE DEF c
    <3>2. <<>> \o c = c /\ c \o <<>> = c
      BY <3>1, ConcatEmptySeq
    <3> QED BY <3>1, <3>2 DEF c
  <2>6. PICK f : /\ FileRead(i, n) = f[a][n]
                 /\ \A b \in Addresses, left \in Nat : f[b][left] = ReadHere(f, b, left)
    BY <2>4, ReadFacts
  <2>7. Starts(Chars, FileRead(i, n), written[i]) /\ Len(FileRead(i, n)) <= n
    BY <2>2, <2>4, <2>5, <2>6, ReadFollows
  <2> QED BY <2>7, StartsIsPrefix
<1> QED BY <1>1, ContentForever, Invariant, PTL

----------------------------------------------------------------------------
(* What load_data follows on the disk. *)

NextLoaded(f, i, j) ==
  IF j = 1 THEN disk.file[i].address
  ELSE IF f[j - 1] \in Addresses THEN disk.data[f[j - 1]].next ELSE 0

LEMMA LoadsDefined ==
  ASSUME NEW i \in Fds, NEW n \in Nat
  PROVE  \E f : f = [j \in 1 .. n |-> NextLoaded(f, i, j)]
<1> DEFINE Good(m) == \E f : /\ f = [j \in 1 .. n |-> f[j]]
                             /\ \A j \in 1 .. n : j <= m => f[j] = NextLoaded(f, i, j)
<1> DEFINE T == {m \in Nat : Good(m)}
<1>1. 0 \in T
  <2> DEFINE f == [j \in 1 .. n |-> 0]
  <2>1. f = [j \in 1 .. n |-> f[j]]
    OBVIOUS
  <2>2. \A j \in 1 .. n : ~(j <= 0)
    OBVIOUS
  <2> HIDE DEF f
  <2> QED BY <2>1, <2>2
<1>2. ASSUME NEW m \in Nat, m \in T PROVE m + 1 \in T
  <2>1. PICK f : /\ f = [j \in 1 .. n |-> f[j]]
                 /\ \A j \in 1 .. n : j <= m => f[j] = NextLoaded(f, i, j)
    BY <1>2
  <2> DEFINE g == [j \in 1 .. n |-> IF j = m + 1 THEN NextLoaded(f, i, j) ELSE f[j]]
  <2>2. \A j \in 1 .. n : g[j] = IF j = m + 1 THEN NextLoaded(f, i, j) ELSE f[j]
    OBVIOUS
  <2>3. g = [j \in 1 .. n |-> g[j]]
    OBVIOUS
  <2> HIDE DEF g
  <2>4. ASSUME NEW j \in 1 .. n, j <= m + 1 PROVE NextLoaded(g, i, j) = NextLoaded(f, i, j)
    <3>1. j # 1 => j - 1 \in 1 .. n /\ j - 1 # m + 1
      BY <2>4
    <3>2. j # 1 => g[j - 1] = f[j - 1]
      BY <2>2, <3>1
    <3> QED BY <3>2 DEF NextLoaded
  <2>5. \A j \in 1 .. n : j <= m + 1 => j = m + 1 \/ j <= m
    OBVIOUS
  <2>6. \A j \in 1 .. n : j <= m + 1 => g[j] = NextLoaded(g, i, j)
    BY <2>1, <2>2, <2>4, <2>5
  <2> QED BY <2>3, <2>6
<1>3. n \in T
  <2> HIDE DEF T
  <2> QED BY <1>1, <1>2, Induction
<1>4. PICK f : /\ f = [j \in 1 .. n |-> f[j]]
               /\ \A j \in 1 .. n : j <= n => f[j] = NextLoaded(f, i, j)
  BY <1>3
<1>5. \A j \in 1 .. n : f[j] = NextLoaded(f, i, j)
  BY <1>4
<1> QED BY <1>4, <1>5

LEMMA LoadsFacts ==
  ASSUME NEW i \in Fds, disk.file[i].no_of_blocks \in Nat
  PROVE  /\ DOMAIN DiskLoads(i) = 1 .. disk.file[i].no_of_blocks
         /\ \A j \in 1 .. disk.file[i].no_of_blocks : DiskLoads(i)[j] = NextLoaded(DiskLoads(i), i, j)
<1> DEFINE n == disk.file[i].no_of_blocks
<1> DEFINE f == CHOOSE g : g = [j \in 1 .. n |-> NextLoaded(g, i, j)]
<1>1. f = [j \in 1 .. n |-> NextLoaded(f, i, j)]
  BY LoadsDefined
<1>2. DiskLoads(i) = f
  BY DEF DiskLoads, Loads, NextLoaded
<1> HIDE DEF f
<1>3. DOMAIN f = 1 .. n /\ \A j \in 1 .. n : f[j] = NextLoaded(f, i, j)
  BY <1>1
<1> QED BY <1>2, <1>3

----------------------------------------------------------------------------
(* The first restart, when no access to the disk has failed. *)

(* The blocks on the disk, labelled as those in memory were: of each file a  *)
(* start of what was written, and in the blocks its record counts all that   *)
(* calls of write returned for.                                              *)
FoundStart(l, i) ==
  /\ disk.file[i].no_of_blocks >= 1
  /\ disk.file[i].address \in Addresses
  /\ l.own[disk.file[i].address] = i
  /\ l.pos[disk.file[i].address] = 1
  /\ l.pre[disk.file[i].address] = <<>>

FoundBlock(l, i, b) ==
  /\ Starts(Chars, l.pre[b] \o disk.data[b].content, written[i])
  /\ disk.data[b].full => /\ l.own[disk.data[b].next] = i
                          /\ l.pos[disk.data[b].next] = l.pos[b] + 1
                          /\ l.pre[disk.data[b].next] = l.pre[b] \o disk.data[b].content
  /\ ~disk.data[b].full => disk.file[i].no_of_blocks <= l.pos[b]
  /\ disk.file[i].no_of_blocks <= l.pos[b] =>
       acked[i] <= Len(l.pre[b] \o disk.data[b].content)

Found(l) ==
  \A i \in Fds :
    /\ acked[i] > 0 => disk.file[i].active
    /\ disk.file[i].active => /\ FoundStart(l, i)
                              /\ \A b \in Addresses : l.own[b] = i => FoundBlock(l, i, b)

DiskInOrder == Forward(disk.data) /\ \E l \in Labels : Found(l)

RestartInv ==
  crashes = 1 /\ failures = 0 /\ op.at \in {"setup", "load"} =>
    DiskInOrder /\ \A b \in Addresses : data[b] = NoData

LEMMA LoadsInChain ==
  ASSUME TypeOK, Forward(disk.data), NEW l \in Labels, Found(l), NEW i \in Fds, disk.file[i].active
  PROVE  \A j \in 1 .. disk.file[i].no_of_blocks :
           DiskLoads(i)[j] \in Addresses /\ l.own[DiskLoads(i)[j]] = i /\ l.pos[DiskLoads(i)[j]] = j
<1> DEFINE n == disk.file[i].no_of_blocks
<1> DEFINE at == DiskLoads(i)
<1> DEFINE Good(j) == at[j] \in Addresses /\ l.own[at[j]] = i /\ l.pos[at[j]] = j
<1> DEFINE T == {k \in Nat : k + 1 <= n => Good(k + 1)}
<1>1. n \in Nat
  BY DEF TypeOK, File
<1>2. \A j \in 1 .. n : at[j] = NextLoaded(at, i, j)
  BY <1>1, LoadsFacts
<1>3. FoundStart(l, i) /\ \A b \in Addresses : l.own[b] = i => FoundBlock(l, i, b)
  BY DEF Found
<1> HIDE DEF at
<1>4. 0 \in T
  <2>1. 1 <= n => at[1] = disk.file[i].address
    BY <1>1, <1>2 DEF NextLoaded
  <2> QED BY <1>3, <2>1 DEF FoundStart
<1>5. ASSUME NEW k \in Nat, k \in T PROVE k + 1 \in T
  <2> SUFFICES ASSUME (k + 1) + 1 <= n PROVE Good((k + 1) + 1)
    OBVIOUS
  <2> DEFINE b == at[k + 1]
  <2>1. Good(k + 1) /\ k + 1 \in 1 .. n /\ (k + 1) + 1 \in 1 .. n /\ (k + 1) + 1 # 1
    BY <1>1, <1>5
  <2>2. at[(k + 1) + 1] = disk.data[b].next
    <3>1. ((k + 1) + 1) - 1 = k + 1
      OBVIOUS
    <3> QED BY <1>2, <2>1, <3>1 DEF NextLoaded
  <2>3. FoundBlock(l, i, b)
    BY <1>3, <2>1
  <2>4. disk.data[b].full
    <3>1. ~(n <= k + 1)
      BY <1>1
    <3>2. l.pos[b] = k + 1
      BY <2>1
    <3>3. ~disk.data[b].full => n <= l.pos[b]
      BY <2>3, Zenon DEF FoundBlock
    <3> QED BY <3>1, <3>2, <3>3
  <2>5. disk.data[b].next \in Addresses
    BY <2>1, <2>4 DEF Forward
  <2>6. l.own[disk.data[b].next] = i /\ l.pos[disk.data[b].next] = l.pos[b] + 1
    BY <2>3, <2>4, Zenon DEF FoundBlock
  <2> HIDE DEF b
  <2>7. l.pos[b] = k + 1
    BY <2>1 DEF b
  <2> QED BY <2>2, <2>5, <2>6, <2>7
<1> HIDE DEF T
<1>6. \A k \in Nat : k \in T
  BY <1>4, <1>5, Induction
<1>7. ASSUME NEW j \in 1 .. n PROVE Good(j)
  <2>1. j - 1 \in Nat /\ (j - 1) + 1 = j /\ j <= n
    BY <1>1
  <2>2. j - 1 \in T
    BY <1>6, <2>1
  <2> QED BY <2>1, <2>2 DEF T
<1> QED BY <1>7 DEF at

(* file_disk_load finds the chain of each file and leaves what comes behind  *)
(* the blocks the record counts.                                             *)
LEMMA LoadFinds ==
  ASSUME TypeOK, DiskInOrder, \A b \in Addresses : data[b] = NoData, Load, failures' = 0,
         NEW i \in Fds, disk.file[i].active
  PROVE  /\ Range(DiskLoads(i)) \subseteq Addresses
         /\ Starts(Chars, ContentOf(data', disk.file[i].address), written[i])
         /\ acked[i] <= Len(ContentOf(data', disk.file[i].address))
<1> DEFINE n == disk.file[i].no_of_blocks
<1> DEFINE at == DiskLoads(i)
<1>1. /\ \A k \in Fds : disk.file[k].no_of_blocks \in Nat
      /\ disk.data \in [Addresses -> Data] /\ data \in [Addresses -> Data]
      /\ Forward(disk.data)
  BY DEF TypeOK, File, DiskInOrder
<1>2. PICK l \in Labels : Found(l)
  BY DEF DiskInOrder
<1>3. \A j \in 1 .. n : at[j] \in Addresses /\ l.own[at[j]] = i /\ l.pos[at[j]] = j
  BY <1>1, <1>2, LoadsInChain
<1>4. DOMAIN at = 1 .. n /\ \A j \in 1 .. n : at[j] = NextLoaded(at, i, j)
  BY <1>1, LoadsFacts
<1>5. Range(at) \subseteq Addresses
  BY <1>3, <1>4 DEF Range
<1>6. PICK d \in [Addresses -> Data] :
        /\ d = data'
        /\ \A b \in Addresses : d[b] = IF b \in AllLoaded THEN disk.data[b] ELSE NoData
  <2>1. data' = [b \in Addresses |-> IF b \in AllLoaded THEN disk.data[b] ELSE data[b]]
    BY FullLoad, TypesSame
  <2>2. data' \in [Addresses -> Data]
    BY <1>1, <2>1
  <2> QED BY <2>1, <2>2
<1>7. Forward(d)
  BY <1>1, <1>6, IdleTyped DEF Forward
<1>8. \A j \in 1 .. n : at[j] \in AllLoaded
  <2>1. \A j \in 1 .. n : at[j] \in Range(DiskLoads(i))
    BY <1>4 DEF Range
  <2> QED BY <2>1 DEF AllLoaded, Loaded, DiskLoads
<1>9. ASSUME NEW c \in AllLoaded, l.own[c] = i PROVE l.pos[c] <= n
  <2>1. PICK k \in Fds : disk.file[k].active /\ c \in Range(DiskLoads(k))
    BY DEF AllLoaded, Loaded, DiskLoads
  <2>2. PICK j \in 1 .. disk.file[k].no_of_blocks : c = DiskLoads(k)[j]
    BY <1>1, <2>1, LoadsFacts DEF Range
  <2>3. l.own[c] = k /\ l.pos[c] = j
    BY <1>1, <1>2, <2>1, <2>2, LoadsInChain
  <2> QED BY <1>1, <1>9, <2>2, <2>3
<1>10. FoundStart(l, i) /\ \A b \in Addresses : l.own[b] = i => FoundBlock(l, i, b)
  BY <1>2 DEF Found
<1>11. \A b \in Addresses : l.pre[b] \in Seq(Chars) /\ disk.data[b].content \in Seq(Chars)
  BY <1>1 DEF Labels, Data
<1> DEFINE Whole(b) == /\ Starts(Chars, l.pre[b] \o ContentOf(d, b), written[i])
                       /\ acked[i] <= Len(l.pre[b] \o ContentOf(d, b))
<1> DEFINE T == {b \in Addresses : \A j \in 1 .. n : at[j] = b => Whole(b)}
<1> HIDE DEF at
<1>12. ASSUME NEW b \in Addresses, \A c \in Addresses : c > b => c \in T PROVE b \in T
  <2> SUFFICES ASSUME NEW j \in 1 .. n, at[j] = b PROVE Whole(b)
    OBVIOUS
  <2>1. d[b] = disk.data[b] /\ l.own[b] = i /\ l.pos[b] = j
    BY <1>3, <1>6, <1>8
  <2>2. FoundBlock(l, i, b)
    BY <1>10, <2>1
  <2>3. CASE ~disk.data[b].full
    <3>1. ContentOf(d, b) = disk.data[b].content
      BY <1>7, <2>1, <2>3, ContentFacts
    <3> QED BY <2>2, <2>3, <3>1 DEF FoundBlock
  <2>4. CASE disk.data[b].full
    <3> DEFINE c == disk.data[b].next
    <3>1. /\ c \in Addresses /\ c > b
          /\ l.own[c] = i /\ l.pos[c] = j + 1 /\ l.pre[c] = l.pre[b] \o disk.data[b].content
      <4>1. c \in Addresses /\ b < c /\ b \in Nat /\ c \in Nat
        BY <1>1, <2>4, ConstantTypes DEF Forward
      <4>2. l.own[c] = i /\ l.pos[c] = l.pos[b] + 1 /\ l.pre[c] = l.pre[b] \o disk.data[b].content
        BY <2>2, <2>4, Zenon DEF FoundBlock
      <4> QED BY <2>1, <4>1, <4>2
    <3>2. ContentOf(d, b) = disk.data[b].content \o ContentOf(d, c)
          /\ ContentOf(d, c) \in Seq(Chars)
      <4>1. d[b].full /\ d[b].next = c /\ d[b].content = disk.data[b].content
        BY <2>1, <2>4
      <4>2. ContentOf(d, b) = d[b].content \o ContentOf(d, d[b].next)
        BY <1>7, <4>1, ContentFacts, Zenon
      <4>3. ContentOf(d, c) \in Seq(Chars)
        BY <1>7, <3>1, ContentFacts, Zenon
      <4> QED BY <4>1, <4>2, <4>3, Zenon
    <3>3. CASE j = n
      <4>1. c \notin AllLoaded
        <5>1. ~(j + 1 <= n)
          BY <1>1, <3>3
        <5> QED BY <1>9, <3>1, <5>1
      <4>2. d[c] = NoData
        BY <1>6, <3>1, <4>1
      <4>3. ContentOf(d, c) = <<>>
        <5>1. ~d[c].full /\ d[c].content = <<>>
          BY <4>2 DEF NoData
        <5> QED BY <1>7, <3>1, <5>1, ContentFacts, Zenon
      <4>4. ContentOf(d, b) = disk.data[b].content
        BY <1>11, <3>2, <4>3, ConcatEmptySeq
      <4>5. n <= l.pos[b]
        BY <1>1, <2>1, <3>3
      <4> QED BY <2>2, <4>4, <4>5, Zenon DEF FoundBlock
    <3>4. CASE j # n
      <4>1. j + 1 \in 1 .. n /\ j + 1 # 1 /\ (j + 1) - 1 = j
        BY <1>1, <3>4
      <4>2. at[j + 1] = c
        BY <1>4, <4>1 DEF NextLoaded
      <4>3. Whole(c)
        BY <1>12, <3>1, <4>1, <4>2
      <4>4. l.pre[c] \o ContentOf(d, c) = l.pre[b] \o ContentOf(d, b)
        <5>1. (l.pre[b] \o disk.data[b].content) \o ContentOf(d, c)
                = l.pre[b] \o (disk.data[b].content \o ContentOf(d, c))
          <6> DEFINE p == l.pre[b]
          <6> DEFINE m == disk.data[b].content
          <6> DEFINE r == ContentOf(d, c)
          <6>1. p \in Seq(Chars) /\ m \in Seq(Chars) /\ r \in Seq(Chars)
            BY <1>11, <3>2
          <6> HIDE DEF p, m, r
          <6>2. (p \o m) \o r = p \o (m \o r)
            BY <6>1, Joined
          <6> QED BY <6>2 DEF p, m, r
        <5> QED BY <3>1, <3>2, <5>1, Zenon
      <4> QED BY <4>3, <4>4
    <3> QED BY <3>3, <3>4
  <2> QED BY <2>3, <2>4
<1> HIDE DEF T
<1>13. \A b \in Addresses : b \in T
  BY <1>12, DownFromTheLast
<1> DEFINE a == disk.file[i].address
<1>14. Whole(a)
  <2>1. 1 \in 1 .. n
    BY <1>1, <1>10 DEF FoundStart
  <2>2. at[1] = a
    BY <1>4, <2>1 DEF NextLoaded
  <2> QED BY <1>10, <1>13, <2>1, <2>2 DEF T, FoundStart
<1>15. l.pre[a] \o ContentOf(d, a) = ContentOf(d, a)
  <2>1. l.pre[a] = <<>> /\ ContentOf(d, a) \in Seq(Chars)
    BY <1>7, <1>10, ContentFacts DEF FoundStart
  <2> QED BY <2>1, ConcatEmptySeq
<1> QED BY <1>5, <1>6, <1>14, <1>15 DEF at

(* In memory too every block ends a start of what its file was given. *)
LEMMA BlockStarts ==
  ASSUME TypeOK, BlocksInv, NEW l \in Labels, LabelsOK(l.own, l.pos, l.pre),
         NEW i \in Fds, file[i].active, NEW b \in Addresses, l.own[b] = i
  PROVE  Starts(Chars, l.pre[b] \o data[b].content, written[i])
<1>1. data \in [Addresses -> Data] /\ Forward(data) /\ Pending(i) \in Seq(Chars)
  BY EmptySeq DEF BlocksInv, TypeOK, Op, Pending
<1>2. data[b].content \in Seq(Chars) /\ l.pre[b] \in Seq(Chars)
  BY <1>1 DEF Data, Labels
<1>3. (l.pre[b] \o ContentOf(data, b)) \o Pending(i) = written[i]
  BY ContentFollows
<1> DEFINE c == data[b].next
<1> DEFINE more == IF data[b].full THEN ContentOf(data, c) ELSE <<>>
<1>4. more \in Seq(Chars) /\ ContentOf(data, b) = data[b].content \o more
  <2>1. CASE data[b].full
    <3>1. c \in Addresses
      BY <1>1, <2>1 DEF Forward
    <3> QED BY <1>1, <2>1, <3>1, ContentFacts
  <2>2. CASE ~data[b].full
    BY <1>1, <1>2, <2>2, ContentFacts, EmptySeq, ConcatEmptySeq
  <2> QED BY <2>1, <2>2
<1> DEFINE pm == l.pre[b] \o data[b].content
<1> HIDE DEF more
<1>5. pm \in Seq(Chars) /\ l.pre[b] \o ContentOf(data, b) = pm \o more
  <2>1. pm \o more = l.pre[b] \o (data[b].content \o more) /\ pm \in Seq(Chars)
    BY <1>2, <1>4, Joined, Zenon
  <2> QED BY <1>4, <2>1, Zenon
<1> HIDE DEF pm
<1>6. (pm \o more) \o Pending(i) = pm \o (more \o Pending(i)) /\ more \o Pending(i) \in Seq(Chars)
  <2>1. more \in Seq(Chars) /\ Pending(i) \in Seq(Chars) /\ pm \in Seq(Chars)
    BY <1>1, <1>4, <1>5, Zenon
  <2> QED BY <2>1, Joined, Zenon
<1>7. written[i] = pm \o (more \o Pending(i))
  BY <1>3, <1>5, <1>6, Zenon
<1>8. Starts(Chars, pm, written[i])
  BY <1>5, <1>6, <1>7, Zenon DEF Starts
<1> QED BY <1>8 DEF pm

(* Wherever the machine stops, the disk is in order. *)
LEMMA AlwaysInOrder ==
  ASSUME IInv, NamesInv, ContentInv, SavedInv, crashes = 0, failures = 0
  PROVE  DiskInOrder
<1>1. BlocksInv /\ ChainInv /\ TypeOK /\ RecordsSaved
      /\ (\A i \in Fds : RecordOK(i)) /\ (\A b \in Addresses : BlockSaved(b))
  BY DEF IInv, NamesInv, ContentInv, SavedInv
<1>2. PICK l \in Labels : LabelsOK(l.own, l.pos, l.pre)
  BY <1>1 DEF ChainInv
<1>3. /\ file \in [Fds -> File] /\ data \in [Addresses -> Data] /\ acked \in [Fds -> Nat]
      /\ op.fd \in Fds /\ \A i \in Fds : file[i].no_of_blocks \in Nat
  BY <1>1 DEF TypeOK, Op, File
<1>4. /\ \A i \in Fds : disk.file[i].active <=> file[i].active
      /\ \A i \in Fds : file[i].active => disk.file[i] = file[i]
  BY <1>1 DEF RecordsSaved, IInv, Fresh
<1>link. op.at = "link" =>
           /\ op.cur \in Addresses /\ data[op.cur].next \in Addresses
           /\ data[op.cur].full /\ ~disk.data[op.cur].full
           /\ Starts(Chars, disk.data[op.cur].content, data[op.cur].content)
           /\ acked[op.fd] <= Len(l.pre[op.cur] \o disk.data[op.cur].content)
           /\ l.own[data[op.cur].next] = op.fd /\ ~data[data[op.cur].next].full
           /\ file[op.fd].active
  BY <1>1, <1>2 DEF LabelsOK, NotYetSaved, IInv, OpOK, LastOne, BlocksInv, Writing
<1>5. \A b \in Addresses : disk.data[b].full => disk.data[b] = data[b]
  BY <1>1, <1>link DEF BlockSaved
<1>6. Forward(disk.data)
  BY <1>1, <1>5 DEF BlocksInv, Forward
<1>7. ASSUME NEW i \in Fds PROVE acked[i] > 0 => disk.file[i].active
  BY <1>1, <1>3, <1>4 DEF RecordOK
<1>8. ASSUME NEW i \in Fds, disk.file[i].active PROVE FoundStart(l, i)
  BY <1>1, <1>2, <1>4, <1>8 DEF RecordOK, LabelsOK, StartOK, FoundStart
<1>9. ASSUME NEW i \in Fds, disk.file[i].active, NEW b \in Addresses, l.own[b] = i
      PROVE  FoundBlock(l, i, b)
  <2>1. /\ disk.file[i] = file[i] /\ file[i].active
        /\ l.pos[b] \in Nat /\ Uncounted(i) \in {0, 1} /\ file[i].no_of_blocks \in Nat
    BY <1>3, <1>4, <1>9 DEF Labels, Uncounted
  <2>2. /\ data[b].full => LinkOK(l.own, l.pos, l.pre, i, b)
        /\ ~data[b].full => EndOK(l.pos, l.pre, i, b)
        /\ AckedOK(l.pos, l.pre, i, b)
    BY <1>2, <1>9, <2>1 DEF LabelsOK, Of
  <2>3. Starts(Chars, l.pre[b] \o data[b].content, written[i])
    BY <1>1, <1>2, <1>9, <2>1, BlockStarts
  <2>4. CASE disk.data[b] = data[b]
    <3>1. ~data[b].full => file[i].no_of_blocks <= l.pos[b]
      <4>1. ~data[b].full => l.pos[b] = file[i].no_of_blocks + Uncounted(i)
        BY <2>2 DEF EndOK
      <4> QED BY <2>1, <4>1
    <3> QED BY <2>1, <2>2, <2>3, <2>4, <3>1 DEF FoundBlock, LinkOK, AckedOK
  <2>5. CASE disk.data[b] # data[b]
    <3>1. op.at = "link" /\ op.cur = b
      BY <1>1, <2>5 DEF BlockSaved
    <3> DEFINE c == data[b].next
    <3>2. CASE data[b].full
      <4>1. /\ l.own[c] = i /\ l.pos[c] = l.pos[b] + 1 /\ c \in Addresses
            /\ i = op.fd /\ ~data[c].full
        BY <1>link, <2>2, <3>1, <3>2 DEF LinkOK
      <4>2. EndOK(l.pos, l.pre, i, c) /\ Uncounted(i) = 1
        BY <1>2, <2>1, <3>1, <4>1 DEF LabelsOK, Of, Uncounted
      <4>3. file[i].no_of_blocks <= l.pos[b]
        <5>1. l.pos[b] + 1 = file[i].no_of_blocks + 1
          <6>1. l.pos[c] = file[i].no_of_blocks + Uncounted(i)
            BY <4>2, Zenon DEF EndOK
          <6> QED BY <4>1, <4>2, <6>1
        <5> QED BY <2>1, <5>1
      <4>4. Starts(Chars, l.pre[b] \o disk.data[b].content, written[i])
        BY <1>2, <1>link, <2>3, <3>1, StartsWithin DEF Labels
      <4> QED BY <1>link, <2>1, <3>1, <4>1, <4>3, <4>4 DEF FoundBlock
    <3>3. CASE ~data[b].full
      BY <1>link, <3>1, <3>3
    <3> QED BY <3>2, <3>3
  <2> QED BY <2>4, <2>5
<1> QED BY <1>2, <1>6, <1>7, <1>8, <1>9 DEF DiskInOrder, Found

LEMMA RestartStep ==
  IInv /\ NamesInv /\ ContentInv /\ SavedInv /\ RestartInv /\ [Next]_vars => RestartInv'
<1> SUFFICES ASSUME IInv, NamesInv, ContentInv, SavedInv, RestartInv, [Next]_vars,
                    crashes' = 1, failures' = 0, op'.at \in {"setup", "load"}
             PROVE  DiskInOrder' /\ \A b \in Addresses : data'[b] = NoData
  BY DEF RestartInv
<1>types. TypeOK /\ crashes \in Nat
  BY ConstantTypes DEF IInv, TypeOK
<1>kept. ASSUME UNCHANGED <<written, acked>>, disk'.file = disk.file, disk'.data = disk.data, DiskInOrder
         PROVE  DiskInOrder'
  <2>1. Forward(disk'.data)
    BY <1>kept DEF DiskInOrder
  <2>2. PICK l \in Labels : Found(l)
    BY <1>kept DEF DiskInOrder
  <2>3. \A i \in Fds : FoundStart(l, i)' <=> FoundStart(l, i)
    BY <1>kept DEF FoundStart
  <2>4. \A i \in Fds, b \in Addresses : FoundBlock(l, i, b)' <=> FoundBlock(l, i, b)
    BY <1>kept DEF FoundBlock
  <2>5. Found(l)'
    BY <1>kept, <2>2, <2>3, <2>4 DEF Found
  <2> QED BY <2>1, <2>5 DEF DiskInOrder, Labels
<1>1. CASE Crash
  <2>1. /\ UNCHANGED <<disk, written, acked>> /\ crashes = 0 /\ failures = 0
        /\ data' = [a \in Addresses |-> NoData]
    BY <1>1, <1>types DEF Crash
  <2> QED BY <1>kept, <2>1, AlwaysInOrder
<1>2. CASE Setup
  <2>1. disk' = disk_of(FirstBlock, disk.file, disk.data) /\ failures = 0
    BY <1>2, <1>types, DiskWritten DEF Setup, WrHeader
  <2> QED BY <1>2, <1>kept, <2>1 DEF Setup, disk_of, RestartInv
<1>3. CASE UNCHANGED vars
  BY <1>3, <1>kept DEF vars, RestartInv
<1>4. ASSUME \/ Load \/ OpenRecord \/ WriteShort \/ WriteFull \/ WriteLink \/ WriteCount
             \/ \E name \in Names : Open(name)
             \/ \E i \in Fds : Close(i)
             \/ \E i \in Fds, text \in Texts : Write(i, text)
      PROVE  op'.at \notin {"setup", "load"}
  BY <1>4, IdleTyped DEF Load, Open, OpenRecord, Close, Write, WriteShort, WriteFull, WriteLink,
     WriteCount, Returned, Moved
<1> QED BY <1>1, <1>2, <1>3, <1>4 DEF Next

(* The first restart, wherever the machine stopped, finds every file that    *)
(* was written to with all that calls of write returned for and nothing that *)
(* was not written, if none failed; and load_data stays inside data[].   *)
THEOREM FilesSurviveRestart == Spec => RestartKeepsFiles
<1>1. Init => RestartInv
  BY DEF Init, RestartInv
<1>2. Spec => []RestartInv
  BY <1>1, RestartStep, ContentForever, NamesForever, Invariant, PTL DEF Spec
<1> DEFINE Kept ==
      Load /\ crashes = 1 /\ failures' = 0 =>
        \A i \in Fds :
          /\ acked[i] > 0 => file'[i].active
          /\ file'[i].active =>
               LET content == ContentOf(data', file'[i].address)
               IN  /\ Range(Loads(disk.file[i], disk.data)) \subseteq Addresses
                   /\ IsPrefix(content, written[i])
                   /\ Len(content) >= acked[i]
<1>3. IInv /\ RestartInv /\ [Next]_vars => [Kept]_vars
  <2> SUFFICES ASSUME IInv, RestartInv, Load, crashes = 1, failures' = 0, NEW i \in Fds
               PROVE  /\ acked[i] > 0 => file'[i].active
                      /\ file'[i].active =>
                           /\ Range(DiskLoads(i)) \subseteq Addresses
                           /\ IsPrefix(ContentOf(data', file'[i].address), written[i])
                           /\ Len(ContentOf(data', file'[i].address)) >= acked[i]
    BY DEF DiskLoads
  <2>1. file' = disk.file /\ op.at = "load" /\ failures = 0
    BY FullLoad, TypesSame DEF Load, IInv
  <2>2. TypeOK /\ DiskInOrder /\ \A b \in Addresses : data[b] = NoData
    BY <2>1 DEF IInv, RestartInv
  <2>3. acked[i] > 0 => file'[i].active
    BY <2>1, <2>2 DEF DiskInOrder, Found
  <2>4. ASSUME file'[i].active
        PROVE  /\ Range(DiskLoads(i)) \subseteq Addresses
               /\ IsPrefix(ContentOf(data', file'[i].address), written[i])
               /\ Len(ContentOf(data', file'[i].address)) >= acked[i]
    <3> DEFINE content == ContentOf(data', disk.file[i].address)
    <3>1. /\ Range(DiskLoads(i)) \subseteq Addresses
          /\ Starts(Chars, content, written[i])
          /\ acked[i] <= Len(content)
      BY <2>1, <2>2, <2>4, LoadFinds
    <3>2. acked[i] \in Nat /\ Len(content) \in Nat
      BY <2>2, <3>1 DEF TypeOK, Starts
    <3> HIDE DEF content
    <3>3. IsPrefix(content, written[i]) /\ Len(content) >= acked[i]
      BY <3>1, <3>2, StartsIsPrefix
    <3> QED BY <2>1, <3>1, <3>3 DEF content
  <2> QED BY <2>3, <2>4
<1> QED BY <1>2, <1>3, Invariant, PTL DEF Spec, RestartKeepsFiles

=============================================================================
