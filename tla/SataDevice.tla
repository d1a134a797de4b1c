------------------------------- MODULE SataDevice -------------------------------
(***************************************************************************)
(* The byte ranges of sata_port_device (src/src/high/PCI/sata.cpp): which  *)
(* sectors read and write ask the port for, through which descriptors they *)
(* reach the caller's pages, and which bytes they copy.                    *)
(*                                                                         *)
(* A byte of the disk is named by its place, a byte of the memory by its   *)
(* physical place, so a wrong byte is seen wherever it ends.  Commands in  *)
(* flight and their slots are the subject of SataPort: here a command is   *)
(* done, is refused, or its wait fails and its bytes may come or not.      *)
(***************************************************************************)
EXTENDS Integers, Sequences

CONSTANTS
  sector_size,   \* bytes of a sector, even
  sector_count,
  page_size,
  TableSize,     \* physical_region_descriptor_table_entry_count
  MaxRegion,     \* 2^22 bytes in the code: what a descriptor can describe
  Pages,         \* pages of virtual memory the caller's buffer may lie in
  Mappings       \* page |-> frame, the ways the heap may have mapped them

ASSUME DeviceAssumption ==
  /\ sector_size \in Nat \ {0} /\ sector_size % 2 = 0
  /\ sector_count \in Nat \ {0} /\ page_size \in Nat \ {0} /\ page_size % 2 = 0
  /\ TableSize \in Nat \ 0..1 /\ MaxRegion \in Nat /\ Pages \in Nat \ {0}
  \* The heap gives every page a frame of its own.
  /\ \A m \in Mappings :
       /\ m \in [0..Pages - 1 -> Nat]
       /\ \A v, w \in 0..Pages - 1 : m[v] = m[w] => v = w

VARIABLES
  disk,      \* place |-> the byte there
  memory,    \* physical address |-> the byte there
  mapping,   \* the page tables of the caller's buffer
  call,      \* the last call, what it returned, and whether a command failed
  corrupt    \* it wrote over its own stack

deviceVars == <<disk, memory, mapping, call, corrupt>>

Bytes == sector_size * sector_count
Addresses == 0..Pages * page_size - 1

\* The names of bytes: of the disk as it was, of the memory as it was, and of
\* no known origin.
DiskByte(p) == [from |-> "disk", at |-> p]
MemoryByte(p) == [from |-> "memory", at |-> p]
Unknown == [from |-> "nowhere", at |-> 0]

Physical(a) == mapping[a \div page_size] * page_size + (a % page_size)

-----------------------------------------------------------------------------
(* What a command or a call answers *)

\* PCI::Sata::error_t, and Sent and Lost for a command that was issued.
SUCCESS == 0
OUT_OF_BOUNDS == 3
FRAGMENTED_MEMORY == 4
NO_RESOURCES == 7
UNKNOWN_ERROR == 8
Sent == -1
Lost == -2

\* Commands fail alone: at most one of a call, refused (no slot, or an error on
\* the link) or never heard of again.
Fates == {[k \in 1..5 |-> Sent]} \cup
  {[k \in 1..5 |-> IF k = j THEN code ELSE Sent] :
      j \in 1..5, code \in {Lost, NO_RESOURCES, UNKNOWN_ERROR}}

\* result<size_t, device::error_t>.  An error_t of the port is an unscoped
\* enumeration and becomes a size.
Value(n) == [error |-> "none", value |-> n]
Error(e) == [error |-> e, value |-> 0]

Sectors(size) == (size + sector_size - 1) \div sector_size

\* check_command_valid, then what the port makes of command k.
CommandAnswer(fate, k, lba, size) ==
  IF lba + Sectors(size) > sector_count THEN OUT_OF_BOUNDS
  ELSE IF Sectors(size) = 0 THEN SUCCESS
  ELSE fate[k]

\* The bytes a command reads.
Read(lba, size) == [i \in 1..size |-> disk[lba * sector_size + i - 1]]

-----------------------------------------------------------------------------
(* setup_physical_region *)

\* A buffer, cut where its pages end.
Pieces(at, size) ==
  LET first == at \div page_size
      last == (at + size - 1) \div page_size
      Start(p) == IF p = first THEN at ELSE p * page_size
      End(p) == IF p = last THEN at + size ELSE (p + 1) * page_size
  IN [i \in 1..last - first + 1 |->
        [base |-> Physical(Start(first + i - 1)),
         size |-> End(first + i - 1) - Start(first + i - 1)]]

\* byte_count holds one less than the bytes described.
Opens(piece) == [base |-> piece.base, byte_count |-> piece.size - 1]

\* Mutant: the pages need not follow each other.
JoinsAny(table, before, piece) ==
  table # <<>> /\ table[Len(table)].byte_count + page_size < MaxRegion
Joins(table, before, piece) ==
  /\ table # <<>>
  /\ before + page_size = piece.base
  /\ table[Len(table)].byte_count + page_size < MaxRegion

\* The table with piece i, joined to the last region or in a new one.
Adds(table, pieces, i) ==
  IF i > 1 /\ Joins(table, pieces[i - 1].base, pieces[i])
  THEN [table EXCEPT ![Len(table)].byte_count = @ + pieces[i].size]
  ELSE Append(table, Opens(pieces[i]))

Table(at, size) ==
  LET pieces == Pieces(at, size)
      T[i \in 0..Len(pieces)] == IF i = 0 THEN <<>> ELSE Adds(T[i - 1], pieces, i)
  IN T[Len(pieces)]

\* The physical addresses a region describes, and a table, in order.
Region(r) == [i \in 1..r.byte_count + 1 |-> r.base + i - 1]

Described(table) ==
  LET D[k \in 0..Len(table)] == IF k = 0 THEN <<>> ELSE D[k - 1] \o Region(table[k])
  IN D[Len(table)]

\* A command to the caller's memory.
DirectAnswer(fate, k, lba, at, size) ==
  LET answer == CommandAnswer(fate, k, lba, size)
  IN IF answer \in {Sent, Lost} /\ Len(Table(at, size)) > TableSize
     THEN FRAGMENTED_MEMORY ELSE answer

\* Memory with bytes put at physical addresses, as far as both go.
Put(mem, places, bytes) ==
  LET n == IF Len(places) < Len(bytes) THEN Len(places) ELSE Len(bytes)
  IN [p \in DOMAIN mem |->
        IF \E i \in 1..n : places[i] = p
        THEN bytes[CHOOSE i \in 1..n : places[i] = p /\ \A j \in i + 1..n : places[j] # p]
        ELSE mem[p]]

\* memcpy to the caller's buffer.
Copy(mem, at, bytes) == Put(mem, [i \in 1..Len(bytes) |-> Physical(at + i - 1)], bytes)

-----------------------------------------------------------------------------
(* read and write, on an even address *)

InOneSector(offset, size) == offset \div sector_size = (offset + size) \div sector_size
InTwoSectors(offset, size) == offset \div sector_size + 1 = (offset + size) \div sector_size
Aligned(offset, size) == offset % sector_size = 0 /\ size % sector_size = 0

\* Buffers are counted in words: a number of bytes inside one loses a low bit.
Words(n) == (n \div 2) * 2

SkipBytes(offset) == Words(offset % sector_size)

\* The sectors that the range is copied out of or into.
Around(offset, size) == IF InOneSector(offset, size) THEN sector_size ELSE 2 * sector_size

\* What a call returns whose only command answers so.
Told(answer, size) ==
  CASE answer = Sent -> Value(size)
    [] answer = Lost -> Error("DEVICE_UNAVAILABLE")
    [] OTHER -> Value(answer)

\* read: its results are pairs of what it returns and the memory after it.
ReadDirect(mem, fate, at, offset, size) ==
  LET lba == offset \div sector_size
      answer == DirectAnswer(fate, 1, lba, at, size)
      done == Put(mem, Described(Table(at, size)), Read(lba, size))
  IN {[ret |-> Told(answer, size), mem |-> m] :
        m \in CASE answer = Sent -> {done} [] answer = Lost -> {mem, done}
                [] OTHER -> {mem}}

ReadAround(mem, fate, at, offset, size) ==
  LET lba == offset \div sector_size
      answer == CommandAnswer(fate, 1, lba, Around(offset, size))
      bytes == SubSeq(Read(lba, Around(offset, size)), SkipBytes(offset) + 1, SkipBytes(offset) + size)
  IN {[ret |-> Told(answer, size), mem |-> IF answer = Sent THEN Copy(mem, at, bytes) ELSE mem]}

\* The sizes of the first sector's part, of the middle and of the last part.
HeadSize(offset) == sector_size - (offset % sector_size)
TailSize(offset, size) == (offset + size) % sector_size
MiddleSize(offset, size) == size - HeadSize(offset) - TailSize(offset, size)

\* Which of three commands are refused, and how the first of them is.
Refusals(answers) == {i \in 1..3 : answers[i] >= 0}
FirstRefusal(answers) ==
  answers[CHOOSE i \in Refusals(answers) : \A j \in Refusals(answers) : i <= j]

\* The commands that are issued: a refusal keeps the later ones from it.
Issued(answers) == {i \in 1..3 : \A j \in 1..i : answers[j] < 0}

\* What is issued is waited for in turn, up to the first wait that fails; such a
\* failure is returned in place of a refusal.
ToldMany(answers) ==
  Value(IF \E i \in Issued(answers) : answers[i] = Lost
        THEN UNKNOWN_ERROR ELSE FirstRefusal(answers))

\* Three commands, the middle one to the caller's memory behind the words of the
\* first sector's part: an odd part lets the middle and the tail begin early.
ReadMany(mem, fate, at, offset, size) ==
  LET lba == offset \div sector_size
      lastLba == (offset + size) \div sector_size
      middle == MiddleSize(offset, size)
      to == at + Words(HeadSize(offset))
      answers == <<CommandAnswer(fate, 1, lba, sector_size),
                   DirectAnswer(fate, 2, lba + 1, to, middle),
                   IF TailSize(offset, size) = 0 THEN Sent ELSE CommandAnswer(fate, 3, lastLba, sector_size)>>
      landed == Put(mem, Described(Table(to, middle)), Read(lba + 1, middle))
      head == SubSeq(Read(lba, sector_size), SkipBytes(offset) + 1, SkipBytes(offset) + HeadSize(offset))
      tail == IF TailSize(offset, size) = 0 THEN <<>>
              ELSE SubSeq(Read(lastLba, sector_size), 1, TailSize(offset, size))
      all == Copy(Copy(landed, at, head), to + middle, tail)
  IN IF \A i \in 1..3 : answers[i] = Sent
     THEN {[ret |-> Value(size), mem |-> all]}
     ELSE {[ret |-> ToldMany(answers), mem |-> m] :
             m \in (IF answers[1] = Sent /\ answers[2] = Sent THEN {} ELSE {mem})
                    \cup (IF 2 \in Issued(answers) THEN {landed} ELSE {})}

Beyond(offset, size) == offset + size > Bytes

\* The path that a call takes.
Path(offset, size) ==
  IF Beyond(offset, size) THEN "none"
  ELSE IF Aligned(offset, size) THEN "direct"
  ELSE IF InOneSector(offset, size) \/ InTwoSectors(offset, size) THEN "around"
  ELSE "many"

ReadEven(mem, fate, at, offset, size) ==
  CASE Path(offset, size) = "none" -> {[ret |-> Error("OUT_OF_BOUNDS"), mem |-> mem]}
    [] Path(offset, size) = "direct" -> ReadDirect(mem, fate, at, offset, size)
    [] Path(offset, size) = "around" -> ReadAround(mem, fate, at, offset, size)
    [] Path(offset, size) = "many" -> ReadMany(mem, fate, at, offset, size)

\* What write does to the disk, given the bytes of the buffer.  An aligned one
\* counts its bytes in sectors: the descriptors end before the first sector does.
WriteDirect(bytes, fate, at, offset, size) ==
  LET lba == offset \div sector_size
      given == size \div sector_size
      answer == DirectAnswer(fate, 1, lba, at, given)
      done == [p \in DOMAIN disk |->
                 LET i == p - offset
                 IN CASE i \in 0..given - 1 -> bytes[i + 1]
                      [] i \in given..Sectors(given) * sector_size - 1 -> Unknown
                      [] OTHER -> disk[p]]
  IN {[ret |-> Told(answer, size), disk |-> d, corrupt |-> FALSE] :
        d \in CASE answer = Sent -> {done} [] answer = Lost -> {disk, done}
                [] OTHER -> {disk}}

\* Read, change, write back.
\* Mutant: what is written back was not read.
KeptNone(p) == Unknown
Kept(p) == disk[p]

WriteAround(bytes, fate, offset, size) ==
  LET lba == offset \div sector_size
      fetched == CommandAnswer(fate, 1, lba, Around(offset, size))
      answer == CommandAnswer(fate, 2, lba, Around(offset, size))
      start == lba * sector_size
      done == [p \in DOMAIN disk |->
                 LET i == p - start - SkipBytes(offset)
                 IN CASE i \in 0..size - 1 -> bytes[i + 1]
                      [] i \notin 0..size - 1 /\ p \in start..start + Around(offset, size) - 1
                           -> Kept(p)
                      [] OTHER -> disk[p]]
  IN IF fetched # Sent
     THEN {[ret |-> Told(fetched, size), disk |-> disk, corrupt |-> FALSE]}
     ELSE {[ret |-> Told(answer, size), disk |-> d, corrupt |-> FALSE] :
             d \in CASE answer = Sent -> {done} [] answer = Lost -> {disk, done}
                     [] OTHER -> {disk}}

\* A longer write first reads both ends into buffers as long as their parts of
\* the range, and no part of a last sector is as long as the sector.
WriteMany(fate, offset, size) ==
  LET first == CommandAnswer(fate, 1, offset \div sector_size, sector_size)
      last == CommandAnswer(fate, 2, (offset + size) \div sector_size, sector_size)
      overrun == last < 0 \/ (first < 0 /\ HeadSize(offset) < sector_size)
  IN {[ret |-> Value(IF first >= 0 THEN first ELSE last), disk |-> disk, corrupt |-> overrun]}

WriteEven(bytes, fate, at, offset, size) ==
  CASE Path(offset, size) = "none" ->
         {[ret |-> Error("OUT_OF_BOUNDS"), disk |-> disk, corrupt |-> FALSE]}
    [] Path(offset, size) = "direct" -> WriteDirect(bytes, fate, at, offset, size)
    [] Path(offset, size) = "around" -> WriteAround(bytes, fate, offset, size)
    [] Path(offset, size) = "many" -> WriteMany(fate, offset, size)

-----------------------------------------------------------------------------
(* The calls *)

Buffer(mem, at, size) == [i \in 1..size |-> mem[Physical(at + i - 1)]]

Returned(op, at, offset, size, fate, ret) ==
  call' = [op |-> op, at |-> at, offset |-> offset, size |-> size,
           fault |-> fate # [k \in 1..5 |-> Sent], ret |-> ret]

\* On an odd address both use a buffer of their own, which a read copies back
\* unless it is told an error: it lies below the caller's in another memory.
Fresh == [p \in DOMAIN memory |-> Unknown]

CallRead(fate, at, offset, size) ==
  /\ IF at % 2 = 0
     THEN \E r \in ReadEven(memory, fate, at, offset, size) :
            memory' = r.mem /\ Returned("read", at, offset, size, fate, r.ret)
     ELSE \E r \in ReadEven(Fresh, fate, at - 1, offset, size) :
            /\ memory' = IF r.ret.error = "none"
                         THEN Copy(memory, at, Buffer(r.mem, at - 1, size)) ELSE memory
            /\ Returned("read", at, offset, size, fate, r.ret)
  /\ UNCHANGED <<disk, mapping, corrupt>>

CallWrite(fate, at, offset, size) ==
  /\ \E r \in WriteEven(Buffer(memory, at, size), fate, at - (at % 2), offset, size) :
       /\ disk' = r.disk /\ corrupt' = r.corrupt
       /\ Returned("write", at, offset, size, fate, r.ret)
  /\ UNCHANGED <<memory, mapping>>

DeviceInit ==
  /\ disk = [p \in 0..Bytes - 1 |-> DiskByte(p)]
  /\ mapping \in Mappings
  /\ memory = [p \in UNION {mapping[v] * page_size..(mapping[v] + 1) * page_size - 1 :
                              v \in 0..Pages - 1} |-> MemoryByte(p)]
  /\ call = [op |-> "none", at |-> 0, offset |-> 0, size |-> 0, fault |-> FALSE, ret |-> Value(0)]
  /\ corrupt = FALSE

\* One call: the next one finds nothing that this one left but other bytes.
DeviceNext ==
  /\ call.op = "none"
  /\ \E fate \in Fates, at \in 0..page_size, offset \in 0..Bytes :
       \E size \in 0..Pages * page_size - at :
         CallRead(fate, at, offset, size) \/ CallWrite(fate, at, offset, size)

DeviceSpec == DeviceInit /\ [][DeviceNext]_deviceVars

-----------------------------------------------------------------------------
(* Properties *)

InRange(i) == i \in 0..call.size - 1
Even == call.offset % 2 = 0

\* A read that returns its size has put exactly the bytes of the range in the
\* buffer and touched no other byte, whatever its path through one, two or many
\* sectors, its pages and the parity of its buffer.  An error of a command is
\* returned as a number up to UNKNOWN_ERROR and says nothing to a caller who
\* asked for as few bytes; with an odd offset what is copied is cut at words.
ReadExact ==
  (call.op = "read" /\ call.ret = Value(call.size) /\ Even
     /\ (~call.fault \/ call.size > UNKNOWN_ERROR)) =>
    \A v \in Addresses :
      memory[Physical(v)] = IF InRange(v - call.at)
                            THEN DiskByte(call.offset + v - call.at)
                            ELSE MemoryByte(Physical(v))

\* A write changes no byte outside its range, and one inside one or two sectors
\* that returns its size has put the whole buffer there.  The longer ones are
\* out: an aligned one writes a part, another one writes over the stack.
WriteExact ==
  (call.op = "write" /\ ~corrupt /\ Even) =>
    \A p \in DOMAIN disk :
      IF InRange(p - call.offset)
      THEN (~Aligned(call.offset, call.size) /\ call.ret = Value(call.size)
              /\ (~call.fault \/ call.size > UNKNOWN_ERROR))
             => disk[p] = MemoryByte(Physical(call.at + p - call.offset))
      ELSE disk[p] = DiskByte(p)

=============================================================================
