------------------------------- MODULE FileSystem -------------------------------
(***************************************************************************)
(* From the drives to a file: Main::initFiles (src/src/high/init/start.cpp) *)
(* looks for partition tables and ext4 file systems, and ext4.cpp opens and *)
(* reads files on those it found.                                          *)
(*                                                                         *)
(* What a structure holds stands for its bytes.  Every read of a drive is  *)
(* "done", "refused" - a command of the port was, which the caller is told *)
(* as a size (see SataDevice) - or "failed", an error; nobody but          *)
(* find_partitions and getPartition looks.  A read that is not done leaves *)
(* its buffer as it was: zero, or what the stack or the heap still held.   *)
(***************************************************************************)
EXTENDS Integers, FiniteSets, Sequences, Functions

CONSTANTS
  Machines,   \* the sequences of drives a machine may have
  Inodes,     \* number |-> inode, the same on every good file system
  Content,    \* block |-> the entries of the directory block it holds
  Paths,      \* the paths that are opened
  block_size,
  MaxFaults   \* reads that are refused or fail

RootInode == 2

IsList(s) == s \in Seq(Range(s))

\* A drive: a boot sector and a header with their signatures or without, the
\* entries of the table, and the superblock at each place that has one.
ASSUME DriveAssumption ==
  \A m \in Machines :
    /\ IsList(m)
    /\ \A d \in DOMAIN m :
         /\ m[d].mbr \in BOOLEAN /\ m[d].gpt \in BOOLEAN
         /\ IsList(m[d].entries)
         /\ \A j \in DOMAIN m[d].entries : m[d].entries[j].type \in {"empty", "other", "ext4"}
         /\ \A l \in DOMAIN m[d].super : m[d].super[l] \in {"good", "magic", "features"}

\* An inode maps blocks of the file to the disk by extents, in the order of ext4.
Extent == [block : Nat, len : Nat, start : Nat]
InOrder(extents) ==
  \A j, k \in DOMAIN extents : j < k => extents[j].block + extents[j].len <= extents[k].block

ASSUME InodeAssumption ==
  /\ block_size \in Nat \ {0} /\ MaxFaults \in Nat
  /\ DOMAIN Inodes \subseteq Nat \ {0} /\ RootInode \in DOMAIN Inodes
  /\ \A n \in DOMAIN Inodes :
       /\ Inodes[n].size \in Nat /\ Inodes[n].extents \in Seq(Extent)
       /\ InOrder(Inodes[n].extents)
  /\ \A p \in Paths : IsList(p)

\* Where ext4 puts block i of a file, and what a directory then holds.
Extents(n, i) == {e \in Range(n.extents) : i \in e.block..e.block + e.len - 1}
Entries(n) ==
  {x \in UNION {Range(Content[b]) : b \in DOMAIN Content} :
     \E i \in 0..n.size - 1 : \E e \in Extents(n, i) : x \in Range(Content[e.start + i - e.block])}

\* A directory block lists entries of inodes.  A directory has a block, as it
\* holds at least itself and its parent; and no name stands in it twice.
ASSUME DirectoryAssumption ==
  /\ \A b \in DOMAIN Content :
       IsList(Content[b]) /\ \A x \in Range(Content[b]) : x.inode \in DOMAIN Inodes \cup {0}
  /\ \A n \in DOMAIN Inodes : Inodes[n].mode = "directory" =>
       /\ Inodes[n].size > 0
       /\ Inodes[n].map = "flat" => \A i \in 0..Inodes[n].size - 1 :
            /\ Extents(Inodes[n], i) # {}
            /\ \A e \in Extents(Inodes[n], i) : e.start + i - e.block \in DOMAIN Content
       /\ \A x, y \in Entries(Inodes[n]) :
            x.name = y.name /\ x.inode # 0 /\ y.inode # 0 => x.inode = y.inode

VARIABLES
  drives,
  stage,     \* the next read, or what init has come to
  drive, entry,   \* i and j of initFiles
  sector,    \* find_partitions' buffer
  slot,      \* getPartition's buffer, on the stack
  mounted,   \* filesystems
  hurt,      \* the drives that a read was not done on
  faults,
  fs, path, rest, number, node,   \* open: of which file system what, and where it is
  block,     \* the block of the directory that is read next
  page,      \* the directory buffer, on the heap
  file,      \* what open returned
  buffer     \* what read put where

scan == <<drive, entry, sector, slot, mounted>>
walk == <<fs, path, rest, number, node, block, page, file, buffer>>
fileVars == <<drives, stage, scan, hurt, faults, walk>>

Outcomes == {"done", "refused", "failed"}

\* A read on a drive, with this outcome.
Reads(d, o) ==
  /\ o # "done" => faults < MaxFaults
  /\ faults' = IF o = "done" THEN faults ELSE faults + 1
  /\ hurt' = IF o = "done" THEN hurt ELSE hurt \cup {d}
  /\ UNCHANGED drives

-----------------------------------------------------------------------------
(* initFiles *)

NextDrive ==
  IF drive < Len(drives)
  THEN drive' = drive + 1 /\ entry' = 1 /\ stage' = "mbr"
  ELSE stage' = "ready" /\ UNCHANGED <<drive, entry>>

NextEntry ==
  IF entry < Len(drives[drive].entries)
  THEN entry' = entry + 1 /\ stage' = "entry" /\ UNCHANGED drive
  ELSE NextDrive

\* find_partitions: the buffer is zero before the first read, and holds the boot
\* sector before the second, so that a refusal is seen by the signature.
ReadMbr(o) ==
  /\ stage = "mbr"
  /\ Reads(drive, o)
  /\ sector' = IF o # "done" THEN "zero" ELSE IF drives[drive].mbr THEN "mbr" ELSE "other"
  /\ IF o # "failed" /\ sector' = "mbr"
     THEN stage' = "header" /\ UNCHANGED <<drive, entry>>
     ELSE NextDrive
  /\ UNCHANGED <<slot, mounted, walk>>

ReadHeader(o) ==
  /\ stage = "header"
  /\ Reads(drive, o)
  /\ sector' = IF o # "done" THEN sector ELSE IF drives[drive].gpt THEN "gpt" ELSE "other"
  /\ IF o # "failed" /\ sector' = "gpt" /\ drives[drive].entries # <<>>
     THEN stage' = "entry" /\ UNCHANGED <<drive, entry>>
     ELSE NextDrive
  /\ UNCHANGED <<slot, mounted, walk>>

\* getPartition reads to an uninitialised array that may still hold the entry
\* before.  Its empty result is used unseen.
Junk == [type |-> "other", lba |-> 0]

ReadEntry(o) ==
  /\ stage = "entry"
  /\ Reads(drive, o)
  /\ slot' \in IF o = "done" THEN {drives[drive].entries[entry]} ELSE {slot, Junk}
  /\ CASE o = "failed" -> stage' = "undefined" /\ UNCHANGED <<drive, entry>>
       [] o # "failed" /\ slot'.type = "ext4" -> stage' = "super" /\ UNCHANGED <<drive, entry>>
       [] o # "failed" /\ slot'.type # "ext4" -> NextEntry
  /\ UNCHANGED <<sector, mounted, walk>>

\* The superblock is read to memory that is not cleared; a superblock that was
\* freed there was refused before.
\* Mutant: the features are not compared.
GoodMagic(d, lba) == lba \in DOMAIN drives[d].super /\ drives[d].super[lba] # "magic"
GoodSuper(d, lba) == lba \in DOMAIN drives[d].super /\ drives[d].super[lba] = "good"

ReadSuper(o) ==
  /\ stage = "super"
  /\ Reads(drive, o)
  /\ IF o = "done" /\ GoodSuper(drive, slot.lba)
     THEN stage' = "groups" /\ UNCHANGED <<drive, entry>>
     ELSE NextEntry
  /\ UNCHANGED <<sector, slot, mounted, walk>>

\* A file system is valid whether or not its groups were read.
ReadGroups(o) ==
  /\ stage = "groups"
  /\ Reads(drive, o)
  /\ mounted' = Append(mounted, [drive |-> drive, lba |-> slot.lba, groups |-> o = "done"])
  /\ NextEntry
  /\ UNCHANGED <<sector, slot, walk>>

-----------------------------------------------------------------------------
(* ext4_filesystem::open *)

\* An inode that was not read is zero.
Blank == [mode |-> "none", map |-> "none", extents |-> <<>>, size |-> 0]
NoFile == [number |-> 0, node |-> Blank]

Open(m, p) ==
  /\ stage = "ready"
  /\ fs' = m /\ path' = p /\ rest' = p /\ number' = RootInode /\ stage' = "inode"
  /\ file' = NoFile /\ hurt' = {}
  /\ UNCHANGED <<drives, scan, faults, node, block, page, buffer>>

\* get_inode.  Groups that were not read lead anywhere.
GetInode(o) ==
  /\ stage = "inode"
  /\ Reads(mounted[fs].drive, o)
  /\ node' \in CASE o # "done" -> {Blank}
                 [] o = "done" /\ mounted[fs].groups -> {Inodes[number]}
                 [] o = "done" /\ ~mounted[fs].groups -> Range(Inodes) \cup {Blank}
  /\ CASE rest = <<>> ->
            stage' = "opened" /\ file' = [number |-> number, node |-> node'] /\ UNCHANGED block
       [] rest # <<>> /\ node'.mode = "directory" ->
            stage' = "directory" /\ block' = 0 /\ UNCHANGED file
       [] rest # <<>> /\ node'.mode # "directory" ->
            stage' = "opened" /\ file' = NoFile /\ UNCHANGED block
  /\ UNCHANGED <<scan, fs, path, rest, number, page, buffer>>

\* read_region: where the byte is read that is put at the start of the buffer
\* for the part of a range that lies in an extent.
\* Mutant: every part is read from the start of its extent.
ReadFromStart(extent, common) == extent.start * block_size
ReadFrom(extent, common) == extent.start * block_size + common

Overlap(extent, offset, size) ==
  LET from == extent.block * block_size
      to == from + extent.len * block_size
  IN [start |-> IF from > offset THEN from ELSE offset,
      end |-> IF to < offset + size THEN to ELSE offset + size]

\* The part of a range that lies in an extent goes to the start of the buffer.
Fill(buf, extent, offset, size) ==
  LET common == Overlap(extent, offset, size)
      n == common.end - common.start
  IN [i \in DOMAIN buf |-> IF i < n THEN ReadFrom(extent, common.start) + i ELSE buf[i]]

\* The buffer after each part of a read of a range, from what it held.
Filled(extents, old, offset, size) ==
  LET B[k \in 0..Len(extents)] ==
        IF k = 0 THEN old ELSE Fill(B[k - 1], extents[k], offset, size)
  IN B

ReadRegion(extents, old, offset, size) == Filled(extents, old, offset, size)[Len(extents)]

\* A buffer that no read has filled.
Stale == -1
Unread(size) == [i \in 0..size - 1 |-> Stale]

\* iterate_directory: what its buffer holds after the read of a block.  A new
\* buffer may still hold a block of a former one, or no list of entries at all.
NoPage == -1

PageRead(o) ==
  LET got == ReadRegion(node.extents, Unread(block_size), block * block_size, block_size)[0]
  IN CASE o = "done" /\ got # Stale ->
            {IF got \div block_size \in DOMAIN Content THEN got \div block_size ELSE NoPage}
       [] (o # "done" \/ got = Stale) /\ block = 0 -> {page, NoPage}
       [] (o # "done" \/ got = Stale) /\ block > 0 -> {page}

Matches(b) == {i \in DOMAIN Content[b] : Content[b][i].inode # 0 /\ Content[b][i].name = rest[1]}

\* Mutant: a directory is not looked at past its first block.
MoreBlocksNone == FALSE
MoreBlocks == block + 1 < node.size

ReadDirectory(o) ==
  /\ stage = "directory" /\ node.map = "flat" /\ block < node.size
  /\ Reads(mounted[fs].drive, o)
  /\ page' \in PageRead(o)
  /\ LET matches == Matches(page')
     IN CASE page' = NoPage ->
               stage' = "undefined" /\ UNCHANGED <<number, rest, block, file>>
          [] page' # NoPage /\ matches # {} ->
               /\ \E i \in matches :
                    (\A j \in matches : i <= j) /\ number' = Content[page'][i].inode
               /\ rest' = Tail(rest) /\ stage' = "inode" /\ UNCHANGED <<block, file>>
          [] page' # NoPage /\ matches = {} /\ MoreBlocks ->
               block' = block + 1 /\ UNCHANGED <<stage, number, rest, file>>
          [] page' # NoPage /\ matches = {} /\ ~MoreBlocks ->
               stage' = "opened" /\ file' = NoFile /\ UNCHANGED <<number, rest, block>>
  /\ UNCHANGED <<scan, fs, path, node, buffer>>

\* ext4_file::read of a file without an extent tree, or with a deep one, panics.
Panic ==
  /\ \/ stage = "directory" /\ node.map # "flat"
     \/ stage = "opened" /\ file # NoFile /\ file.node.map # "flat"
  /\ stage' = "halted"
  /\ UNCHANGED <<drives, scan, hurt, faults, walk>>

\* ext4_file::read: the extents of the range are read to the same place, and
\* share their outcome here.
ReadFile(offset, size, o) ==
  /\ stage = "opened" /\ file # NoFile /\ file.node.map = "flat"
  /\ Reads(mounted[fs].drive, o)
  /\ buffer' = [offset |-> offset,
                bytes |-> IF o = "done"
                          THEN ReadRegion(file.node.extents, Unread(size), offset, size)
                          ELSE Unread(size)]
  /\ stage' = "read"
  /\ UNCHANGED <<scan, fs, path, rest, number, node, block, page, file>>

\* The locals of open are gone.
Forget == path' = <<>> /\ rest' = <<>> /\ number' = 0 /\ node' = Blank /\ block' = 0

Close ==
  /\ stage \in {"opened", "read"}
  /\ stage' = "ready" /\ file' = NoFile /\ hurt' = {} /\ Forget
  /\ buffer' = [offset |-> 0, bytes |-> <<>>]
  /\ UNCHANGED <<drives, scan, faults, fs, page>>

-----------------------------------------------------------------------------

FileInit ==
  /\ drives \in Machines
  /\ stage = IF drives = <<>> THEN "ready" ELSE "mbr"
  /\ drive = 1 /\ entry = 1 /\ sector = "zero" /\ slot = Junk
  /\ mounted = <<>> /\ hurt = {} /\ faults = 0
  /\ fs = 0 /\ path = <<>> /\ rest = <<>> /\ number = 0 /\ node = Blank
  /\ block = 0 /\ page = NoPage /\ file = NoFile
  /\ buffer = [offset |-> 0, bytes |-> <<>>]

FileNext ==
  \/ \E o \in Outcomes :
       \/ ReadMbr(o) \/ ReadHeader(o) \/ ReadEntry(o) \/ ReadSuper(o) \/ ReadGroups(o)
       \/ GetInode(o) \/ ReadDirectory(o)
       \/ \E offset \in 0..2 * block_size, size \in 1..2 * block_size : ReadFile(offset, size, o)
  \/ \E m \in DOMAIN mounted, p \in Paths : Open(m, p)
  \/ Panic \/ Close

FileSpec == FileInit /\ [][FileNext]_fileVars

-----------------------------------------------------------------------------
(* Properties *)

\* The places of the good file systems among the first n entries of a drive, in
\* the order of its table, and those that a scan of the drive should find.
IsGood(d, e) ==
  e.type = "ext4" /\ e.lba \in DOMAIN drives[d].super /\ drives[d].super[e.lba] = "good"

GoodPlaces(d) ==
  LET entries == drives[d].entries
      P[n \in 0..Len(entries)] ==
        IF n = 0 THEN <<>>
        ELSE IF IsGood(d, entries[n]) THEN Append(P[n - 1], entries[n].lba) ELSE P[n - 1]
  IN P

Expected(d) ==
  IF drives[d].mbr /\ drives[d].gpt THEN GoodPlaces(d)[Len(drives[d].entries)] ELSE <<>>

\* The places of a drive among the first n mounted, in their order.
MountsOf(list, d) ==
  LET M[n \in 0..Len(list)] ==
        IF n = 0 THEN <<>>
        ELSE IF list[n].drive = d THEN Append(M[n - 1], list[n].lba) ELSE M[n - 1]
  IN M

Mounts(d) == MountsOf(mounted, d)[Len(mounted)]

\* When initFiles is done, every drive that was read without a fault has all its
\* good file systems mounted, in order and once, whatever happened on the drives
\* before it; and no fault mounts what has no good superblock.
ScanExact ==
  /\ \A i \in DOMAIN mounted :
       LET super == drives[mounted[i].drive].super
       IN mounted[i].lba \in DOMAIN super /\ super[mounted[i].lba] = "good"
  /\ stage = "ready" /\ fs = 0 =>
       \A d \in DOMAIN drives \ hurt :
         /\ Mounts(d) = Expected(d)
         /\ \A i \in DOMAIN mounted : mounted[i].drive = d => mounted[i].groups

\* The inode that a name leads to from inode n, or 0, and from the root the names
\* of a path.
Descend(n, name) ==
  LET found == IF n # 0 /\ Inodes[n].mode = "directory"
               THEN {e \in Entries(Inodes[n]) : e.name = name /\ e.inode # 0} ELSE {}
  IN IF found = {} THEN 0 ELSE (CHOOSE e \in found : TRUE).inode

Way(p) ==
  LET W[k \in 0..Len(p)] == IF k = 0 THEN RootInode ELSE Descend(W[k - 1], p[k])
  IN W

Resolve(p) == Way(p)[Len(p)]

\* Extents behind the first block of a file are read from a wrong place.
Plain(n) == \A e \in Range(n.extents) : e.block = 0

\* While no read fails, open finds the file that the path names and no other,
\* through directories of several blocks, as long as each lies in one extent.
OpenExact ==
  (stage = "opened" /\ hurt = {} /\ mounted[fs].groups
     /\ \A n \in Range(Way(path)) \ {0} : Inodes[n].mode = "directory" => Plain(Inodes[n]))
   => file.number = Resolve(path)

\* A read inside the first extent of a file returns the bytes of the range; no
\* byte comes from a block that is not the file's.
FileExact ==
  (stage = "read" /\ hurt = {}) =>
    \A e \in Range(file.node.extents) :
      LET end == buffer.offset + Cardinality(DOMAIN buffer.bytes)
      IN e.block = 0 /\ end <= e.len * block_size =>
           \A i \in DOMAIN buffer.bytes :
             buffer.bytes[i] = e.start * block_size + buffer.offset + i

=============================================================================
