# CrackOS3: TLA+ models, checks and proofs

CrackOS3 is a small x86-64 kernel in C++. This directory holds TLA+ modules
translated from its source, the TLC configurations that check them on small
instances, and proofs that TLAPS checks for every value of the constants. Paths
below are relative to the repository (`src/src/high/...` is the kernel,
`src/include/...` its headers).

## 1. Inventory

The boot processor starts the memory system, ACPI, the interrupt controllers, the
other processors (which then idle), PCI with its SATA disks, the file systems on
them, and `/main`. System calls enter through one handler behind one global
spinlock. `scheduler.cpp` is empty, so today's kernel has one thread of execution;
what runs beside it is hardware (timer, disk controllers, links, interrupts) and,
during the start, the other processors.

| Component | State | Operations | What is hard | What makes it correct |
|---|---|---|---|---|
| Process tree, `process/process.cpp` | `children` (shared), `parent`, `friends`, `pending_adoption`, `adopter` (weak); `next_pid` | disown, adopt, make_friend, create_child, list_processes | long orders of calls of several processes; references that outlive their object; hand-over between owners | one owner for each live process; both sides of an adoption agree; an adopted process outlives the disown |
| Messages, `process.cpp` 250-330, 483-653 | argument window, `method_call_argument_memory`, `working_in` | send_message, ask_abilities, memory of create_child | rounding to pages in three places, one of them wrong; three loops over one buffer | every byte of an argument is mapped; arguments lie inside the window; an answer fits |
| Pointers, `features/smart_pointer.h` | a block with two counts | copy, move, reset, lock, delete | destructors that run inside destructors, and come round in circles of owners; reset twice | exact counts; an object goes with its last owner and not before |
| Page frames, `memory/mem.cpp` | bitmap over the RAM areas, cursor | `init`, `alloc(n)`, `free` | numbering, wrap, runs, the loop's end | exact bitmap, only RAM, alloc ends and fails only when full |
| Heap, `memory/heap.cpp` | page tables with full bits; free lists and bitmaps; a tree of areas | `malloc`, `free` of three allocators | three records of the same facts; frames given back | blocks are disjoint and mapped, no frame is free and in use |
| Page tables, `memory/paging.cpp` | levels of tables | `map`, `unmap`, `get` | the present bit, rights of every level | a page keeps its translation while it is mapped |
| B-tree, `data/btree.h` | nodes | insert, remove, find, iterate | split, shift, merge, replace | a sorted set of keys, balanced |
| Local APIC timer, `ACPI/APIC.cpp` | counter, `ticks_needed`, `prev_init` | `notify`, `sleep`, `onLocalTimer` | interrupt against caller, chunked waits | one callback each, never early, sleep ends |
| Core start, MADT, I/O APIC, `ACPI/APIC.cpp` | tables, redirection entries, handler table, trampoline words, `ap_response` | `MADT::init`, `initIOAPIC`, calibration, `initLocalAPIC`, `ap_cpu` | a hand-shake through shared words with messages that may be lost | each processor starts on a stack of its own; each handler is heard |
| SATA port, `PCI/sata.cpp` | PxCI, PxSERR, `scheduled_slots` | `sendRead`, `sendWrite`, `wait_for`, `wait_all`, the order of commands in `read`, `write` | the controller finishes commands in any order while the driver reads and writes the same register; errors on the link | while the link is sound no DMA after the return and slots come back; data has come |
| Block device, `PCI/sata.cpp` 30-290, 600-670 | sectors, descriptors, pages | `read`, `write` of byte ranges | ends of sectors and pages, short buffers, a failing command | exactly the bytes of the range |
| PCI, SATA and xHCI start, `PCI/*.cpp` | device list, uncached window, BARs, ports, devices | `check_all` ... `check_function`, `getBAR`, `Sata::init`, `Port::init`, xHCI's constructor | hardware that answers when it likes or never; vectors and windows handed out but not reserved | every function once, every disk pushed, no window shared, vectors handled |
| Devices, GPT, ext4, `file/` | device list, mounted file systems, open file | `find_partitions`, `getPartition`, `open`, `read` | every read may be refused or fail; buffers reused | healthy file systems are mounted, open and read return what the path names |
| Dispatch stubs, boot loader tables, spinlock, scheduler, output | - | - | - | - |

`PROJECT.json` lists the same components with their status, and under `hazards`
each place of the code that is hard to test, with the properties that watch it.

## 2. Modules

| Module | Models | Used by |
|---|---|---|
| `Process` | the process tree and its system calls | `MCProcess`, `Process_proofs` |
| `Messages` | send_message, ask_abilities, the memory of create_child | `MCMessages`, `Messages_proofs` |
| `Ownership` | what shared pointers promise (abstract) | `Pointers` |
| `Pointers` | shared_ptr and weak_ptr | `MCPointers`, `Pointers_proofs` |
| `PhysicalAllocator` | the frame allocator over any memory map | `MCPhysicalAllocator`, `PhysicalAllocator_proofs` |
| `AddressSpace` | what page tables promise (abstract) | `Heap` |
| `PageTables` | map, unmap, get and the frames that tables take | `Heap` |
| `Heap` | kmalloc and kfree over `PageTables` | `MCHeap`, `Heap_proofs` |
| `BTree` | the b-tree | `MCBTree` |
| `LapicTimer` | the boot processor's timer and the interrupt vectors | `MCLapicTimer`, `LapicTimer_proofs` |
| `SataPort` | command slots of an AHCI port and the operations over them | `MCSataPort`, `Storage_proofs` |
| `SataDevice` | which bytes read and write move | `MCSataDevice`, `Storage_proofs` |
| `FileSystem` | partitions, mounting, open and read | `MCFileSystem`, `Storage_proofs` |
| `CoreStart` | MADT, I/O APICs, calibration, start of the processors | `PciSetup` |
| `PciSetup` | enumeration, BARs, SATA and xHCI set-up | `Boot` |
| `Boot` | the two together, with fairness and the properties of the start | `MCBoot`, `Boot_proofs` |

An `MC` module gives names to the values a `.cfg` cannot write; a `_proofs` module
holds the theorems. A definition marked "Mutant" is a plausible programming error:
put in the place of the definition that follows it, it must break the property it
is paired with in `PROJECT.json`.

A model stops where the code has gone wrong beyond what one can follow: memory
freed in use, two users of one frame, a null pointer, a panic. A variable says so
(`kernel`, `fault`, `spoiled`, `corrupt`), and the properties speak of what comes
before. Each such place is described below.

### Process

`children`, `friends`, `pending`, `parent`, `adopter` are the members of
`process`; `live` is the set of processes whose object exists. Each system call is
one action because the whole handler runs under the global spinlock: `Disown` in
its four forms, `Adopt`, `MakeFriend`, `CreateChild`, `ListProcesses`, with the
look-up, `cleanup_dead`, the hand-over to an adopter (`HandOver`) and the recursive
destruction of a subtree (`Kill`) inside them. A refused call changes nothing.

A weak `reset()` gives its count back and keeps its pointer: `stale` and
`miscounted` remember that. A look-up by number makes a second control block for a
raw pointer, which ends `"corrupt"`; its search keeps no set of visited processes,
so in a circle of links it ends `"diverged"`. A disown that passes a dead friend
faults (`DisownFaults`). `Threads` says which processes run: the run lets every
process but the root run, which is what the documentation of `create_child`
promises and more than today's empty scheduler does.

### Messages

One thread makes system calls, and the one process it can reach is the kernel
process with its four methods. A call is modelled step by step (`SendToParent`,
`Place` for one argument, `Call`, `Return`), because it may stop half-way when an
argument is refused. `areas`, `keys` and `window` are the three records of placed
arguments: the area tree, `area_keys`, and the page tables' entries. The entries in
`window` stay after the call, as the code unmaps nothing. An empty string has the size
0 (525) and nothing of it is mapped. `LastEnd` is where the search for a free place
begins: the mask that should round the end of an area up (543) keeps the bytes behind
the last whole page and drops the page, so behind an area the search would begin below
the window. It never does, because each message takes its areas back and no method of
the kernel has two strings; `PlacedInWindow` says so. `AskParent` follows the
three loops that write into the caller's buffer; below the size of the records the
loop over names writes outside of it, so `AnswerFits` starts at that size.
`CreateChild` follows the clearing of memory whose size was already rounded up:
one frame more than the child's may be overwritten, and no more
(`ClearsOneTooMany`; a child of one full page in the run overwrites it).

### Pointers and Ownership

A pointer is a cell outside every object or a member of one. An operation is a stack of
small steps (`todo`): a reset, the delete with the resets of the members, the look at
the block that follows it. So the counts are checked in the middle of nested
destructors. Objects may own each other and themselves, as `adopt` can make processes
do. A circle that nobody else owns stays. When one of its own pointers is reset the
destructors come round to that pointer, whose reset is waiting: the second reset finds
no count left and panics, or finds the block freed. The model stops there. `ResetByName`
is `weak_ptr::reset` as `process.cpp:158, 221` use it: the pointer stays and is counted
out twice. `Ownership` is the abstract promise (an object lives while it is owned, and
nobody comes to own a dead one); `KeepsPromise` is the refinement, with `Temporary` for
the pointer a creation or a lock holds before it is assigned.

### PhysicalAllocator

`MemoryMap` and `Reserved` are constants; the numbering of pages and the reserved
bits are computed from them as `init` does. `AllocCall`, `AllocSkip` and
`AllocTake` are the entry of `alloc` and one turn of its loop: `cursor` is
`last_checked_memory_bitmap_index`, `call.stop` is `stop_infinite_loop`. Where
`init` puts the bitmap itself is a member of `Reserved`.

### PageTables, Heap and AddressSpace

`PageTables` has tables of any depth and fan-out in frames taken from a frame
allocator with the cursor order of `PhysicalAllocator` (`NextFrame`). `Heap` is
`page_allocator` (a search through the tables with their full bits: `Turn` is
`malloc_traverse` one level down, `Marked` its way back, `FreePage` the clearing of
entries), `small_allocator` (pages with a bitmap and, for each size, a list of pages
with room: `Push`, `Drop`, `SlotOf`, `WasFull`) and `large_allocator` (runs of mapped
pages with a tree of areas: `LargeSpot`, `MapRun`, `UnmapRun`). A call is one step;
what recurses in the code is a function over the levels, the nodes or the pages.

Three faults of the code are in the model. `free_traverse` clears an entry before it
reads the frame from it, so frame 0 is given back in the place of the page's own,
which leaks. A new table is not cleared: when its frame was used before (`dirty`)
the model stops at `"corrupt"`. And the walk over the large areas multiplies a size
in bytes by the page size (`LastEnd`, `heap.cpp:501`): an area of n pages keeps 4096 n pages
of the window to itself, and after it the walk may be behind areas that it has not
passed. Their distance, which has no sign, then is large, and a run is put where it is
free or not; a page that is mapped already is mapped over, as in the code (`MapNext`),
and two callers hold one block. It takes a third area: with pages of 4 bytes TLC ends
`BlocksApart` after malloc 8, malloc 20, free of the first, malloc 12, malloc 8, where
the last block lies inside the one of 20 bytes. `Spaced` is the state in which the walk does
right: whenever there is room for one more area, each is at least as many pages in front of
the next as it has bytes. `Space` maps the tables to `AddressSpace`, a partial function from
pages to frames; `TranslationsStable` is the refinement.

### BTree

Nodes are records of keys and children; `SplitChild`, the shifts, the merges, and
the replacement by the predecessor follow the code. Three steps are wrong there:
`split_child` writes the middle key over another one when the child is not the
last (193); after a split `insert_non_full` compares the new key with the one in front
of the median (162) and may enter the half in which `find` does not look; and a thin last
child is "merged" by merging two others (294). The model takes all three, notes
`spoiled`, and stops; `KeepsKeys` and `Shape` show that nothing else loses a key or
unbalances the tree.

### LapicTimer

`Notify` and `Sleep` accept a request, `Arm` loads the first chunk, `Tick` is the
count-down, `Deliver` the dispatcher with the handler it calls, `Wake` the end of
the spinning in `sleep`, `Toggle` other code that changes the interrupt flag.
`DeviceSetup` is `Sata::init` taking a vector. The calibration is a constant here
and steps of `CoreStart` there.

### SataPort and SataDevice

In `SataPort` the registers PxCI (`issued`) and PxSERR (`serr`) belong to the
controller as much as to the driver: `Execute` and `LinkError` are the
controller's steps, and each access of the driver is a step of its own, `ReadCI`
and `WriteCI` for the one statement of `issue_slot` in particular. An operation
sends commands for up to three regions, a long write after it has sent two reads
(`Merge`), and waits for what `request` holds. An error on
the link may come at any time; then a wait fails without a look at PxCI (498) and the
operation returns with its commands under way. The one thread always finds
`Port::lock` free, so the lock is left out.

`SataDevice` is the same `read` and `write` seen from their bytes: which of four
paths a range takes, the bounce buffers of partial sectors, and
`setup_physical_region`, which joins pages that follow each other. A byte is named
by where it comes from, so a wrong one shows wherever it ends. One command of a
call may be refused or lost. Inside a buffer the code counts in words, so an odd part of
a first sector lets the middle and the tail begin one byte early; a wait that fails is
told in place of a refusal (`ToldMany`). A long write that is not aligned writes over its stack:
`corrupt`.

### FileSystem

`ReadMbr` to `ReadEntry` are `find_partitions` on each drive, `ReadSuper` and
`ReadGroups` mounting, `Open`, `GetInode` and `ReadDirectory` the search of a path,
`ReadFile` and `Close` an open file. Every read of the drive has an outcome: good,
refused, or failed with a size that looks like success. `slot`, `page` and `buffer`
hold what an earlier read left, because the code does not look at every result.
`stage` is the next read, or what the start has come to. The reference of each
property is computed by recursion from the disk alone: `GoodPlaces` over a drive's
entries, `Way` over the names of a path, `Filled` over the extents of a range.

### CoreStart, PciSetup and Boot

`CoreStart` has one action for each stage of the boot processor (`bsp`), and
`FetchStack` and `Respond` for the processor that starts. The start-up message may
be lost once; the second is sent when no answer has come after a wait that may be
shorter than any step of the other processor. `PciSetup` walks the calls of the
enumeration in the code's order (`calls`), then sets up one device of the list
after the other (`at`, `unit`, `port`). Each wait of the driver is a stage: the give-away
of a controller, its reset, the stop and the start of a port, and the identify command,
which is issued in slot 0 and waited for without a time-out. The hardware moves by itself:
`Answer`, `IdentifyFails` and `LinkUp`. It does not answer for a drive that never finishes
its identify command, and the start hangs there (`Hung`). A port's run of four frames is
taken from a number of frames; when they are too few, the allocator fails, which panics, or
searches on for ever (`"diverged"`), as in `PhysicalAllocator`. An xHCI controller
behind I/O ports faults. `Boot` composes both in one next-state relation.

## 3. Runs

| Run | Instance | Shows |
|---|---|---|
| `process` | 4 pids (root, `/main`, two more), 2 friend entries | one owner each; both sides of an adoption agree; an adopted process outlives its owner's disown |
| `messages` | pages of 2 bytes, a source of 3 pages, the 4 methods, buffers around every boundary, 3 frames for children | arguments that are not empty arrive with their final 0; each lies in the window, message after message; answers stay in the buffer; what a child's clearing overwrites |
| `pointers` | 2 objects with two members each, 2 shared and 1 weak pointer outside, any ownership between them, 1 reset by name | exact counts inside nested destructors, in circles too; blocks outlive their pointers; the refinement of `Ownership`; an unowned object goes |
| `frames` | a PC-like map, 15 units of RAM in 7 pages, one ending inside a page; single pages and pairs | exact bitmap, only RAM, failure only when full, every call for one page ends |
| `heap` | pages of 4 bytes, 3 levels of 4 entries, 10 frames, requests of 1, 2, 4 and 8 bytes | blocks apart and mapped; no frame free and in use; lists exact; the refinement of `AddressSpace` |
| `btree` | nodes of 1 to 3 keys, keys 1 to 12, three levels | until one of the three faults of section 2: exactly the keys, found and in order; balanced |
| `timer` | a counter of 8 values, chunks of 3 ticks, requests of 0, 1, 4 and 10 ticks, 3 vectors | one callback each, never early, sleep ends |
| `sata_read` | 4 slots, a queueing disk, reads, link errors | a read that returns the size has all its data; while the link is sound nothing is under way after the return and all slots are back |
| `sata_single` | 3 slots, a disk that does not queue, every operation, link errors | one command at a time; every operation returns |
| `ranges` | 4 sectors of 4 bytes, pages of 6, three mappings of the buffer, every range, one failing command | read and write move exactly the bytes of the range |
| `files` | no drive or two of 6 kinds, a tree of 7 inodes, 9 paths, up to 2 failing reads | healthy file systems are mounted; open and read return what the path names |
| `boot` | 7 MADTs, 10 PCI machines, 9 vectors, one lost message, one failed identify, a drive that never finishes it | own stacks, list and drives exact, vectors handled, windows kept, the start reaches its end or hangs in one identify command |

### Bounds

- `MaxPid`, `MaxFriendships`: four processes are enough for a chain of owner, child
  and adopter below the root; two friend entries let a friendship be one-sided,
  mutual, a self reference, or stand behind another. The theorems have neither bound.
- `frames`: two units to a page let an area end inside one; seven pages let the
  cursor wrap. `AllocEnds` and `OnlyRam` are stated for single pages (section 5).
- `heap`: three levels are enough for a table with a table above and below it; each
  window has an entry of the top. A page has 4 bytes because a large area keeps a page
  of its window for each of its bytes (section 2): blocks of one and of two bytes, two
  and one of them to a page beside the bitmap, and runs of two pages, of which two fit.
  `NodeSlots = 1` (511) makes lists grow and shrink; ten frames run out in every
  allocator; `MaxTreeAreas` keeps the area tree one node. With its two areas no
  overlap can come about, which takes a third (section 2): the run is `Spaced`
  throughout. The theorems have no bound on the areas, and take `[]Spaced` as a premise.
- `btree`: `M = 2` is the smallest node; twelve keys reach three levels.
- `pointers`: two objects make circles through their members and destructors that
  delete each other.
- `messages`: strings of every length and offset in three pages, so that a string ends
  before, on, and behind each page's end; children of half a page, of a page, and of a
  page at an odd offset.
- `timer`: the constants keep the order of the real 2^32, 2^31 - 1 and 2^64, and
  the durations take none, one, two and four chunks.
- `SlotCount`: one more than the commands of a read; few enough that slots run out.
- `ranges`: four sectors have room for a head, two middles and a tail; pages that
  are no multiple of a sector move the pages' ends through it.
- `files`: directories of two blocks, of two extents, a deleted entry, a path
  through a file, a file without and with two extents, inodes with a deep tree and
  with no extents.
- `boot`: processors switched off or listed out of order, overrides in both directions,
  too many pins; bridges behind bridges, a bridge where software does not look (function
  1 of a device of one function), two groups, host bridges of one and many functions,
  every kind of BAR and of drive, one that never finishes an identify command and one
  that does beside it, an xHCI behind I/O ports, too few frames, a port too many. Two
  functions for a device and two devices for a bus are enough for each branch of
  `check_device`.

Deadlock is checked but for the runs in which the system stops or the model ends with a
call: `btree` (spoiled), `boot` (done, panic or fault), `files` (panic, or nothing to
open), `messages` (a method that halts), `pointers` (fault), `ranges` (one call).

### Fairness

`alloc`, the operations of a port and the small steps of a pointer are not preempted, so
they run on. The counter counts and a raised timer vector is delivered while interrupts
are enabled. The SATA controller executes each issued command: a disk that never answers
would hang the driver, which has no timeout. In `boot` each processor runs on, the PIT
ticks, and a controller answers a request. A drive need not: `Answering` leaves out the
identify command of a mute drive and of an ATAPI drive that is taken for a disk, and
`BootEnds` names the hang as the one other end of the start. Links need not come up, and
`Sound` excludes firmware that never gives its controller away, ports behind the first
page, and too few frames or vectors. Nothing is assumed of callers.

## 4. Proofs

| Theorem | Assumes | Argument |
|---|---|---|
| `TypeCorrect` | `ProcessAssumption` | one step for each system call; look-ups answer pids |
| `TreeCorrect`: `SoleOwner`, `OwnerIsParentOrAdopter` | `ProcessAssumption` | inductive together with `TypeOK`: a hand-over is right only because the heir's link is the adopter's, and a kill removes a whole subtree, so that no survivor is owned by the dead |
| `AdoptionHolds`: `AdoptedSurvives` | `ProcessAssumption` | the step is read off `TreeCorrect`'s invariant: what waits has a live adopter outside the subtree that dies, so the hand-over takes place before the kill |
| `AdoptionsAgree`: `PendingMatchesAdopter` | `ProcessAssumption` | with "a waiting list names only pids that were given out, and only the living have one", so that a new process stands in none |
| `WindowKeptTo`: `PlacedInWindow` | `MessagesAssumption` (one string to a method) | a message under way is the only one; `keys` names each of its areas, so the cleanup finds them all however the message ends, and the next search meets none |
| `StringsArrive`: `ArgumentsReach` | the same | the areas are the pages of the string among the arguments placed so far; rounding its start and end to pages loses no byte. Empty strings are left out |
| `CreationClears`: `ClearsOneTooMany` | the same, no child of 0 bytes | the size that is rounded up twice is at most one page more |
| `AnswersFit`: `AnswerFits` | the same | the write positions of the three loops are sums of the sizes before them; induction over the sums puts each record and each name below the next and the last below the buffer's end |
| `PointersCounted`: `CountsExact` | `PointersAssumption` | `IInv` = `Frame` (the nested steps open and close cells in order, a pointer's reset waits for one delete only, and nobody owns the object that it waits for) and `Books` (each count is the number of cells that point there plus what the steps still owe, and a block goes with its last count). `Frame` is needed because a delete in the middle of another changes counts that the outer one has already read. In a circle the step that comes back to a waiting pointer finds a count of 0 by `Frame`, so it cannot go on; `Orderly` is stated up to it |
| `BlocksStay`: `BlockOutlivesPointers` | the same | from `Books` |
| `PromiseKept`: `KeepsPromise` | the same | the refinement of `Ownership` under `View`: a step that moves pointers is `Change`, the look at the block after a delete is `Die`, a new object is `Make`, and every other small step stutters |
| `HeapSound` | `PageTablesAssumption`, `HeapAssumption`, `[]Spaced` | the inductive invariant `IInv` of `Heap`, below |
| `HeapFramesUnused`: `FreeFramesUnused` | the same | from `Sound`: each table and frame that a walk meets is one the allocator has counted |
| `HeapBlocksApart`: `BlocksApart` | the same | from `HeapOK`: blocks of one page are slots of its bucket, others lie in pages of which each has one owner; `HeapAssumption` keeps the slots off the bitmap |
| `HeapListsExact`: `ListsExact` | the same | from `Lists`: the places of a list that hold a page are one or none |
| `HeapTranslationsStable`: `TranslationsStable` | the same | a step either maps pages or unmaps them, and a page that stays mapped keeps its frame (`Stable`, proved with each action) |
| `FramesTypeCorrect` | `AllocatorAssumption` | cursor and bits stay below `Size` |
| `FramesExact`: `BitmapExact`, `NoSharedFrame` | `AllocatorAssumption` | the bits a call takes were all free (`TakenWereFree`), so the union stays disjoint; exactness alone is not inductive |
| `FramesFail`: `FailsOnlyWhenFull` | `AllocatorAssumption` | every page between the stop mark and the cursor has been seen busy (`Walk`); back at the mark that is every page |
| `FramesAreRam`: `OnlyRam` | `AllocatorAssumption`, `EndsReserved` | number and page correspond: an area's pages are numbered from the sum of the whole pages before it, by induction over the areas; a page of a single call has a number that was free, and only the number behind an area's whole pages can name a page that is not all RAM |
| `TimerCorrect`: `OneCallback`, `DeviceHeard`, types | `TimerAssumption`, `SeveralCores` | while chunks run, what was waited and what is needed add up to the request, and the vector is raised exactly when the chunk is over; with nothing needed nothing counts; no controller has the timer's vector |
| `TimerNeverEarly` | the same | from the same invariant and the division in `Ticks` |
| `PortTypeCorrect` | `PortAssumption` | types, with "a command being issued has a slot" |
| `PortQuiet`: `NoDmaAfterReturn`, `SlotsReturned` | `PortAssumption`, no long writes | every slot that is issued, marked, or about to be written back to PxCI is one the operation will still wait for, and no command replaces a slot that was not waited for. The link may fail at any time: the error register is never cleared, so the invariant need hold only as long as it is clear, and so the two properties are stated |
| `PortSerial`: `OneAtATime` | `PortAssumption` | from the wait for all slots to the write of PxCI nothing is issued, so what is written back is the new command alone |
| `PortDelivers`: `ReadDelivers` | `PortAssumption` | the slot a region's request names carries that region's command until it is finished; a slot that `issue_slot` issues a second time carries the same one |
| `RangesRead`: `ReadExact` | `DeviceAssumption` | the descriptor table describes exactly the buffer: after each piece it describes what went before and that piece (`Covers`, `CoversNext`), by induction over the pieces; a piece that is joined begins where the region ends, because both it and the piece before are cut at pages. Then each path moves the parts of the range in order (`Fetched`): the parts of a long read meet where they should (`LaidThree`), and an odd buffer gets a copy of its own |
| `RangesWritten`: `WriteExact` | the same | the sectors of a partial write are written back as they were read but for the range (`Written`); a refused or lost one leaves the disk or writes the same bytes |
| `DrivesScanned`: `ScanExact` | `DriveAssumption` and its two fellows, below | `Scanned`: of the drives that no fault touched, those before the one the scan is at hold what they should, those behind hold nothing, and the one it is at holds the places of the entries it has passed. `Placed` says what the buffers hold: the entry on the stack is the one at hand only if its read was done, which is why the property speaks of drives without a fault |
| `FileOpened`: `OpenExact` | the same | `Walked`: k names are behind and led to the inode at hand (`Behind`), and the blocks of the directory that were searched have no entry for the next (`Searched`). A block comes from the one extent that covers it (`PlainPage`), where `InOrder` and `Plain` are needed; as names are unique, the first entry found is the one `Way` chooses |
| `FileRead`: `FileExact` | the same | a read ends in `ReadRegion` of an inode's extents; the extent that holds the range gives all of it, and the others, which begin behind it, change nothing (`RegionRead`), by induction over the extents |
| `StacksOwned`, `BootStacksOwned`: `OwnStack` | `CoreAssumption` | `IInv`: while a processor is on its way up the word in the trampoline names the core the boot processor works on, and no other is on its way; the answer flag is clear until that one has set it, so the word is not changed before it was fetched. `BootStacksOwned` adds that PCI's steps leave these variables alone |
| `WindowOwned`: `WindowKept` | `CoreAssumption`, `PciAssumption` | `WInv`: all pages of the window lie below `nextPage`, so a new mapping is at a page that has none. It needs that each device of the list is one of the machine and that its BAR has a page |
| `VectorsOwned`: `MsiHandled` | the same | `VInv`: a vector given to a controller has the driver's handler; the next is searched among those without one. The timer's handler comes back at every sleep, so the timer's vector may be shared only on a machine where nobody has slept before, that is, where no other processor was started |
| `DevicesListed`: `ListExact` | the same | `ListInv`, on the calls that are left: no two of them, and none of them and a listed function, are on one line of the tree; each call leads to functions that software can find; and each visible function of a bus that was opened is listed or below a call that is left. At the end no call is left, so the opened buses are closed under bridges and contain every bus that is reached. This stands in for an induction over the tree of bridges |
| `DrivesFound`: `DrivesExact` | the same | `DriveInv`: a disk behind a port that was passed is a device or was late, each device lies behind such a port, and they are in order. That a controller is set up only once is `ListInv`'s |

The invariant of `Heap` has two halves. `Sound` is about the tables as far as walks see
them (`Walk(m, p, l)`: the table of page p at level l, its frame at 0): every walk ends
at a table, one frame is behind pages that lie together and at one level (`Separate`),
the allocator has counted them all, every entry on the way is writable, and a mapped
page of a searched window is marked full (`Noted`). `Separate` is what the others rest
on: to write one entry then changes only the walks through it. `HeapOK` ties the records
to the tables: the pages of the small allocator, of its lists' nodes, of areas, of the
tree's node and of single blocks are mapped and have one owner each (`Lists`,
`NodesApart`, `LargeOK`), and what callers hold is what the bitmaps, the areas and the
rest say (`BlocksAre`). The premise `Spaced` is used in one place, where the walk over
the areas chooses a run of pages that are not mapped. Each half alone is not inductive:
a page that is given back must be nobody else's for the records to stay mapped, and the
tables must be a tree for a new page to be nobody's. `Sound` holds for ever, `HeapOK`
while the kernel runs. The proof takes an action apart by the functions it is made of,
one lemma for a turn of each (`TurnAbove` and `MarkedFacts` for the walk down and up,
`PushFacts`, `KeptFacts`, `MapNextFacts`, `UnmapNextFacts`), and an induction over
numbers carries it through the whole function.

`PageTablesAssumption` asks for a top table and a frame 0 that is not it;
`HeapAssumption` for windows inside the table, a large window outside of the other two,
and buckets whose blocks and bitmap fit into a page with the byte that names the
bucket, as the numbers of `get_bitmap_element_count` do (`heap.cpp:399`).

`DeviceInv` of `SataDevice` is that the mapping is one of `Mappings`, that disk and
memory are as they were until the call, and the two properties. `DeviceAssumption`
asks for sectors and pages of an even size, as 16-bit words are moved; for
mappings that give each page a frame of its own, as the heap's do
(`HeapFramesUnused`); and for a table of at least two descriptors: with one, a read
of 4 bytes by whole sectors could be refused as fragmented, and the number of that
error, 4, be taken for the size. The code's table has 16 (`sata.h:152`).

The assumptions of `FileSystem` are about the disk, whose format is external:
tables, directories and paths are sequences (`DriveAssumption`, `InodeAssumption`), an
inode's extents follow each other in the file (`InOrder`), a directory has all its
blocks and no name twice (`DirectoryAssumption`). Nothing is assumed of damaged
drives: a boot sector, a header, a partition type and a superblock may each be
wrong, and any read may be refused or fail.

`SeveralCores` separates the proved timer from the machine with one processor, on
which `get_free_interrupt_number` hands the timer's vector to the first disk
controller (section 5). `AllocatorAssumption` asks for a map whose RAM areas give
each number one page and back, of `Reserved` that lies on them, and for a bitmap
that is not empty. `EndsReserved` is about a RAM area that ends inside a page: the number
behind its whole pages is also that of the next area's first page (section 5), and
must be reserved. On a PC the kernel is there (`targets/linker.ld:24`); it is true of
the run's map, and the mutant that reserves less breaks `OnlyRam`. `Usual` and `Sound` are
premises of `BootEnds`; the theorems of the start hold without them. `Configured`
stands inside `ListExact` and `DrivesExact`: firmware has numbered the buses.

Only model-checked:

- liveness (`AllocEnds`, `SleepEnds`, `OperationEnds`, `UnownedGoes`, `BootEnds`),
  which is out of the prover's reach with `ENABLED`;
- `KeepsKeys` and `Shape` of `BTree`, whose operators recurse over trees.

The library's induction theorems take an operator as a parameter, which the provers
here cannot instantiate. Induction over a set of numbers needs none
(`SetInduction`), and is enough for sums over memory areas and records, for the
functions of `Heap` over levels, nodes and pages, for the descriptor tables of
`SataDevice`, and for the mounts, paths and extents of `FileSystem`.

## 5. Where the code does other than it says

The models follow the code in each of these; the properties are stated around
them.

- Process: a process may adopt its own parent, as the check at `process.cpp:244`
  looks at the target's ancestors; adopting by number deletes the target
  (775, 787, against `syscall_data.h:15`); `MakeFriend` puts A in B's list where
  `syscall_data.h:17` says B in A's.
- Messages: `fixed_length` and `dynamic_length` arguments cannot be reached; raw
  pointers are passed untranslated; an empty string reaches its method unmapped
  (`process.cpp:525`); the end of an area is rounded with the wrong mask (543, harmless as
  long as no method has two strings); window mappings stay after the call.
- Pointers: an explicit weak reset keeps its pointer (`smart_pointer.h:249`); the
  delete of an object that refers to itself reads the freed block (151), and one in a circle
  of owners resets a pointer twice, which panics.
- Frames: `alloc(2)` may loop for ever, as the cursor steps over its stop mark
  (`mem.cpp:216`); a run over a gap in RAM is none of addresses (210); where a RAM
  area ends inside a page, that page shares its number with the first page of the
  next area, which is harmless while the number is reserved (`EndsReserved`).
- Heap: `heap.cpp:151` a table is not cleared; 221 frame 0 is freed in place of the
  page's; 512 the large allocator may wait for its own lock;
  501 bytes are taken for pages, though the comment at 486 says the tree holds pages,
  and a block may be put over another that is in use (section 2); 354 the comment says
  2048 where the size is 2047. Nothing invalidates the TLB. `get` ignores the
  present bit (`paging.cpp:147`).
- B-tree: lines 193, 162 and 294, above; the destructor frees the root alone.
- Timer: with one processor the first disk shares the timer's vector
  (`interrupt.cpp:170`), and a later sleep panics.
- SATA: after an error on the link `test_done` fails without a look at PxCI (`sata.cpp:498`),
  and read and write return (56, 119) while their commands go on into buffers on the stack
  that are gone; a long write returns while its reads are under way (`sata.cpp:262`), writes
  its end sectors back before they were read (255, against the comment at 239), and
  overruns its stack buffers; an aligned write writes one sector of many (154); an
  odd offset inside a sector loses its low bit (59); a range that ends with the disk
  asks for a sector behind it (50); an error code is returned as a size.
- Start: the MADT's enabled flags are not read, so a processor that is switched off
  hangs the start (`APIC.cpp:353`); a boot processor that is not listed first leaves
  the first one off (321); masks are set at the wrong pin of the second I/O APIC
  (491). A bridge without a bus number is walked without end (`PCI.cpp:49`); only one
  page of a BAR is mapped (498), so port 30 faults; a 64-bit BAR's size comes out too
  large; a reset of a port writes to another register, so each link is looked at
  once; a failed identify still gives a device, and one that is never finished hangs the
  start (`sata.cpp:510`).
- Files: an empty optional is dereferenced (`start.cpp:119`); the result of reading
  the group descriptors is ignored; a directory's buffer keeps the block before;
  extents behind the first block of a file are read from a wrong place (`ext4.cpp:292`).

## 6. Plan

1. Proofs: `KeepsKeys` of `BTree` one level at a time.
2. `Process` with `STRING` descriptors and `set_name`.
3. `PageTables` with the large pages of the identity window.
4. `FileSystem` with `get_directory_entries`.

## 7. Not modelled

The scheduler has no code. Interrupt stubs, the saved frames and dumps of exceptions,
and the assembler of the boot path are register work. The boot loader's and ACPI's
tables are read in one pass with one outcome; what later parts use of them is a
constant of their modules. The spinlock is never contended on this kernel. Screen,
printer, serial line and log are output. `setMetaData`, `getMetaData`,
`get_directory_entries`, `unique_ptr` and `swap` are called by nobody or share
nothing; links of the linked list are sequences wherever a component holds one.
