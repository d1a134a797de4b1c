-------------------------- MODULE PhysicalAllocator --------------------------
(***************************************************************************)
(* The allocator of physical page frames: src/src/high/memory/mem.cpp.     *)
(*                                                                         *)
(* The firmware's memory map is a list of areas.  The pages of its RAM     *)
(* areas are numbered through without the holes, and a bitmap has one bit  *)
(* for each number.  alloc walks the bitmap from where the last call       *)
(* stopped; one action here is one turn of its loop.  Addresses are        *)
(* counted in units of which PageSize make a page, so that an area may end *)
(* inside a page.                                                          *)
(***************************************************************************)
EXTENDS Integers, Sequences, FiniteSets

CONSTANTS
  PageSize,    \* units to a page
  MemoryMap,   \* areas in the firmware's order: [base, length, ram]
  Reserved,    \* what init() reserves: set of [start, size]
  MaxCount     \* bound: the largest number of pages one call asks for

None == -1     \* optional without a value

\* Numbers handed to the RAM areas in front of area i.
Before ==
  LET b[i \in 0..Len(MemoryMap)] ==
        IF i = 0 THEN 0
        ELSE b[i - 1] + IF MemoryMap[i].ram
                        THEN MemoryMap[i].length \div PageSize ELSE 0
  IN [i \in 1..Len(MemoryMap) |-> b[i - 1]]

TotalMemory ==
  LET t[i \in 0..Len(MemoryMap)] ==
        IF i = 0 THEN 0
        ELSE t[i - 1] + IF MemoryMap[i].ram THEN MemoryMap[i].length ELSE 0
  IN t[Len(MemoryMap)]

\* physical_memory_bitmap_size
Size == TotalMemory \div PageSize
Indices == 0..Size - 1

\* The first area that the look-up loops settle on.
IsFirst(i, Hit(_)) == Hit(i) /\ \A j \in 1..i - 1 : ~Hit(j)

\* memoryBitmapIndexToPhysical
FrameOf(k) ==
  LET Hit(i) == MemoryMap[i].ram /\ (k - Before[i]) * PageSize < MemoryMap[i].length
      At(i) == MemoryMap[i].base + (k - Before[i]) * PageSize
  IN IF \E i \in DOMAIN MemoryMap : Hit(i)
     THEN At(CHOOSE i \in DOMAIN MemoryMap : IsFirst(i, Hit)) ELSE None

\* physicalAddressPageToMemoryIndex
IndexOf(address) ==
  LET aligned == (address \div PageSize) * PageSize
      Hit(i) == /\ MemoryMap[i].ram /\ aligned >= MemoryMap[i].base
                /\ aligned - MemoryMap[i].base < MemoryMap[i].length
      At(i) == Before[i] + (aligned - MemoryMap[i].base) \div PageSize
  IN IF \E i \in DOMAIN MemoryMap : Hit(i)
     THEN At(CHOOSE i \in DOMAIN MemoryMap : IsFirst(i, Hit)) ELSE None

\* The bits reserveMemory sets or clears: those between the first page and
\* the page behind the last when both have one, else page by page.
Bits(start, size) ==
  LET end == ((start + size + PageSize - 1) \div PageSize) * PageSize
      steps == {start + n * PageSize : n \in 0..size}
  IN IF size = 0 THEN {}
     ELSE IF IndexOf(start) # None /\ IndexOf(end) # None
          THEN IndexOf(start)..IndexOf(end) - 1
          ELSE {IndexOf(a) : a \in {a \in steps : a < end}} \ {None}

BlockBits(b) == Bits(b.start, b.count * PageSize)

\* Mutant: only page 0 is reserved, the kernel is not.
ReservedPageZero == Bits(0, PageSize)

ReservedBits == UNION {Bits(r.start, r.size) : r \in Reserved}

Blocks == [start : {FrameOf(k) : k \in Indices}, count : 1..MaxCount]

\* Every number has a page, and the bits of a block that starts there begin
\* with that number and are among those that alloc looked at.
MapIsSound ==
  \A k \in Indices : \A c \in 1..MaxCount :
    /\ FrameOf(k) # None
    /\ k \in Bits(FrameOf(k), c * PageSize)
    /\ Bits(FrameOf(k), c * PageSize) \subseteq (k..k + c - 1) \cap Indices

ASSUME AllocatorAssumption ==
  /\ PageSize \in Nat \ {0} /\ MaxCount \in Nat \ {0}
  /\ Size \in Nat \ {0}
  /\ MemoryMap \in Seq([base : Nat, length : Nat, ram : BOOLEAN])
  /\ ReservedBits \subseteq Indices
  /\ MapIsSound

VARIABLES
  busy,      \* physical_memory_bitmap, as the set of bits that are 1
  cursor,    \* last_checked_memory_bitmap_index
  call,      \* the alloc in progress: [count, stop], stop_infinite_loop
  blocks,    \* what callers hold: set of [start, count]
  failed     \* what the last alloc that ended with no address had asked for

vars == <<busy, cursor, call, blocks, failed>>

NoCall == [count |-> 0, stop |-> 0]

-----------------------------------------------------------------------------
Init ==
  /\ busy = ReservedBits
  /\ cursor = 0
  /\ call = NoCall
  /\ blocks = {}
  /\ failed = 0

\* Mutant: the search is to stop at the end of the bitmap.
StopAtEnd == Size

\* stop_infinite_loop: where the search gives up when it comes back there.
Stop == cursor

AllocCall(count) ==
  /\ call = NoCall
  /\ call' = [count |-> count, stop |-> Stop]
  /\ failed' = 0
  /\ UNCHANGED <<busy, cursor, blocks>>

\* Mutant: the search goes on at the page it stopped at.
StartAtCursor == cursor

\* Where a turn of the loop begins to look.
Start == (cursor + 1) % Size

\* The bits a turn reads when all of them are 0.
LookedAt(n) == {(Start + i) % Size : i \in 0..n - 1}

\* A busy page in the run: the search goes on behind the first of them, and
\* gives up when that one is where it began.  A run can jump over that page
\* in every round: with no two free pages side by side, alloc(2) never ends.
AllocSkip ==
  /\ call # NoCall
  /\ \E i \in 0..call.count - 1 :
       /\ (Start + i) % Size \in busy
       /\ \A j \in 0..i - 1 : (Start + j) % Size \notin busy
       /\ cursor' = (Start + i) % Size
  /\ IF cursor' = call.stop
     THEN call' = NoCall /\ failed' = call.count
     ELSE UNCHANGED <<call, failed>>
  /\ UNCHANGED <<busy, blocks>>

\* The run is free: its pages are marked and handed out.
AllocTake ==
  /\ call # NoCall
  /\ LookedAt(call.count) \cap busy = {}
  /\ cursor' = Start
  /\ call' = NoCall
  /\ LET b == [start |-> FrameOf(Start), count |-> call.count]
     IN IF b.start = None
        THEN failed' = call.count /\ UNCHANGED <<busy, blocks>>
        ELSE /\ busy' = busy \cup BlockBits(b)
             /\ blocks' = blocks \cup {b}
             /\ UNCHANGED failed

\* Mutant: free is left its default of one page.
ClearedOnePage(b) == Bits(b.start, PageSize)

\* free: the bits it clears.
Cleared(b) == BlockBits(b)

\* A caller gives back a block it holds.
Free(b) ==
  /\ call = NoCall
  /\ b \in blocks
  /\ busy' = busy \ Cleared(b)
  /\ blocks' = blocks \ {b}
  /\ failed' = 0
  /\ UNCHANGED <<cursor, call>>

Next ==
  \/ \E count \in 1..MaxCount : AllocCall(count)
  \/ AllocSkip
  \/ AllocTake
  \/ \E b \in blocks : Free(b)

\* Nothing preempts alloc: once called it keeps running.
Fairness == WF_vars(AllocSkip \/ AllocTake)
Spec == Init /\ [][Next]_vars
FairSpec == Spec /\ Fairness

-----------------------------------------------------------------------------
(* Properties *)

TypeOK ==
  /\ busy \in SUBSET Indices
  /\ cursor \in Indices
  /\ call = NoCall \/ (call.count \in 1..MaxCount /\ call.stop \in Indices)
  /\ blocks \in SUBSET Blocks
  /\ failed \in 0..MaxCount

\* The bitmap is exact through every order of calls: what is busy is what
\* was reserved or is held, so nothing held is handed out again and nothing
\* given back is lost.
BitmapExact == busy = ReservedBits \cup UNION {BlockBits(b) : b \in blocks}

\* No two blocks share a page, and none has a reserved page.
NoSharedFrame ==
  /\ \A b, c \in blocks : b # c => BlockBits(b) \cap BlockBits(c) = {}
  /\ \A b \in blocks : BlockBits(b) \cap ReservedBits = {}

\* Every unit of a single page that is handed out is RAM of the memory map,
\* although areas may end inside a page.  (A run is one of bits: over a hole
\* it is not one of addresses.)
OnlyRam ==
  \A b \in {b \in blocks : b.count = 1} : \A u \in b.start..b.start + b.count * PageSize - 1 :
    \E i \in DOMAIN MemoryMap :
      /\ MemoryMap[i].ram
      /\ u \in MemoryMap[i].base..MemoryMap[i].base + MemoryMap[i].length - 1

\* The number behind the whole pages of a RAM area that ends inside a page
\* names that rest, and the first page of the next RAM area too.  init() has
\* it reserved, or there is no such number: on a PC low memory ends inside a
\* page, and the kernel lies at the start of the area that follows.
EndsReserved ==
  \A i \in DOMAIN MemoryMap :
    MemoryMap[i].ram /\ MemoryMap[i].length % PageSize # 0 =>
      Before[i] + MemoryMap[i].length \div PageSize \in ReservedBits \cup (Nat \ Indices)

\* alloc gives up on a single page only when there is none: the walk from a
\* cursor that other calls left anywhere has looked at every bit.
FailsOnlyWhenFull == failed = 1 => busy = Indices

\* Every alloc of one page ends (stop_infinite_loop), whatever runs were
\* handed out before.  (That of a run need not: see AllocSkip.)
AllocEnds == (call.count = 1) ~> (call = NoCall)
==============================================================================
