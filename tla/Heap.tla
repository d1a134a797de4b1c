--------------------------------- MODULE Heap ---------------------------------
(* kmalloc and kfree of src/src/high/memory/heap.cpp: single pages taken by    *)
(* walking the page tables of a window, small blocks cut from such pages, and  *)
(* runs of mapped pages for everything larger. The kernel has one thread, so a *)
(* call is one step.                                                           *)
EXTENDS PageTables, FiniteSets, Sequences

CONSTANTS
  PageSize,      \* bytes of a page (4096)
  PageWindow,    \* the indices of the top table that page_allocator searches
  SmallWindow,   \* the same for the pages of small_allocator
  LargeStart,    \* the first page of the large window
  LargeEnd,      \* the page after its last
  NodeSlots,     \* pages a node of a free list has room for (511)
  BucketSizes,   \* the block sizes of small_allocator, ascending (4 to 2047)
  BucketCounts,  \* how many blocks of each size a page holds
  Requests,      \* the sizes that callers ask for
  MaxTreeAreas   \* large blocks the one node of the tree of areas holds (169)

ASSUME HeapAssumption ==
  /\ PageSize \in Nat \ {0} /\ NodeSlots \in Nat \ {0} /\ Requests \subseteq Nat
  /\ PageWindow \subseteq Indices /\ SmallWindow \subseteq Indices
  /\ LargeStart \in Nat /\ LargeEnd \in Nat
  /\ \A p \in LargeStart..(LargeEnd - 1) :
       p \in Page /\ Offset(p, Levels) \notin PageWindow \cup SmallWindow
  /\ BucketSizes \in Seq(Nat \ {0}) /\ BucketCounts \in Seq(Nat \ {0})
  /\ Len(BucketSizes) > 0 /\ Len(BucketCounts) = Len(BucketSizes)
  \* The bitmap, and a byte for the bucket, lie behind the blocks of a page.
  /\ \A b \in 1..Len(BucketSizes) :
       (BucketCounts[b] * BucketSizes[b]) + ((BucketCounts[b] + 7) \div 8) < PageSize

VARIABLES
  small,      \* pages of small_allocator: the bucket and the bitmap
  freeList,   \* for each bucket the nodes of its list, a node's page and slots
  areas,      \* ptr_size: the start of each large block and its bytes
  treeNode,   \* the page of the tree's node, None without one
  blocks      \* what callers hold

vars == <<mem, small, freeList, areas, treeNode, blocks>>

None == -1
Buckets == DOMAIN BucketSizes

-------------------------------------------------------------------------------
(* page_allocator: a search over the tables themselves. *)

IsFull(table) == \A i \in Indices : table[i].present /\ table[i].full

\* The entry that malloc_traverse takes: the first that is present and not full,
\* else the first that is not present.
Candidates(table, range) ==
  LET open == {i \in range : table[i].present /\ ~table[i].full}
      absent == {i \in range : ~table[i].present}
  IN IF open # {} THEN open ELSE absent
First(S) == CHOOSE i \in S : \A j \in S : i <= j

\* A frame for the entry i of table t. Below the last level the frame becomes a
\* table as it is: nothing clears it, and one that was used before is garbage.
Populate(m, t, i, level) ==
  LET f == NextFrame(m)
      Filled(n) == SetEntry(n, t, i, [Blank EXCEPT !.present = TRUE, !.frame = f, !.write = TRUE])
      Linked(n) == IF n.kernel # "running" THEN n
                   ELSE IF level = 1 THEN Filled(n)
                   ELSE IF f \in m.dirty THEN Corrupt(m)
                   ELSE [Filled(n) EXCEPT !.tables = With(@, f, EmptyTable)]
  IN Linked(TakeFrame(m))

\* malloc_traverse on its way down: w.index is the entry it took last, w.table the
\* table behind it, w.page what it knows of the page.
Turn(w, range, level) ==
  LET table == w.mem.tables[w.table]
      C == Candidates(table, range)
      i == First(C)
      Noted(m) == IF level # 1 THEN m
                  ELSE SetEntry(m, w.table, i, [m.tables[w.table][i] EXCEPT !.full = TRUE])
      Entered(m) ==
        IF m.kernel # "running" THEN [w EXCEPT !.going = FALSE, !.mem = m]
        ELSE [mem |-> Noted(m), table |-> m.tables[w.table][i].frame, index |-> i,
              page |-> w.page + (i * Width[level - 1]), going |-> TRUE]
  IN IF ~w.going \/ C = {} \/ (~table[i].present /\ NoFrame(w.mem))
     THEN [w EXCEPT !.going = FALSE]
     ELSE Entered(IF table[i].present THEN w.mem ELSE Populate(w.mem, w.table, i, level))

\* On the way back an entry is marked when the table below it has become full.
Marked(m, t, i) ==
  LET e == m.tables[t][i]
  IN IF m.kernel # "running" THEN m
     ELSE SetEntry(m, t, i, [e EXCEPT !.full = @ \/ IsFull(m.tables[e.frame])])

\* malloc_traverse: the memory after it and the page, or nothing. Down[l] is the
\* walk when it has passed the levels above l, Up[l] the memory when it is back.
AllocPage(m, window) ==
  LET Down[l \in 0..Levels] ==
        IF l = Levels THEN [mem |-> m, table |-> Root, index |-> 0, page |-> 0, going |-> TRUE]
        ELSE Turn(Down[l + 1], IF l + 1 = Levels THEN window ELSE Indices, l + 1)
      Up[l \in 1..Levels] ==
        IF l = 1 THEN Down[0].mem
        ELSE IF Down[l - 1].going THEN Marked(Up[l - 1], Down[l].table, Down[l - 1].index)
        ELSE Up[l - 1]
  IN [mem |-> Up[Levels], page |-> IF Down[0].going THEN Down[0].page ELSE None]

\* An entry on the way back from a freed page. The frame that is given back is
\* read from the entry after the entry was cleared: it is frame 0.
Release(m, t, i) ==
  LET e == m.tables[t][i]
      below == m.tables[e.frame]
  IN IF \A j \in Indices : ~below[j].present
     THEN GiveFrame(SetEntry(m, t, i, Blank), 0)
     ELSE SetEntry(m, t, i, [e EXCEPT !.full = IsFull(below)])

\* free_traverse of a page.
FreePage(m, p) ==
  LET path == Path(m, p)
      Up[level \in 1..Levels] ==
        IF level = 1
        THEN GiveFrame(SetEntry(m, path[1], Offset(p, 1), Blank), 0)
        ELSE Release(Up[level - 1], path[level], Offset(p, level))
  IN Up[Levels]

-------------------------------------------------------------------------------
(* small_allocator. Its state s is [mem, small, freeList]. *)

\* A page for a list or for blocks; clearing a null pointer stops the kernel.
SmallPage(s) ==
  LET Zeroed(r) == [state |-> [s EXCEPT !.mem = IF r.page = None /\ r.mem.kernel = "running"
                                                 THEN Halt(r.mem) ELSE r.mem],
                     page |-> r.page]
  IN Zeroed(AllocPage(s.mem, SmallWindow))

\* A list with a node more, in the page that r got, for the page it is to hold.
NewNode(r, b, page) ==
  LET slots == [k \in 1..NodeSlots |-> IF k = 1 THEN page ELSE None]
  IN IF r.page = None THEN r.state
     ELSE [r.state EXCEPT !.freeList[b] = Append(@, [page |-> r.page, slots |-> slots])]

\* List::push: the first free slot of the list, or a new node behind its last.
Push(s, b, page) ==
  LET list == s.freeList[b]
      open == {x \in (1..Len(list)) \X (1..NodeSlots) : list[x[1]].slots[x[2]] = None}
      spot == CHOOSE x \in open : \A y \in open :
                x[1] < y[1] \/ (x[1] = y[1] /\ x[2] <= y[2])
  IN IF open # {} THEN [s EXCEPT !.freeList[b][spot[1]].slots[spot[2]] = page]
     ELSE NewNode(SmallPage(s), b, page)

\* List::peek: the first page of the list.
Peek(list) ==
  LET n == First({k \in DOMAIN list : \E x \in 1..NodeSlots : list[k].slots[x] # None})
  IN list[n].slots[First({x \in 1..NodeSlots : list[n].slots[x] # None})]

\* List::remove: every node is searched, and empty ones are freed.
Cleared(node, page) ==
  [node EXCEPT !.slots = [k \in 1..NodeSlots |-> IF @[k] = page THEN None ELSE @[k]]]
Kept(r, node) ==
  IF \A k \in 1..NodeSlots : node.slots[k] = None
  THEN [r EXCEPT !.mem = FreePage(@, node.page)]
  ELSE [r EXCEPT !.list = Append(@, node)]
Drop(s, b, page) ==
  LET list == s.freeList[b]
      R[n \in 0..Len(list)] ==
        IF n = 0 THEN [mem |-> s.mem, list |-> <<>>] ELSE Kept(R[n - 1], Cleared(list[n], page))
  IN [s EXCEPT !.freeList[b] = R[Len(list)].list, !.mem = R[Len(list)].mem]

BucketOf(size) == First({b \in Buckets : size <= BucketSizes[b]})
Slots(b) == 0..(BucketCounts[b] - 1)

\* Mutant: the largest blocks are taken to be 2048 bytes, as the comment at freeList says.
SlotOfRounded(b, offset) == offset \div (BucketSizes[b] + 1)

\* The number of a block in its page.
SlotOf(b, offset) == offset \div BucketSizes[b]

\* Mutant: a page goes to the list even when the block freed was not its first.
WasFullAlways(s, page) == TRUE

\* Whether every block of a page is taken, before one of them is freed.
WasFull(s, page) == s.small[page].used = Slots(s.small[page].bucket)

\* The page that r got, with a bucket of its own, is put into the bucket's list.
Listed(r, b) ==
  IF r.page = None THEN r.state
  ELSE Push([r.state EXCEPT !.small = With(@, r.page, [bucket |-> b, used |-> {}])], b, r.page)
Refill(s, b) == Listed(SmallPage(s), b)

\* The first free block of a page, which leaves the list with its last one.
TakeFirst(s, b, page) ==
  LET open == Slots(b) \ s.small[page].used
      taken == [s EXCEPT !.small[page].used = @ \cup {First(open)}]
  IN [state |-> IF Cardinality(open) = 1 THEN Drop(taken, b, page) ELSE taken,
      block |-> <<page, First(open) * BucketSizes[b], BucketSizes[b]>>]
TakeBlock(s, b) ==
  IF s.mem.kernel # "running" THEN [state |-> s, block |-> <<>>]
  ELSE TakeFirst(s, b, Peek(s.freeList[b]))

\* small_allocator::malloc: the state after it and the block.
SmallMalloc(s, size) ==
  LET b == BucketOf(size)
  IN TakeBlock(IF s.freeList[b] = <<>> THEN Refill(s, b) ELSE s, b)

\* small_allocator::free: the page of a freed block is never given back.
SmallFree(s, page, offset) ==
  LET b == s.small[page].bucket
      n == [s EXCEPT !.small[page].used = @ \ {SlotOf(b, offset)}]
  IN IF s.small[page].used = {} THEN [n EXCEPT !.mem = FreePage(@, page)]
     ELSE IF WasFull(s, page) THEN Push(n, b, page) ELSE n

-------------------------------------------------------------------------------
(* large_allocator. *)

\* Where the walk over the areas stands in front of those from k on. It takes the
\* size of an area for its pages, and steps as many pages on as the area has bytes.
LastEnd(k) ==
  LET before == {j \in DOMAIN areas : j < k}
      last == CHOOSE j \in before : \A i \in before : i <= j
  IN IF before = {} THEN LargeStart ELSE last + areas[last]

\* Where malloc puts a run of pages: in front of the first area that is farther
\* away than the run is long. The distance has no sign: an area that the walk
\* has passed over is far away.
LargeSpot(count) ==
  LET stops == {k \in DOMAIN areas : LastEnd(k) > k \/ k - LastEnd(k) > count}
  IN LastEnd(IF stops = {} THEN LargeEnd ELSE First(stops))

KernelRights == [write |-> TRUE, user |-> FALSE]

\* A page of the run gets a frame and is mapped, over the frame it may have already.
MapNext(m, p) ==
  LET n == IF NoFrame(m) THEN Halt(m) ELSE TakeFrame(m)
  IN IF m.kernel # "running" THEN m
     ELSE IF n.kernel # "running" THEN n
     ELSE Map(n, NextFrame(m), p, KernelRights)
MapRun(m, start, count) ==
  LET R[i \in 0..count] == IF i = 0 THEN m ELSE MapNext(R[i - 1], start + i - 1)
  IN R[count]

\* Mutant: the frame goes back and the page stays mapped.
UnmapNextKept(m, p) == GiveFrame(m, Get(m, p))

\* free: each frame is looked up, given back, and its page unmapped.
UnmapNext(m, p) == Unmap(GiveFrame(m, Get(m, p)), p)

UnmapRun(m, start, count) ==
  LET R[i \in 0..count] == IF i = 0 THEN m ELSE UnmapNext(R[i - 1], start + i - 1)
  IN R[count]

-------------------------------------------------------------------------------
(* kmalloc and kfree. *)

Init ==
  /\ mem = EmptyMemory
  /\ small = <<>> /\ freeList = [b \in Buckets |-> <<>>]
  /\ areas = <<>> /\ treeNode = None
  /\ blocks = {}

Running == mem.kernel = "running"

\* A block is its first page, its offset in it and its size in bytes.
MallocSmall(size) ==
  /\ Running /\ size <= BucketSizes[Len(BucketSizes)]
  /\ \E r \in {SmallMalloc([mem |-> mem, small |-> small, freeList |-> freeList], size)} :
        /\ mem' = r.state.mem /\ small' = r.state.small /\ freeList' = r.state.freeList
        /\ blocks' = IF r.block = <<>> THEN blocks ELSE blocks \cup {r.block}
  /\ UNCHANGED <<areas, treeNode>>

MallocPage(size) ==
  /\ Running /\ size > BucketSizes[Len(BucketSizes)] /\ size <= PageSize
  /\ \E r \in {AllocPage(mem, PageWindow)} :
        /\ r.page # None \/ r.mem.kernel # "running"
        /\ mem' = r.mem
        /\ blocks' = IF r.page = None THEN blocks ELSE blocks \cup {<<r.page, 0, PageSize>>}
  /\ UNCHANGED <<small, freeList, areas, treeNode>>

\* The pages of a request, and of an area.
PageCount(size) == (size + PageSize - 1) \div PageSize

\* A large block is one of more than a page, or of a page when the page window or
\* the memory below it is exhausted. The first one needs a node for the tree; when
\* there is no page for it the call asks for a large block in turn and spins on the
\* lock it holds, so the kernel stops.
MallocLarge(size) ==
  /\ Running /\ size > BucketSizes[Len(BucketSizes)]
  /\ Cardinality(DOMAIN areas) < MaxTreeAreas
  /\ LET count == PageCount(size)
         start == LargeSpot(count)
         Run(m) == IF start + count > LargeEnd THEN Halt(m) ELSE MapRun(m, start, count)
         Node(m) == IF areas # <<>> THEN [mem |-> m, page |-> treeNode]
                    ELSE IF m.kernel # "running" THEN [mem |-> m, page |-> None]
                    ELSE AllocPage(m, PageWindow)
     IN \E tried \in {IF size <= PageSize THEN AllocPage(mem, PageWindow)
                      ELSE [mem |-> mem, page |-> None]} :
        \E node \in {Node(Run(tried.mem))} :
        \E done \in {node.page # None /\ node.mem.kernel = "running"} :
        /\ tried.page = None /\ tried.mem.kernel = "running"
        /\ mem' = IF done \/ node.mem.kernel # "running" THEN node.mem ELSE Halt(node.mem)
        /\ areas' = IF done THEN With(areas, start, count * PageSize) ELSE areas
        /\ treeNode' = IF done THEN node.page ELSE treeNode
        /\ blocks' = IF done THEN blocks \cup {<<start, 0, count * PageSize>>} ELSE blocks
  /\ UNCHANGED <<small, freeList>>

FreeSmall(block) ==
  /\ Running /\ block[1] \in DOMAIN small
  /\ \E s \in {SmallFree([mem |-> mem, small |-> small, freeList |-> freeList],
                         block[1], block[2])} :
       mem' = s.mem /\ small' = s.small /\ freeList' = s.freeList
  /\ blocks' = blocks \ {block}
  /\ UNCHANGED <<areas, treeNode>>

FreePageBlock(block) ==
  /\ Running /\ block[1] \notin DOMAIN small \cup DOMAIN areas
  /\ mem' = FreePage(mem, block[1])
  /\ blocks' = blocks \ {block}
  /\ UNCHANGED <<small, freeList, areas, treeNode>>

\* The tree's node goes with the last area.
FreeLarge(block) ==
  /\ Running /\ block[1] \in DOMAIN areas
  /\ \E m \in {UnmapRun(mem, block[1], PageCount(areas[block[1]]))} :
       mem' = IF Cardinality(DOMAIN areas) = 1 THEN FreePage(m, treeNode) ELSE m
  /\ areas' = [k \in DOMAIN areas \ {block[1]} |-> areas[k]]
  /\ treeNode' = IF Cardinality(DOMAIN areas) = 1 THEN None ELSE treeNode
  /\ blocks' = blocks \ {block}
  /\ UNCHANGED <<small, freeList>>

\* The kernel stopped, or runs on with tables that nobody wrote.
Stopped == ~Running /\ UNCHANGED vars

Next ==
  \/ \E size \in Requests : MallocSmall(size) \/ MallocPage(size) \/ MallocLarge(size)
  \/ \E block \in blocks : FreeSmall(block) \/ FreePageBlock(block) \/ FreeLarge(block)
  \/ Stopped

Spec == Init /\ [][Next]_vars
-------------------------------------------------------------------------------
(* Properties. *)

\* The pages a block lies in.
PagesOf(block) == block[1]..(block[1] + ((block[2] + block[3] - 1) \div PageSize))

\* The areas on which the walk of large_allocator's malloc (heap.cpp:501) does right:
\* whenever there is room for one more, none is nearer to the next than as many pages
\* as it has bytes, so that the walk passes over none. Otherwise a large block may be
\* put over another one. It takes a third area, behind one in a refilled hole.
Spaced == Cardinality(DOMAIN areas) < MaxTreeAreas =>
  \A a, b \in DOMAIN areas : a < b => a + areas[a] <= b

\* What malloc hands out (heap.cpp:33): the blocks that callers hold overlap neither
\* each other nor the bitmap at the end of a page of small blocks, and every page of
\* them is mapped and writable; the bitmap of a page marks just the blocks held.
BlocksApart == Running =>
  /\ \A a, b \in blocks : a = b \/ (a[1] * PageSize) + a[2] + a[3] <= (b[1] * PageSize) + b[2]
                                 \/ (b[1] * PageSize) + b[2] + b[3] <= (a[1] * PageSize) + a[2]
  /\ \A a \in blocks : \A p \in PagesOf(a) : Translate(mem, p).write
  /\ \A page \in DOMAIN small :
       small[page].used = {a[2] \div a[3] : a \in {x \in blocks : x[1] = page}}
  /\ \A a \in blocks : a[1] \in DOMAIN small =>
       a[2] + a[3] <= PageSize - 1 - ((BucketCounts[small[a[1]].bucket] + 7) \div 8)

\* Every frame given back to the allocator (heap.cpp:222, 523) is out of use, but for
\* frame 0, which free_traverse gives back in the place of the page's own.
FreeFramesUnused == Running =>
  InUse(mem) \subseteq mem.taken \cup {0, -1}

\* A list holds exactly the pages that have a free block, each once (heap.cpp:418, 452).
ListsExact == Running =>
  \A b \in Buckets :
    LET In(page) == {x \in (1..Len(freeList[b])) \X (1..NodeSlots) :
                       freeList[b][x[1]].slots[x[2]] = page}
    IN \A page \in DOMAIN small :
         Cardinality(In(page)) =
           IF small[page].bucket = b /\ small[page].used # Slots(b) THEN 1 ELSE 0

\* The tables implement the promise of AddressSpace: a page keeps its translation as
\* long as it is mapped.
Space == INSTANCE AddressSpace WITH
           Translation <- [frame : Frames, write : BOOLEAN, user : BOOLEAN],
           space <- [p \in Page |-> Translate(mem, p)]
TranslationsStable == Space!Spec
===============================================================================
