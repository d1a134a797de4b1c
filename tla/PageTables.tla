------------------------------ MODULE PageTables ------------------------------
(* The page tables of src/src/high/memory/paging.cpp and the page at a time    *)
(* that the frame allocator gives them. A page is its number; its index in the *)
(* table of a level is a digit of that number. Whatever a step does to memory  *)
(* is an operator from one memory to the next, because the kernel does several *)
(* such steps inside one call.                                                 *)
EXTENDS Integers

CONSTANTS
  Levels,      \* levels of tables (4)
  Entries,     \* entries of a table (512)
  FrameCount,  \* frames of RAM; frame 0 is reserved, it holds the BIOS's data
  Root         \* the frame of the top table, the value of CR3

ASSUME PageTablesAssumption ==
  /\ Levels \in Nat \ {0} /\ Entries \in Nat \ {0}
  /\ FrameCount \in Nat \ {0} /\ Root \in 1..(FrameCount - 1)

VARIABLE mem   \* [tables, taken, cursor, dirty, kernel]

\* The pages below an entry of level n + 1.
Width[n \in Nat] == IF n = 0 THEN 1 ELSE Entries * Width[n - 1]

Frames == 0..(FrameCount - 1)
Indices == 0..(Entries - 1)
Page == 0..(Width[Levels] - 1)
Unmapped == [frame |-> -1, write |-> FALSE, user |-> FALSE]
\* An entry; full is the bit of metaData in which the heap notes a full table.
Blank == [present |-> FALSE, frame |-> 0, write |-> FALSE, user |-> FALSE, full |-> FALSE]
EmptyTable == [i \in Indices |-> Blank]

\* The index of a page in its table of a level.
Offset(p, level) == (p \div Width[level - 1]) % Entries

\* A function with one place more, or with another value there.
With(f, x, value) == [y \in DOMAIN f \cup {x} |-> IF y = x THEN value ELSE f[y]]

SetEntry(m, t, i, entry) == [m EXCEPT !.tables[t][i] = entry]
Halt(m) == [m EXCEPT !.kernel = "halted"]
Corrupt(m) == [m EXCEPT !.kernel = "corrupt"]

-------------------------------------------------------------------------------
(* Walking. *)

\* The tables on the way to a page, from the top; -1 below a missing one.
Path(m, p) ==
  LET T[l \in 1..Levels] ==
        IF l = Levels THEN Root
        ELSE IF T[l + 1] = -1 THEN -1
        ELSE LET e == m.tables[T[l + 1]][Offset(p, l + 1)]
             IN IF e.present THEN e.frame ELSE -1
  IN T

\* The last entry of a page, for a page that has all its tables.
Leaf(m, p) == m.tables[Path(m, p)[1]][Offset(p, 1)]

\* What the processor makes of a page: every level must be present, and a right
\* must be granted by all of them.
Translate(m, p) ==
  LET path == Path(m, p)
      On(l) == m.tables[path[l]][Offset(p, l)]
  IN IF path[1] = -1 \/ ~Leaf(m, p).present THEN Unmapped
     ELSE [frame |-> Leaf(m, p).frame,
           write |-> \A l \in 1..Levels : On(l).write,
           user |-> \A l \in 1..Levels : On(l).user]

\* get: what the kernel makes of it. The last level's present bit is not read.
Get(m, p) == IF Path(m, p)[1] = -1 THEN -1 ELSE Leaf(m, p).frame

\* The frames that mapped pages or the tables on the way to them are in.
InUse(m) ==
  {Path(m, p)[l] : p \in Page, l \in 1..Levels} \cup {Translate(m, p).frame : p \in Page}

-------------------------------------------------------------------------------
(* PhysicalAllocator::alloc(1) and free(frame, 1). *)

\* How far behind the cursor the free frames are.
Ahead(m) == {d \in 1..FrameCount : (m.cursor + d) % FrameCount \notin m.taken}
NoFrame(m) == Ahead(m) = {}
NextFrame(m) ==
  (m.cursor + CHOOSE d \in Ahead(m) : \A e \in Ahead(m) : d <= e) % FrameCount

\* The next frame is taken. Two users of one frame overwrite each other: nothing
\* is claimed from there on.
TakeFrame(m) ==
  IF NextFrame(m) \in InUse(m) THEN Corrupt(m)
  ELSE [m EXCEPT !.taken = @ \cup {NextFrame(m)}, !.cursor = NextFrame(m)]

\* A frame given back keeps its bytes.
GiveFrame(m, f) == [m EXCEPT !.taken = @ \ {f}, !.dirty = @ \cup {f}]

-------------------------------------------------------------------------------
(* Changing. *)

\* An entry on the way to a page: it gets the rights as well, and a table.
OnTheWay(e, f, rights) ==
  [e EXCEPT !.present = TRUE, !.frame = f,
            !.write = @ \/ rights.write, !.user = @ \/ rights.user]

\* map, one level down from w.table: a missing table is allocated and cleared.
Below(w, i, rights) ==
  LET e == w.mem.tables[w.table][i]
      f == NextFrame(w.mem)
      n == IF NoFrame(w.mem) THEN Halt(w.mem) ELSE TakeFrame(w.mem)
      linked == SetEntry(n, w.table, i, OnTheWay(e, f, rights))
  IN IF w.mem.kernel # "running" THEN w
     ELSE IF e.present
     THEN [mem |-> SetEntry(w.mem, w.table, i, OnTheWay(e, e.frame, rights)), table |-> e.frame]
     ELSE IF n.kernel # "running" THEN [mem |-> n, table |-> w.table]
     ELSE [mem |-> [linked EXCEPT !.tables = With(@, f, EmptyTable)], table |-> f]

\* map: frame f is put behind page p.
Map(m, f, p, rights) ==
  LET W[l \in 1..Levels] ==
        IF l = Levels THEN [mem |-> m, table |-> Root]
        ELSE Below(W[l + 1], Offset(p, l + 1), rights)
      e == W[1].mem.tables[W[1].table][Offset(p, 1)]
  IN IF W[1].mem.kernel # "running" THEN W[1].mem
     ELSE SetEntry(W[1].mem, W[1].table, Offset(p, 1),
                   [e EXCEPT !.present = TRUE, !.frame = f,
                             !.write = rights.write, !.user = rights.user])

\* Mutant: the frame is cleared and the present bit stays.
UnmapFrame(m, p) ==
  IF Path(m, p)[1] = -1 THEN m
  ELSE SetEntry(m, Path(m, p)[1], Offset(p, 1), [Leaf(m, p) EXCEPT !.frame = 0])

\* unmap clears the present bit of the last level and nothing else.
Unmap(m, p) ==
  IF Path(m, p)[1] = -1 THEN m
  ELSE SetEntry(m, Path(m, p)[1], Offset(p, 1), [Leaf(m, p) EXCEPT !.present = FALSE])

\* The memory the heap starts with: the top table alone.
EmptyMemory ==
  [tables |-> [t \in {Root} |-> EmptyTable], taken |-> {0, Root}, cursor |-> Root,
   dirty |-> {0}, kernel |-> "running"]
===============================================================================
