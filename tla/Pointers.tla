------------------------------- MODULE Pointers -------------------------------
(***************************************************************************)
(* shared_ptr and weak_ptr: include/features/smart_pointer.h.              *)
(*                                                                         *)
(* A pointer is a cell: outside every object (a variable, a list entry) or *)
(* a member of one (process::children, process::self).  Deleting an object *)
(* runs its members' destructors, which reset other cells, and so on: the  *)
(* operation the program asked for is a stack of small steps (`todo'), and *)
(* nothing else runs until it is empty.  A small step is one destructor's  *)
(* reset, the check of the counter block that follows a delete, or the     *)
(* assignment that follows a reset.                                        *)
(*                                                                         *)
(* A fault (panic, or a use of freed memory) stops the model.              *)
(***************************************************************************)
EXTENDS Integers, FiniteSets, Sequences, SequencesExt

CONSTANTS
  Objects,     \* what `new' may return
  Outer,       \* shared pointers outside every object
  Watchers,    \* weak pointers outside every object
  Null,
  MaxResets    \* bound: calls of weak_ptr::reset by name (process.cpp:158, 221)

\* Every object has the two members that matter here: a shared pointer
\* (process::children) and a weak one (process::self, adopter, parent).
Child(o) == [member |-> "child", of |-> o]
Self(o) == [member |-> "self", of |-> o]
Strong == Outer \cup {Child(o) : o \in Objects}
Weak == Watchers \cup {Self(o) : o \in Objects}
Unnamed == [member |-> "none"]   \* a temporary, where the program has no cell

\* No two cells share their memory.
ASSUME PointersAssumption ==
  /\ Null \notin Objects /\ MaxResets \in Nat
  /\ IsFiniteSet(Objects) /\ IsFiniteSet(Outer) /\ IsFiniteSet(Watchers)
  /\ Outer \cap Watchers = {} /\ Unnamed \notin Outer
  /\ \A o \in Objects : {Child(o), Self(o)} \cap (Outer \cup Watchers) = {}

VARIABLES
  at,       \* the object a cell's ref (and ptr) points to, or Null
  strong,   \* ref_count.strong_count
  weak,     \* ref_count.weak_count
  live,     \* objects not yet deleted
  block,    \* objects whose ref_count is not yet deleted
  todo,     \* the small steps still to do, the next one first
  resets,   \* of each object: how often reset() was called by name on a weak
            \* pointer to it (only observed)
  fault     \* "none", "panic", "freed" (freed memory was used) or "null"

vars == <<at, strong, weak, live, block, todo, resets, fault>>

Init == /\ at = [c \in Strong \cup Weak |-> Null]
        /\ strong = [o \in Objects |-> 0]
        /\ weak = [o \in Objects |-> 0]
        /\ live = {} /\ block = {} /\ todo = <<>>
        /\ resets = [o \in Objects |-> 0]
        /\ fault = "none"

-----------------------------------------------------------------------------
(* Small steps *)

Reset(c) == [op |-> "reset", cell |-> c]       \* reset()
Count(c) == [op |-> "count", cell |-> c]       \* reset(), after do_delete
Clear(c) == [op |-> "clear", cell |-> c]       \* the cell goes out of scope
Copy(c, d) == [op |-> "copy", cell |-> c, from |-> d]
Move(c, d) == [op |-> "move", cell |-> c, from |-> d]
Put(c, o) == [op |-> "put", cell |-> c, object |-> o]   \* from a temporary

Inside(c, o) == c \in {Child(o), Self(o)}

\* The memory of a cell exists.
Present(c) == \A o \in Objects : Inside(c, o) => o \in live

Stop(how) == fault' = how /\ UNCHANGED <<at, strong, weak, live, block, todo>>
Fail(how) == Stop(how) /\ UNCHANGED resets

\* The destructors of an object's members, the last member first.
Destroy(o) == <<Reset(Self(o)), Clear(Self(o)), Reset(Child(o)), Clear(Child(o))>>

\* Mutant: the last owner gone, the object is left to its weak pointers.
ResetStrongIdle(c) ==
  LET o == at[c]
  IN IF o = Null THEN todo' = Tail(todo)
                      /\ UNCHANGED <<at, strong, weak, live, block, resets, fault>>
     ELSE /\ strong' = [strong EXCEPT ![o] = @ - 1]
          /\ todo' = Tail(todo)
          /\ UNCHANGED <<at, weak, live, block, resets, fault>>

\* shared_ptr::reset up to and with do_delete's call of the destructors.
ResetStrong(c) ==
  LET o == at[c]
  IN IF o = Null THEN todo' = Tail(todo)
                      /\ UNCHANGED <<at, strong, weak, live, block, resets, fault>>
     ELSE IF o \notin block THEN Fail("freed")
     ELSE IF strong[o] = 0 THEN Fail("panic")
     ELSE /\ strong' = [strong EXCEPT ![o] = @ - 1]
          /\ todo' = (IF strong[o] = 1
                      THEN Destroy(o) \o <<Count(c)>> ELSE <<>>) \o Tail(todo)
          /\ UNCHANGED <<at, weak, live, block, resets, fault>>

\* Mutant: the counter block goes with the object.
CountAlone(c) ==
  LET o == at[c]
  IN /\ live' = live \ {o}
     /\ todo' = Tail(todo)
     /\ block' = block \ {o} /\ at' = [at EXCEPT ![c] = Null]
     /\ UNCHANGED <<strong, weak, resets, fault>>

\* shared_ptr::reset after the delete: the counter block goes too when no
\* weak pointer is counted, and is read for that.
CountWeak(c) ==
  LET o == at[c]
  IN IF o \notin block THEN Fail("freed")
     ELSE /\ live' = live \ {o}
          /\ todo' = Tail(todo)
          /\ IF weak[o] = 0 THEN block' = block \ {o} /\ at' = [at EXCEPT ![c] = Null]
                            ELSE UNCHANGED <<block, at>>
          /\ UNCHANGED <<strong, weak, resets, fault>>

\* weak_ptr::reset.  The pointer keeps what it points to, unless the block goes.
WeakReset(c, rest) ==
  LET o == at[c]
  IN IF o = Null THEN todo' = rest
                      /\ UNCHANGED <<at, strong, weak, live, block, fault>>
     ELSE IF o \notin block THEN Stop("freed")
     ELSE IF weak[o] = 0 THEN Stop("panic")
     ELSE /\ weak' = [weak EXCEPT ![o] = @ - 1]
          /\ todo' = rest
          /\ IF weak[o] = 1 /\ strong[o] = 0
             THEN block' = block \ {o} /\ at' = [at EXCEPT ![c] = Null]
             ELSE UNCHANGED <<block, at>>
          /\ UNCHANGED <<strong, live, fault>>

\* Mutant: only shared pointers are counted.
AddShared(c, o) == IF c \in Strong
                   THEN strong' = [strong EXCEPT ![o] = @ + 1] /\ UNCHANGED weak
                   ELSE UNCHANGED <<strong, weak>>

\* One more pointer of c's kind to o.
Add(c, o) == IF c \in Strong
             THEN strong' = [strong EXCEPT ![o] = @ + 1] /\ UNCHANGED weak
             ELSE weak' = [weak EXCEPT ![o] = @ + 1] /\ UNCHANGED strong

\* ptr = other.ptr; ref = other.ref; and the count.  A shared pointer looks
\* whether ref is there, a weak one does not.
CopyFrom(c, d) ==
  IF ~Present(c) \/ ~Present(d) THEN Fail("freed")
  ELSE IF at[d] = Null /\ c \in Weak THEN Fail("null")
  ELSE IF at[d] # Null /\ at[d] \notin block THEN Fail("freed")
  ELSE /\ at' = [at EXCEPT ![c] = at[d]]
       /\ IF at[d] = Null THEN UNCHANGED <<strong, weak>> ELSE Add(c, at[d])
       /\ todo' = Tail(todo)
       /\ UNCHANGED <<live, block, resets, fault>>

MoveFrom(c, d) ==
  IF ~Present(c) \/ ~Present(d) THEN Fail("freed")
  ELSE /\ at' = [at EXCEPT ![c] = at[d], ![d] = Null]
       /\ todo' = Tail(todo)
       /\ UNCHANGED <<strong, weak, live, block, resets, fault>>

Assign(c, o) ==
  IF ~Present(c) THEN Fail("freed")
  ELSE /\ at' = [at EXCEPT ![c] = o]
       /\ todo' = Tail(todo)
       /\ UNCHANGED <<strong, weak, live, block, resets, fault>>

Step ==
  /\ fault = "none" /\ todo # <<>>
  /\ LET s == Head(todo)
     IN \/ s.op = "reset" /\ s.cell \in Strong /\ ResetStrong(s.cell)
        \/ s.op = "reset" /\ s.cell \in Weak /\ WeakReset(s.cell, Tail(todo))
           /\ UNCHANGED resets
        \/ s.op = "count" /\ CountWeak(s.cell)
        \/ s.op = "clear" /\ Assign(s.cell, Null)
        \/ s.op = "copy" /\ CopyFrom(s.cell, s.from)
        \/ s.op = "move" /\ MoveFrom(s.cell, s.from)
        \/ s.op = "put" /\ Assign(s.cell, s.object)

-----------------------------------------------------------------------------
(* What the program may ask for, between operations, of a cell it can name *)

Ready(c) == fault = "none" /\ todo = <<>> /\ Present(c)

Begin(steps) == /\ todo' = steps
                /\ UNCHANGED <<at, live, block, resets, fault>>

\* c = shared_ptr(new T).  Memory that something still points to is not
\* handed out again: what a pointer to freed memory reads is a fault anyway.
New(c) ==
  /\ Ready(c)
  /\ \E o \in Objects \ (live \cup block) :
       /\ \A d \in Strong \cup Weak : at[d] # o
       /\ live' = live \cup {o} /\ block' = block \cup {o}
       /\ strong' = [strong EXCEPT ![o] = 1]
       /\ weak' = [weak EXCEPT ![o] = 0]
       /\ resets' = [resets EXCEPT ![o] = 0]
       /\ todo' = <<Reset(c), Put(c, o)>>
  /\ UNCHANGED <<at, fault>>

\* c = d, of shared or of weak pointers.
CopyAssign(c, d) == /\ Ready(c) /\ Ready(d) /\ c # d
                    /\ Begin(<<Reset(c), Copy(c, d)>>)
                    /\ UNCHANGED <<strong, weak>>

\* c = std::move(d)
MoveAssign(c, d) == /\ Ready(c) /\ Ready(d) /\ c # d
                    /\ Begin(<<Reset(c), Move(c, d)>>)
                    /\ UNCHANGED <<strong, weak>>

\* The cell's scope ends, or its list entry is removed.
Drop(c) == /\ Ready(c) /\ at[c] # Null
           /\ Begin(<<Reset(c), Clear(c)>>)
           /\ UNCHANGED <<strong, weak>>

\* w = c, through the converting constructor, which counts before the old
\* value goes and does not look whether c is empty.
Watch(w, c) ==
  /\ Ready(w) /\ Ready(c)
  /\ IF at[c] = Null THEN Fail("null")
     ELSE /\ Add(w, at[c])
          /\ Begin(<<Reset(w), Put(w, at[c])>>)

\* Mutant: lock takes whatever is there.
LockAny(c, w) ==
  /\ Ready(c) /\ Ready(w)
  /\ IF at[w] = Null
     THEN Begin(<<Reset(c), Put(c, Null)>>) /\ UNCHANGED <<strong, weak>>
     ELSE IF at[w] \notin block THEN Fail("freed")
     ELSE Add(c, at[w]) /\ Begin(<<Reset(c), Put(c, at[w])>>)

\* c = w.lock()
Lock(c, w) ==
  /\ Ready(c) /\ Ready(w)
  /\ IF at[w] # Null /\ at[w] \notin block THEN Fail("freed")
     ELSE IF at[w] # Null /\ strong[at[w]] > 0
     THEN Add(c, at[w]) /\ Begin(<<Reset(c), Put(c, at[w])>>)
     ELSE Begin(<<Reset(c), Put(c, Null)>>) /\ UNCHANGED <<strong, weak>>

\* w.reset() by name, as the handlers of adopt and disown call it.
ResetByName(w) ==
  /\ Ready(w) /\ at[w] # Null
  /\ \A o \in Objects : resets[o] < MaxResets
  /\ WeakReset(w, <<>>)
  /\ resets' = IF at'[w] = at[w] /\ fault' = "none"
               THEN [resets EXCEPT ![at[w]] = @ + 1] ELSE resets

Program ==
  \/ \E c \in Strong : New(c) \/ Drop(c)
  \/ \E c, d \in Strong : CopyAssign(c, d) \/ MoveAssign(c, d)
  \/ \E w \in Weak : Drop(w) \/ ResetByName(w)
  \/ \E w, v \in Weak : CopyAssign(w, v) \/ MoveAssign(w, v)
  \/ \E w \in Weak, c \in Strong : Watch(w, c) \/ Lock(c, w)

Next == Step \/ Program

\* The kernel finishes a destructor it began: nothing else runs meanwhile.
Spec == Init /\ [][Next]_vars /\ WF_vars(Step)

-----------------------------------------------------------------------------
(* Properties *)

\* A cell whose reset has counted it out, and that has not been given its new
\* value: the next step gives it, or its reset waits for a delete.
Spent(c) ==
  \/ todo # <<>> /\ Head(todo).op \notin {"reset", "count"} /\ Head(todo).cell = c
  \/ \E i \in DOMAIN todo : todo[i] = Count(c)

Counted(c) == IF Spent(c) THEN Null ELSE at[c]

\* What the temporary of a New, Lock or Watch under way holds.
Temporaries(kind) == {i \in DOMAIN todo : todo[i].op = "put" /\ todo[i].cell \in kind}
Temporary == IF Temporaries(Strong) = {} THEN Null
             ELSE todo[CHOOSE i \in Temporaries(Strong) : TRUE].object

\* strong_count is the number of shared pointers that own the object, in
\* the middle of nested destructors too; weak_count is the number of weak
\* ones, less the resets by name, whose cell is counted out a second time
\* when it is assigned or destroyed.
CountsExact ==
  \A o \in Objects :
    /\ strong[o] = Cardinality({c \in Strong : Counted(c) = o})
                   + Cardinality({i \in Temporaries(Strong) : todo[i].object = o})
    /\ weak[o] + resets[o] = Cardinality({w \in Weak : Counted(w) = o})
                   + Cardinality({i \in Temporaries(Weak) : todo[i].object = o})

\* A counter block stays until no pointer leads to it: freed too early it
\* takes lock() and every later copy with it.  Only a reset by name, which
\* leaves the pointer behind, and the re-read after a delete break this.
BlockOutlivesPointers ==
  \A c \in Strong \cup Weak :
    at[c] \in Objects \ block =>
      \/ resets[at[c]] > 0
      \/ \E i \in DOMAIN todo : todo[i] = Count(c)

\* The promise the users of shared_ptr rely on (Ownership): an object lives as
\* long as it is owned, and once nobody owns it nobody will again.
Owners == INSTANCE Ownership WITH
  Cells <- Strong \cup {Unnamed},
  alive <- live,
  owns <- [c \in Strong \cup {Unnamed} |->
             IF c = Unnamed THEN Temporary ELSE Counted(c)]
KeepsPromise == Owners!Spec

\* An object that nobody owns any more is deleted, through whatever nest of
\* destructors, unless a fault stops the kernel first.
Unowned(o) == o \in live /\ strong[o] = 0
UnownedGoes == \A o \in Objects : Unowned(o) ~> (o \notin live \/ fault # "none")
===============================================================================
