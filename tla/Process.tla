------------------------------- MODULE Process -------------------------------
(***************************************************************************)
(* The process tree of CrackOS3 and the system calls that change it:       *)
(* src/src/high/process/process.cpp, include/process/process.h.            *)
(*                                                                         *)
(* A process is owned by the `children' list it stands in (shared_ptr) and *)
(* is only mentioned by `parent', `friends', `pending_adoption' and        *)
(* `adopter' (weak_ptr).  It lives exactly as long as a list owns it.      *)
(*                                                                         *)
(* Every handler runs under one global spinlock with nothing awaited, so a *)
(* system call is one atomic step; the callers' order is free.  A call     *)
(* that the code refuses (it logs an error and returns) changes nothing    *)
(* and is a stuttering step.                                               *)
(***************************************************************************)
EXTENDS Integers, Sequences, FiniteSets, SequencesExt

CONSTANTS
  MaxPid,          \* bound: the last pid the model lets next_pid hand out
  MaxFriendships,  \* bound: friend entries that may exist at a time
  Threads          \* the processes whose thread gets a processor; on today's
                   \* boot only /main runs (scheduler.cpp starts nobody)

Root == 0          \* kernel_process, made first by Main::initProcess
MainPid == 1       \* /main, made by from_elf

Pid == 0..MaxPid
NoPid == MaxPid + 1

ASSUME ProcessAssumption ==
  /\ MaxPid \in Nat /\ MaxPid >= MainPid
  /\ MaxFriendships \in Nat
  /\ Threads \subseteq Pid \ {Root}   \* the root's thread has no code

VARIABLES
  nextPid,    \* next_pid
  live,       \* processes whose object exists
  parent,     \* process.parent: set at creation, never changed
  children,   \* process.children: the owning references
  friends,    \* process.friends
  pending,    \* process.pending_adoption
  adopter,    \* process.adopter, NoPid when never set
  stale,      \* processes whose adopter was reset(): the count is given back
              \* but the pointer stays, and so does what lock() answers
  miscounted, \* processes whose weak_count is below the references to it
  kernel      \* "running", "halted" (panic or fault), "diverged" (endless
              \* recursion), "corrupt" (an object or a control block was
              \* freed while in use: nothing more is claimed)

lists == <<children, friends, pending>>
vars == <<nextPid, live, parent, children, friends, pending, adopter, stale,
          miscounted, kernel>>

-----------------------------------------------------------------------------
(* Descriptors: get_process_by_descriptor *)

Self == [type |-> "SELF"]
Parent == [type |-> "PARENT"]
Number(n) == [type |-> "NUMBER", number |-> n]
Descriptors == {Self, Parent} \cup {Number(n) : n \in Pid}

\* The places of the weak references in a list that still lock, in order:
\* one sequence of indices for every list.
LivePlaces(refs) ==
  {at \in UNION {[1..n -> DOMAIN refs] : n \in 0..Len(refs)} :
     /\ \A k, l \in DOMAIN at : k < l => at[k] < at[l]
     /\ \A i \in DOMAIN refs : refs[i] \in live <=> \E k \in DOMAIN at : at[k] = i}

Kept(refs, at) == [k \in DOMAIN at |-> refs[at[k]]]

\* What one level of a NUMBER look-up compares with n.
Knows(q, n) ==
  \/ n = q
  \/ n \in live /\ n \in {parent[q]} \cup ToSet(children[q])
                             \cup ToSet(friends[q]) \cup ToSet(pending[q])

Locked(refs) == SelectSeq(refs, LAMBDA q : q \in live)

\* Where the search goes on: the children, then the friends that still live.
Below(q) == children[q] \o Locked(friends[q])

\* The depth-first search for n from q, cut off after k levels.  It
\* remembers nobody it visited: a path longer than the number of processes
\* has come back to one of them and never ends.
Search(n) ==
  LET search[k \in 0..MaxPid + 1] ==
        [q \in Pid |->
          IF Knows(q, n) THEN "found"
          ELSE IF k = 0 THEN "diverges"
          ELSE LET below == Below(q)
                   hits == SelectSeq(below,
                                     LAMBDA r : search[k - 1][r] # "absent")
               IN IF hits = <<>> THEN "absent" ELSE search[k - 1][hits[1]]]
  IN search[MaxPid + 1]

\* How a look-up by p ends.  A NUMBER that is found comes back as a new
\* shared_ptr made from the raw pointer, with a control block of its own.
Lookup(p, d) ==
  CASE d.type = "SELF" -> "found"
    [] d.type = "PARENT" -> IF parent[p] \in live THEN "found" ELSE "absent"
    [] d.type = "NUMBER" ->
         LET ends == Search(d.number)[p]
         IN IF ends = "found" THEN "rewrapped" ELSE ends

Target(p, d) == CASE d.type = "SELF" -> p
                  [] d.type = "PARENT" -> parent[p]
                  [] d.type = "NUMBER" -> d.number

\* The process t and all it owns: the least set that holds t and, with a
\* process, the processes in its list.
Owned(kids, t) ==
  {q \in Pid : \A S \in SUBSET Pid :
     (t \in S /\ \A r \in S : ToSet(kids[r]) \subseteq S) => q \in S}

\* A handler whose look-ups of the descriptors ds do not all end with a
\* process or with none.  Endless recursion overruns the kernel stack; a
\* re-wrapped target is deleted when the handler returns, with what it owns,
\* while its owner's list still points to it.
LookupFails(p, ds) ==
  LET rewrapped == {d \in ds : Lookup(p, d) = "rewrapped"}
  IN /\ \E d \in ds : Lookup(p, d) \in {"rewrapped", "diverges"}
     /\ IF \E d \in ds : Lookup(p, d) = "diverges"
        THEN kernel' = "diverged" /\ live' = live
        ELSE /\ kernel' = "corrupt"
             /\ live' = live \ UNION {Owned(children, Target(p, d)) : d \in rewrapped}
     /\ UNCHANGED <<nextPid, parent, children, friends, pending, adopter,
                    stale, miscounted>>

-----------------------------------------------------------------------------
(* adopt *)

\* The processes the "(grand) parent" loop compares the target with: from the
\* target's own parent upwards, as far as parents live, without the root.
Above(t) ==
  LET above[k \in 0..MaxPid] ==
        IF k = 0 THEN IF parent[t] \in live THEN {parent[t]} ELSE {}
        ELSE LET up == {parent[q] : q \in above[k - 1]}
             IN above[k - 1] \cup (up \cap live)
  IN {q \in above[MaxPid] : parent[q] # q}

\* Mutant: "target already has an adopter" is not tested.
HasAdopterUntested(t) == FALSE

HasAdopter(t) == adopter[t] \in live

Adopt(p, d) ==
  \/ LookupFails(p, {d})
  \/ LET t == Target(p, d)
     IN /\ Lookup(p, d) = "found"
        /\ t # p
        /\ t \notin Above(t)
        /\ ~HasAdopter(t)
        /\ adopter' = [adopter EXCEPT ![t] = p]
        /\ stale' = stale \ {t}
        /\ pending' = [pending EXCEPT ![p] = Append(@, t)]
        /\ UNCHANGED <<nextPid, live, parent, children, friends, miscounted,
                       kernel>>

-----------------------------------------------------------------------------
(* make_friend, create_child, list_processes *)

Friendships == UNION {{q} \X DOMAIN friends[q] : q \in Pid}

MakeFriend(p, a, b) ==
  \/ LookupFails(p, {a, b})
  \/ /\ Lookup(p, a) = "found" /\ Lookup(p, b) = "found"
     /\ Cardinality(Friendships) < MaxFriendships
     /\ friends' = [friends EXCEPT ![Target(p, b)] = Append(@, Target(p, a))]
     /\ UNCHANGED <<nextPid, live, parent, children, pending, adopter, stale,
                    miscounted, kernel>>

\* process::process: pid = next_pid++.
PidAfter == nextPid + 1

\* The child gets its pid, its links and a place in the caller's list;
\* scheduler::add_process is empty.  The memory it is given is abstracted to
\* whether there is enough: value_or_panic halts the kernel when not.
CreateChild(p) ==
  /\ nextPid <= MaxPid
  /\ nextPid' = PidAfter
  /\ \/ /\ live' = live \cup {nextPid}
        /\ parent' = [parent EXCEPT ![nextPid] = p]
        /\ children' = [children EXCEPT ![p] = Append(@, nextPid)]
        /\ kernel' = kernel
     \/ /\ kernel' = "halted"
        /\ UNCHANGED <<live, parent, children>>
  /\ UNCHANGED <<friends, pending, adopter, stale, miscounted>>

\* Only cleanup_dead changes state: it leaves the entries of both weak lists
\* that still lock, in order, before they are copied to the caller's buffer.
ListProcesses(p, d) ==
  \/ LookupFails(p, {d})
  \/ LET t == Target(p, d)
     IN /\ Lookup(p, d) = "found"
        /\ \E at \in LivePlaces(friends[t]) :
             friends' = [friends EXCEPT ![t] = Kept(@, at)]
        /\ \E at \in LivePlaces(pending[t]) :
             pending' = [pending EXCEPT ![t] = Kept(@, at)]
        /\ UNCHANGED <<nextPid, live, parent, children, adopter, stale,
                       miscounted, kernel>>

-----------------------------------------------------------------------------
(* disown *)

\* A scan of a list for n finds it at i.
FirstAt(refs, n, i) == refs[i] = n /\ \A j \in 1..i - 1 : refs[j] # n

\* A disown of n stops in a list of weak references at n, or at an entry
\* whose process is dead, for lock() is dereferenced unchecked.
StopsAt(refs, n, i) ==
  /\ refs[i] = n \/ refs[i] \notin live
  /\ \A j \in 1..i - 1 : refs[j] # n /\ refs[j] \in live

\* It runs off the end.
Passes(refs, n) == \A i \in DOMAIN refs : refs[i] # n /\ refs[i] \in live

\* A weak_count that is too small can reach 0 early, and the next reference
\* given back panics ("invalid count").
GivingBack(refs) ==
  IF refs \cap miscounted = {} THEN {"running"} ELSE {"running", "halted"}

\* Mutant: handle_disown looks in the adopter's list of children.
AdoptedByOwner(n) == adopter[n] \in live /\ n \in ToSet(children[adopter[n]])

\* handle_disown finds a living adopter that still waits for n.
Adopted(n) == adopter[n] \in live /\ n \in ToSet(pending[adopter[n]])

\* Some process that survives holds a reference to q's control block.
Mentioned(q, survivors) ==
  \E r \in survivors : \/ q \in {parent[r], adopter[r]}
                       \/ q \in ToSet(friends[r]) \cup ToSet(pending[r])

\* What the kernel may become when the processes in dead are deleted during
\* a call of p.  The thread of the caller may go with them.  A control block
\* with too small a count is given back while still referred to.  A block
\* nobody else refers to is deleted twice, once by the object's own `self'
\* reference and once by reset(); the second delete is harmless unless it
\* was the last cell of its heap page.
Outcomes(p, dead) ==
  IF p \in dead THEN {"corrupt"}
  ELSE IF dead \cap miscounted # {} THEN {"corrupt", "halted"}
  ELSE (IF miscounted = {} THEN {"running"} ELSE {"running", "halted"})
       \cup (IF \A q \in dead : Mentioned(q, live \ dead) THEN {} ELSE {"corrupt"})

\* Mutant: the caller's own list still owns the child.
WithoutForgotten(p, i) == children

\* children.remove(index): the caller's list is left without its entry i.
Without(p, i) == [children EXCEPT ![p] = RemoveAt(@, i)]

\* A process that waits for n takes it over.  Neither `parent' nor `adopter'
\* of n is touched.
HandOver(left, heir, n) ==
  /\ children' = [left EXCEPT ![heir] = Append(@, n)]
  /\ \E k \in DOMAIN pending[heir] :
       /\ FirstAt(pending[heir], n, k)
       /\ pending' = [pending EXCEPT ![heir] = RemoveAt(@, k)]
  /\ UNCHANGED <<live, parent, friends, adopter, stale, kernel>>

\* Nobody owns the processes in dead any more: their objects are deleted.
Kill(p, left, dead) ==
  /\ live' = live \ dead
  /\ children' = [q \in Pid |-> IF q \in dead THEN <<>> ELSE left[q]]
  /\ friends' = [q \in Pid |-> IF q \in dead THEN <<>> ELSE friends[q]]
  /\ pending' = [q \in Pid |-> IF q \in dead THEN <<>> ELSE pending[q]]
  /\ parent' = [q \in Pid |-> IF q \in dead THEN Root ELSE parent[q]]
  /\ adopter' = [q \in Pid |-> IF q \in dead THEN NoPid ELSE adopter[q]]
  /\ stale' = stale \ dead
  /\ kernel' \in Outcomes(p, dead)

\* The caller disowns its child n.
DisownChild(p, n) ==
  \E i \in DOMAIN children[p] :
    LET left == Without(p, i)
    IN /\ FirstAt(children[p], n, i)
       /\ IF Adopted(n) THEN HandOver(left, adopter[n], n)
                        ELSE Kill(p, left, Owned(left, n))
       /\ UNCHANGED <<nextPid, miscounted>>

DisownFriend(p, n) ==
  \E i \in DOMAIN friends[p] :
    /\ n \notin ToSet(children[p])
    /\ StopsAt(friends[p], n, i) /\ friends[p][i] \in live
    /\ friends' = [friends EXCEPT ![p] = RemoveAt(@, i)]
    /\ kernel' \in GivingBack({n})
    /\ UNCHANGED <<nextPid, live, parent, children, pending, adopter, stale,
                   miscounted>>

\* The adoption is called off.  weak_ptr::reset gives the count back and
\* keeps the pointer, so the target's adopter still locks.
DisownPending(p, n) ==
  \E i \in DOMAIN pending[p] :
    /\ n \notin ToSet(children[p]) /\ Passes(friends[p], n)
    /\ StopsAt(pending[p], n, i) /\ pending[p][i] \in live
    /\ pending' = [pending EXCEPT ![p] = RemoveAt(@, i)]
    /\ stale' = stale \cup {n}
    /\ miscounted' = miscounted \cup ({adopter[n]} \ {NoPid})
    /\ kernel' \in GivingBack({n, adopter[n]})
    /\ UNCHANGED <<nextPid, live, parent, children, friends, adopter>>

\* The scan of a weak list meets a dead entry first: a null pointer is read.
DisownFaults(p, n) ==
  /\ n \notin ToSet(children[p])
  /\ \E refs \in {friends[p], pending[p]} :
       /\ refs = friends[p] \/ Passes(friends[p], n)
       /\ \E i \in DOMAIN refs : StopsAt(refs, n, i) /\ refs[i] \notin live
  /\ kernel' = "halted"
  /\ UNCHANGED <<nextPid, live, parent, lists, adopter, stale, miscounted>>

\* SHORT descriptors are refused.
Disown(p, n) == \/ DisownChild(p, n) \/ DisownFriend(p, n)
                \/ DisownPending(p, n) \/ DisownFaults(p, n)

-----------------------------------------------------------------------------
\* initProcess: the root is its own parent, and /main its first child.
Init ==
  /\ nextPid = MainPid + 1
  /\ live = {Root, MainPid}
  /\ parent = [q \in Pid |-> Root]
  /\ children = [q \in Pid |-> IF q = Root THEN <<MainPid>> ELSE <<>>]
  /\ friends = [q \in Pid |-> <<>>]
  /\ pending = [q \in Pid |-> <<>>]
  /\ adopter = [q \in Pid |-> NoPid]
  /\ stale = {} /\ miscounted = {}
  /\ kernel = "running"

\* syscall_handler, on behalf of the thread of a process that lives.
Syscall(p) ==
  /\ kernel = "running" /\ p \in live
  /\ \/ \E n \in Pid : Disown(p, n)
     \/ \E d \in Descriptors : Adopt(p, d)
     \/ \E a, b \in Descriptors : MakeFriend(p, a, b)
     \/ CreateChild(p)
     \/ \E d \in Descriptors : ListProcesses(p, d)

\* A kernel that panicked or ran away never serves another call.
Stopped == kernel # "running" /\ UNCHANGED vars

Next == (\E p \in Threads : Syscall(p)) \/ Stopped
Spec == Init /\ [][Next]_vars

-----------------------------------------------------------------------------
(* Properties *)

\* Every variable keeps its type, and only pids handed out are alive.
TypeOK ==
  /\ nextPid \in MainPid + 1..MaxPid + 1
  /\ live \in SUBSET (0..nextPid - 1)
  /\ parent \in [Pid -> Pid]
  /\ children \in [Pid -> Seq(Pid)]
  /\ friends \in [Pid -> Seq(Pid)]
  /\ pending \in [Pid -> Seq(Pid)]
  /\ adopter \in [Pid -> Pid \cup {NoPid}]
  /\ stale \in SUBSET Pid
  /\ miscounted \in SUBSET Pid
  /\ kernel \in {"running", "halted", "diverged", "corrupt"}

Running == kernel = "running"

\* Through every order of creating, adopting, disowning and handing over,
\* each live process but the root stands in exactly one place of the tree,
\* and no list owns a dead one: an object is deleted once, when its one
\* owner lets go of it (shared_ptr in `children', handle_disown, disown).
HasOwner == \A q \in live \ {Root} : \E p \in live : q \in ToSet(children[p])
OwnedOnce ==
  \A p, q \in live : \A i \in DOMAIN children[p], j \in DOMAIN children[q] :
    children[p][i] = children[q][j] => p = q /\ i = j
OwnedLive == \A p \in live : ToSet(children[p]) \subseteq live \ {Root}
DeadOwnNothing == \A p \in Pid \ live : children[p] = <<>>
SoleOwner ==
  Running => /\ Root \in live
             /\ HasOwner /\ OwnedOnce /\ OwnedLive /\ DeadOwnNothing

\* An adoption that is waiting is known on both sides: a live process that
\* stands in a live process's pending list stands there once and has that
\* process for its adopter, not called off.  handle_disown finds the heir
\* from one side and removes the entry on the other.
PendingMatchesAdopter ==
  Running =>
    \A p \in live : \A i \in DOMAIN pending[p] :
      LET c == pending[p][i]
      IN c \in live =>
           /\ adopter[c] = p /\ c \notin stale
           /\ \A j \in DOMAIN pending[p] : pending[p][j] = c => j = i

\* Whoever owns a process is the one that made it or the last one that
\* asked to adopt it, although handle_disown updates neither link.
OwnerIsParentOrAdopter ==
  Running => \A p \in live : \A i \in DOMAIN children[p] :
               p \in {parent[children[p][i]], adopter[children[p][i]]}

Waits(c) == \E p \in live : adopter[c] = p /\ c \in ToSet(pending[p])

\* No call deletes a process that waits to be adopted by a live process,
\* unless its owner dies too: when the owner lets go of it, it is alive
\* afterwards in the adopter's list (syscall_data.h:15).
AdoptedSurvives ==
  [][\A o \in live : \A i \in DOMAIN children[o] :
       LET c == children[o][i]
       IN Waits(c) /\ o \in live' /\ kernel' = "running" =>
            /\ c \in live'
            /\ \E q \in {o, adopter[c]} : c \in ToSet(children'[q])]_vars
==============================================================================
