------------------------------- MODULE SataPort -------------------------------
(***************************************************************************)
(* One AHCI port of src/src/high/PCI/sata.cpp: the command slots that      *)
(* sendRead and sendWrite fill, the controller that empties them at its own *)
(* pace, and the operations of sata_port_device, which send up to five     *)
(* commands and wait for them.                                             *)
(*                                                                         *)
(* PxCI and PxSERR are shared with the controller, so every access of the  *)
(* driver to them is a step of its own.  The kernel runs one thread, which *)
(* always finds Port::lock free: the lock is left out.  An operation on an *)
(* odd address is one on an even address with a copy, and a write inside   *)
(* one or two sectors is a "read" of one command followed by a "write".    *)
(* What a command transfers is left out but for whose command it is.       *)
(***************************************************************************)
EXTENDS Integers, FiniteSets, Functions

CONSTANTS
  SlotCount,     \* 32 in the code
  QueueCapable,  \* queue_capable, as the disk reports it
  LinkErrors,    \* whether PxSERR may report an error
  Operations     \* the operations that are called

Slots == 0..SlotCount - 1
Regions == 1..3

ASSUME PortAssumption ==
  /\ SlotCount \in Nat \ {0}
  /\ QueueCapable \in BOOLEAN /\ LinkErrors \in BOOLEAN
  /\ Operations \subseteq {"read", "write", "write many"}

VARIABLES
  issued,     \* PxCI: the slots whose command the controller has not finished
  serr,       \* PxSERR is not 0
  scheduled,  \* scheduled_slots
  work,       \* slot |-> the command its table describes
  pc,         \* where the thread is
  op,         \* the operation it runs
  dir,        \* the direction of the commands it sends
  left,       \* the regions it has still to send or to wait for
  request,    \* region |-> the slot of its last command, Refused or NotSent
  seen,       \* what issue_slot read from PxCI
  executed,   \* the operation's commands that the controller has executed
  merged,     \* the end regions that had been read when they were changed
  result      \* what the operation returned

hardware == <<issued, serr, work>>
vars == <<hardware, scheduled, pc, op, dir, left, request, seen, executed, merged, result>>

NotSent == -1
Refused == -2
Directions == {"read", "write"}
Commands == Directions \X Regions

\* The command of an operation that has returned.
Past == <<"read", 0>>

Init ==
  /\ issued = {} /\ serr = FALSE /\ scheduled = {}
  /\ work = [s \in Slots |-> Past]
  /\ pc = "idle" /\ op = "read" /\ dir = "read" /\ left = {}
  /\ request = [r \in Regions |-> NotSent]
  /\ seen = {} /\ executed = {} /\ merged = {} /\ result = "none"

-----------------------------------------------------------------------------
(* The controller *)

\* A command may be executed at any time after its issue, in any order.
Execute(s) ==
  /\ s \in issued
  /\ issued' = issued \ {s}
  /\ executed' = executed \cup ({work[s]} \ {Past})
  /\ UNCHANGED <<serr, work, scheduled, pc, op, dir, left, request, seen, merged, result>>

\* An error on the link: the driver never clears the register again.
LinkError ==
  /\ LinkErrors /\ ~serr
  /\ serr' = TRUE
  /\ UNCHANGED <<issued, work, scheduled, pc, op, dir, left, request, seen, executed,
                 merged, result>>

-----------------------------------------------------------------------------
(* The operations of sata_port_device, up to their first command *)

\* The regions an operation starts with.  A read of one command is the
\* aligned one, or one inside two sectors; otherwise there is a first sector,
\* a middle, and a last sector unless the range ends with one.
StartsWith(o, regions) ==
  \/ o = "read" /\ \E n \in Regions : regions = 1..n
  \/ o = "write" /\ regions = {1}
  \/ o = "write many" /\ regions = {1, 3}

Begin(o) ==
  /\ pc = "idle"
  /\ pc' = "send" /\ op' = o
  /\ dir' = IF o = "write" THEN "write" ELSE "read"
  /\ \E regions \in SUBSET Regions : StartsWith(o, regions) /\ left' = regions
  /\ request' = [r \in Regions |-> NotSent]
  /\ work' = [s \in Slots |-> Past]
  /\ executed' = {} /\ merged' = {} /\ result' = "none"
  /\ UNCHANGED <<issued, serr, scheduled, seen>>

-----------------------------------------------------------------------------
(* sendRead and sendWrite *)

\* The region whose turn it is.
Turn(regions) == CHOOSE r \in regions : \A q \in regions : r <= q

\* The first two commands of a write of many sectors read its ends.
Fetching == op = "write many" /\ dir = "read"

\* What follows the call that sent the command of a region, or refused to:
\* a refusal ends the loop, except between the two reads of a long write.
Answer(slot) ==
  LET r == Turn(left)
      rest == left \ {r}
      goOn == rest # {} /\ (Fetching \/ slot # Refused)
  IN /\ request' = [request EXCEPT ![r] = slot]
     /\ left' = IF goOn THEN rest ELSE Regions
     /\ pc' = IF goOn THEN "send" ELSE IF Fetching THEN "merge" ELSE "wait"

\* check_command_valid refuses; nothing was touched.
Refuse ==
  /\ pc = "send"
  /\ Answer(Refused)
  /\ UNCHANGED <<hardware, scheduled, op, dir, seen, executed, merged, result>>

\* A disk that takes one command at a time is waited for first.
Send ==
  /\ pc = "send"
  /\ pc' = IF QueueCapable THEN "pick" ELSE "drain"
  /\ UNCHANGED <<hardware, scheduled, op, dir, left, request, seen, executed, merged, result>>

\* wait_all.
DrainedOne == issued # Slots                        \* Mutant: a free slot will do.
DrainedUnseen == issued = {} /\ scheduled = {}       \* Mutant: and none marked.
Drained == issued = {}

Drain ==
  /\ pc = "drain" /\ ~serr /\ Drained
  /\ scheduled' = {} /\ pc' = "pick"
  /\ UNCHANGED <<hardware, op, dir, left, request, seen, executed, merged, result>>

DrainFails ==
  /\ pc = "drain" /\ serr
  /\ Answer(Refused)
  /\ UNCHANGED <<hardware, scheduled, op, dir, seen, executed, merged, result>>

\* find_free_slot.  PxCI is read again for every slot, so a slot below the
\* one that is found may have become free in between.
Free == Slots \ (issued \cup scheduled)

\* setup_h2d and setup_physical_region describe the command in the slot.
Pick ==
  /\ pc = "pick"
  /\ \E s \in Free :
       /\ work' = [work EXCEPT ![s] = <<dir, Turn(left)>>]
       /\ request' = [request EXCEPT ![Turn(left)] = s]
  /\ pc' = "read CI"
  /\ UNCHANGED <<issued, serr, scheduled, op, dir, left, seen, executed, merged, result>>

\* NO_RESOURCES without a free slot; with one, setup_physical_region may
\* refuse the buffer (FRAGMENTED_MEMORY, INVALID_MEMORY).
GiveUp ==
  /\ pc = "pick"
  /\ Answer(Refused)
  /\ UNCHANGED <<hardware, scheduled, op, dir, seen, executed, merged, result>>

\* issue_slot reads PxCI ...
ReadCI ==
  /\ pc = "read CI"
  /\ seen' = issued /\ pc' = "write CI"
  /\ UNCHANGED <<hardware, scheduled, op, dir, left, request, executed, merged, result>>

\* ... and writes it back.  Each 1 that is written issues its slot, also one
\* whose command the controller has finished since the read.
WriteCI ==
  /\ pc = "write CI"
  /\ LET s == request[Turn(left)]
     IN /\ issued' = issued \cup seen \cup {s}
        /\ scheduled' = scheduled \cup {s}
        /\ Answer(s)
  /\ seen' = {}
  /\ UNCHANGED <<serr, work, op, dir, executed, merged, result>>

-----------------------------------------------------------------------------
(* A write of many sectors, between its reads and its writes *)

\* The request of the middle region was never made: whether its optional
\* reads as one that holds a value is up to what the stack holds.
Merge ==
  /\ pc = "merge"
  /\ IF Refused \in Range(request)
     THEN pc' = "wait" /\ UNCHANGED <<dir, left, merged>>
     ELSE /\ pc' = "send" /\ dir' = "write"
          /\ left' \in {{1, 3}, Regions}
          /\ merged' = {r \in {1, 3} : <<"read", r>> \in executed}
  /\ UNCHANGED <<hardware, scheduled, op, request, seen, executed, result>>

-----------------------------------------------------------------------------
(* wait_for *)

\* An operation that sent one command waits for it and returns
\* DEVICE_UNAVAILABLE when that fails.  Every other error is a
\* PCI::Sata::error_t, an unscoped enumeration, which the return statement
\* turns into a result that holds a value: the number of the error.
OneCommand == \A r \in {2, 3} : request[r] = NotSent
FailedFirst == request[1] = Refused  \* Mutant: only the first answer counts.
Failed == Refused \in Range(request)

\* The next region, or the return.
Pass ==
  LET rest == left \ {Turn(left)}
  IN /\ left' = rest
     /\ IF rest # {} THEN UNCHANGED <<pc, result>>
        ELSE pc' = "idle" /\ result' = IF Failed THEN "code" ELSE "size"

Skip ==
  /\ pc = "wait" /\ request[Turn(left)] \notin Slots
  /\ Pass
  /\ UNCHANGED <<hardware, scheduled, op, dir, request, seen, executed, merged>>

\* test_done finds the command gone from PxCI.
FinishedByMark(s) == s \in scheduled  \* Mutant: the mark, not the register.
Finished(s) == s \notin issued

UnmarkedNot(s) == scheduled          \* Mutant: the mark stays.
Unmarked(s) == scheduled \ {s}

Done ==
  /\ pc = "wait" /\ request[Turn(left)] \in Slots /\ ~serr
  /\ Finished(request[Turn(left)])
  /\ scheduled' = Unmarked(request[Turn(left)])
  /\ Pass
  /\ UNCHANGED <<hardware, op, dir, request, seen, executed, merged>>

\* test_done finds an error: the operation returns, whatever the controller
\* still has of it.
Fail ==
  /\ pc = "wait" /\ request[Turn(left)] \in Slots /\ serr
  /\ pc' = "idle" /\ left' = {}
  /\ result' = IF OneCommand THEN "error" ELSE "code"
  /\ UNCHANGED <<hardware, scheduled, op, dir, request, seen, executed, merged>>

-----------------------------------------------------------------------------
Step ==
  \/ Refuse \/ Send \/ Drain \/ DrainFails \/ Pick \/ GiveUp \/ ReadCI \/ WriteCI
  \/ Merge \/ Skip \/ Done \/ Fail

Next ==
  \/ \E s \in Slots : Execute(s)
  \/ LinkError
  \/ \E o \in Operations : Begin(o)
  \/ Step

\* The controller executes what was issued and the thread keeps running.
Fairness == (\A s \in Slots : WF_vars(Execute(s))) /\ WF_vars(Step)

Spec == Init /\ [][Next]_vars
FairSpec == Spec /\ Fairness

-----------------------------------------------------------------------------
(* Properties *)

Places == {"idle", "send", "drain", "pick", "read CI", "write CI", "merge", "wait"}

\* Every variable keeps its type; a region waited for is one of the operation.
TypeOK ==
  /\ issued \subseteq Slots /\ scheduled \subseteq Slots /\ seen \subseteq Slots
  /\ serr \in BOOLEAN
  /\ work \in [Slots -> Commands \cup {Past}]
  /\ pc \in Places
  /\ op \in Operations \cup {"read"} /\ dir \in Directions
  /\ left \subseteq Regions /\ (left = {} <=> pc = "idle")
  /\ request \in [Regions -> Slots \cup {NotSent, Refused}]
  /\ executed \subseteq Commands /\ merged \subseteq {1, 3}
  /\ result \in {"none", "size", "code", "error"}

\* While the link is sound, no command is with the controller once the operation
\* has returned: its buffers are on the caller's stack or the caller's own, and
\* the controller would go on writing into them.  It takes the waits for all
\* commands that were sent, and that issue_slot may have issued some of them
\* twice.  With an error in PxSERR it is not so: test_done then fails without a
\* look at PxCI (sata.cpp:498), and the operation returns (56, 119) with its
\* commands under way, into buffers that are gone.
NoDmaAfterReturn == pc = "idle" /\ ~serr => issued = {}

\* A read that returns the size has every region in memory.
ReadDelivers ==
  op = "read" /\ result = "size" =>
    \A r \in Regions : request[r] # NotSent => <<"read", r>> \in executed

\* A slot is given back by the time the operation returns, unless the link
\* failed: scheduled_slots alone decides that it is never used again.
SlotsReturned == pc = "idle" /\ ~serr => scheduled = {}

\* A disk that does not queue has one command at a time.
OneAtATime == ~QueueCapable => Cardinality(issued) <= 1

\* Every operation returns, whether the link fails or not.
OperationEnds == pc # "idle" ~> pc = "idle"
==============================================================================
