----------------------------- MODULE Storage_proofs -----------------------------
(***************************************************************************)
(* Proofs about SataPort for every number of slots, for disks that queue   *)
(* and disks that do not.  The type invariant holds of every operation;    *)
(* that nothing is under way after the return holds while the link is      *)
(* sound and no write of many sectors is made: such a one replaces the     *)
(* slots of its reads before it waited for them (Merge).                   *)
(*                                                                         *)
(* Then, from the line "Numbers" on, proofs about SataDevice, for every    *)
(* size of sector, page, disk and descriptor table: which bytes a read and *)
(* a write move.  And last, from "The functions over entries" on, proofs   *)
(* about FileSystem, for every machine, directory tree and path: what the  *)
(* scan mounts, what open finds and what a read of a file returns.         *)
(***************************************************************************)
EXTENDS SataPort, SataDevice, FileSystem, FiniteSetTheorems, SequenceTheorems,
        WellFoundedInduction, TLAPS

\* While a command is issued its region has a slot.
InSlot == pc \in {"read CI", "write CI"} => request[Turn(left)] \in Slots

Typed == TypeOK /\ InSlot

\* The slots that the operation will still wait for: all it has used, until
\* it has begun to wait.
Awaited == IF pc \in {"wait", "idle"} THEN left ELSE Regions
Held == {s \in Slots : \E r \in Awaited : request[r] = s}

\* A region whose turn is still to come has no slot to lose.
Unsent ==
  pc \notin {"wait", "idle"} =>
    \A r \in left : request[r] = NotSent \/ (r = Turn(left) /\ pc \in {"read CI", "write CI"})

\* Every slot in use will be waited for, those that a second write of PxCI
\* issues again included.
NothingLost ==
  /\ op # "write many" /\ pc # "merge" /\ ~serr
  /\ Unsent
  /\ pc # "write CI" => seen = {}
  /\ issued \subseteq Held /\ seen \subseteq Held /\ scheduled \subseteq Held

\* A region without a slot is told from one with a slot.
LEMMA NoSlot == NotSent \notin Slots
<1>1. SlotCount \in Nat BY PortAssumption DEF PortAssumption
<1>. QED BY <1>1 DEF NotSent, Slots

LEMMA EndRegions == 1 \in Regions /\ 3 \in Regions
BY DEF Regions

\* The loops over regions take one that is left.
LEMMA TurnLeft ==
  ASSUME NEW S \in SUBSET Regions, S # {}
  PROVE  Turn(S) \in S
<1>1. Regions = {1, 2, 3} BY DEF Regions
<1>2. \E r \in S : \A q \in S : r <= q
  <2>. S \subseteq {1, 2, 3} BY <1>1
  <2>1. CASE 1 \in S BY <2>1
  <2>2. CASE 1 \notin S /\ 2 \in S BY <2>2
  <2>3. CASE 1 \notin S /\ 2 \notin S
    <3>1. S = {3} BY <2>3
    <3>. QED BY <3>1
  <2>. QED BY <2>1, <2>2, <2>3
<1>. QED BY <1>2 DEF Turn

\* An operation starts with at least one region.
LEMMA FirstAreRegions ==
  ASSUME NEW o, NEW S, StartsWith(o, S)
  PROVE  S # {}
<1>1. CASE \E n \in Regions : S = 1..n
  <2>1. PICK n \in Regions : S = 1..n BY <1>1
  <2>2. n \in 1..n BY DEF Regions
  <2>. QED BY <2>1, <2>2
<1>2. CASE S = {1} BY <1>2
<1>3. CASE S = {1, 3} BY <1>3
<1>. QED BY <1>1, <1>2, <1>3 DEF StartsWith

\* Whatever the answer, the operation has a region to go on with.
LEMMA AnswerTypes ==
  ASSUME TypeOK, pc # "idle", NEW taken \in Slots \cup {NotSent, Refused}, Answer(taken)
  PROVE  /\ request' \in [Regions -> Slots \cup {NotSent, Refused}]
         /\ left' \in SUBSET Regions /\ left' # {}
         /\ pc' \in {"send", "merge", "wait"}
<1>1. left \in SUBSET Regions /\ left # {} BY DEF TypeOK
<1>2. Turn(left) \in Regions BY <1>1, TurnLeft
<1>3. request' \in [Regions -> Slots \cup {NotSent, Refused}]
  BY <1>2 DEF Answer, TypeOK
<1>4. left' \in SUBSET Regions /\ left' # {}
  <2>1. 1 \in Regions BY DEF Regions
  <2>. QED BY <1>1, <2>1 DEF Answer
<1>5. pc' \in {"send", "merge", "wait"} BY DEF Answer
<1>. QED BY <1>3, <1>4, <1>5

\* A wait that is over leaves a region, or the operation returns.
LEMMA PassTypes ==
  ASSUME TypeOK, pc = "wait", Pass
  PROVE  /\ left' \in SUBSET Regions
         /\ (left' = {} <=> pc' = "idle")
         /\ pc' \in {"idle", "wait"}
         /\ result' \in {"none", "size", "code", "error"}
BY DEF Pass, TypeOK

\* Each step of the thread keeps the types.
LEMMA StepTypes ==
  ASSUME PortAssumption, Typed, Step
  PROVE  Typed'
<1>. USE DEF hardware
<1>. TypeOK /\ InSlot BY DEF Typed
<1>1. CASE Refuse
  <2>1. Answer(Refused) /\ pc # "idle" BY <1>1 DEF Refuse
  <2>2. pc' \in Places /\ pc' \notin {"idle", "read CI", "write CI"}
    BY <2>1, AnswerTypes DEF Places
  <2>. QED BY <1>1, <2>1, <2>2, AnswerTypes DEF Refuse, TypeOK, Typed, InSlot
<1>2. CASE Send
  <2>1. pc' \in Places /\ pc' \notin {"idle", "read CI", "write CI"} /\ pc # "idle"
    BY <1>2 DEF Send, Places
  <2>. QED BY <1>2, <2>1 DEF Send, TypeOK, Typed, InSlot
<1>3. CASE Drain
  <2>1. pc' \in Places /\ pc' \notin {"idle", "read CI", "write CI"} /\ pc # "idle"
    BY <1>3 DEF Drain, Places
  <2>. QED BY <1>3, <2>1 DEF Drain, TypeOK, Typed, InSlot
<1>4. CASE DrainFails
  <2>1. Answer(Refused) /\ pc # "idle" BY <1>4 DEF DrainFails
  <2>2. pc' \in Places /\ pc' \notin {"idle", "read CI", "write CI"}
    BY <2>1, AnswerTypes DEF Places
  <2>. QED BY <1>4, <2>1, <2>2, AnswerTypes DEF DrainFails, TypeOK, Typed, InSlot
<1>5. CASE Pick
  <2>1. pc' \in Places /\ pc' # "idle" /\ pc # "idle" BY <1>5 DEF Pick, Places
  <2>2. Turn(left) \in Regions BY <2>1, TurnLeft DEF TypeOK
  <2>3. <<dir, Turn(left)>> \in Commands BY <2>2 DEF TypeOK, Commands
  <2>4. PICK s \in Slots : /\ work' = [work EXCEPT ![s] = <<dir, Turn(left)>>]
                           /\ request' = [request EXCEPT ![Turn(left)] = s]
    BY <1>5 DEF Pick, Free
  <2>5. work' \in [Slots -> Commands \cup {Past}] BY <2>3, <2>4 DEF TypeOK
  <2>6. request' \in [Regions -> Slots \cup {NotSent, Refused}]
    BY <2>2, <2>4 DEF TypeOK
  <2>7. TypeOK' BY <1>5, <2>1, <2>5, <2>6 DEF Pick, TypeOK
  <2>8. request'[Turn(left)] = s BY <2>2, <2>4 DEF TypeOK
  <2>9. left' = left BY <1>5 DEF Pick
  <2>10. InSlot' BY <2>8, <2>9 DEF InSlot
  <2>. QED BY <2>7, <2>10 DEF Typed
<1>6. CASE GiveUp
  <2>1. Answer(Refused) /\ pc # "idle" BY <1>6 DEF GiveUp
  <2>2. pc' \in Places /\ pc' \notin {"idle", "read CI", "write CI"}
    BY <2>1, AnswerTypes DEF Places
  <2>. QED BY <1>6, <2>1, <2>2, AnswerTypes DEF GiveUp, TypeOK, Typed, InSlot
<1>7. CASE ReadCI
  <2>1. pc' \in Places /\ pc' # "idle" /\ pc # "idle" BY <1>7 DEF ReadCI, Places
  <2>2. InSlot' BY <1>7 DEF ReadCI, InSlot
  <2>. QED BY <1>7, <2>1, <2>2 DEF ReadCI, TypeOK, Typed
<1>8. CASE WriteCI
  <2>. DEFINE s == request[Turn(left)]
  <2>1. s \in Slots /\ pc # "idle" /\ Answer(s) BY <1>8 DEF WriteCI, InSlot
  <2>2. pc' \in Places /\ pc' \notin {"idle", "read CI", "write CI"}
    BY <2>1, AnswerTypes DEF Places
  <2>3. issued' \subseteq Slots /\ scheduled' \subseteq Slots
    BY <1>8, <2>1 DEF WriteCI, TypeOK
  <2>. HIDE DEF s
  <2>. QED BY <1>8, <2>1, <2>2, <2>3, AnswerTypes DEF WriteCI, TypeOK, Typed, InSlot
<1>9. CASE Merge
  <2>1. pc' \in Places /\ pc' \notin {"idle", "read CI", "write CI"} /\ pc # "idle"
    BY <1>9 DEF Merge, Places
  <2>2. left' \in SUBSET Regions /\ left' # {}
    <3>1. 1 \in Regions /\ 3 \in Regions BY EndRegions
    <3>2. left \in SUBSET Regions /\ left # {} BY <2>1 DEF TypeOK
    <3>3. left' = left \/ left' = {1, 3} \/ left' = Regions BY <1>9 DEF Merge
    <3>. QED BY <3>1, <3>2, <3>3
  <2>3. merged' \subseteq {1, 3} /\ dir' \in Directions
    BY <1>9 DEF Merge, TypeOK, Directions
  <2>. QED BY <1>9, <2>1, <2>2, <2>3 DEF Merge, TypeOK, Typed, InSlot
<1>10. CASE Skip
  <2>1. Pass /\ pc = "wait" BY <1>10 DEF Skip
  <2>2. pc' \in Places /\ pc' \notin {"read CI", "write CI"} BY <2>1, PassTypes DEF Places
  <2>. QED BY <1>10, <2>1, <2>2, PassTypes DEF Skip, TypeOK, Typed, InSlot
<1>11. CASE Done
  <2>1. Pass /\ pc = "wait" BY <1>11 DEF Done
  <2>2. pc' \in Places /\ pc' \notin {"read CI", "write CI"} BY <2>1, PassTypes DEF Places
  <2>3. scheduled' \subseteq Slots BY <1>11 DEF Done, Unmarked, TypeOK
  <2>. QED BY <1>11, <2>1, <2>2, <2>3, PassTypes DEF Done, TypeOK, Typed, InSlot
<1>12. CASE Fail
  <2>1. pc' \in Places /\ pc' = "idle" /\ left' = {} BY <1>12 DEF Fail, Places
  <2>2. result' \in {"none", "size", "code", "error"} BY <1>12 DEF Fail
  <2>. QED BY <1>12, <2>1, <2>2 DEF Fail, TypeOK, Typed, InSlot
<1>. QED BY <1>1, <1>2, <1>3, <1>4, <1>5, <1>6, <1>7, <1>8, <1>9, <1>10, <1>11, <1>12
     DEF Step

LEMMA BeginTypes ==
  ASSUME PortAssumption, Typed, NEW o \in Operations, Begin(o)
  PROVE  Typed'
<1>. USE DEF hardware
<1>. TypeOK /\ InSlot BY DEF Typed
<1>1. left' \in SUBSET Regions /\ left' # {} BY FirstAreRegions DEF Begin
<1>2. pc' \in Places /\ pc' \notin {"idle", "read CI", "write CI"} BY DEF Begin, Places
<1>3. dir' \in Directions BY DEF Begin, Directions
<1>4. request' \in [Regions -> Slots \cup {NotSent, Refused}] BY DEF Begin
<1>5. work' \in [Slots -> Commands \cup {Past}] BY DEF Begin
<1>. QED BY <1>1, <1>2, <1>3, <1>4, <1>5 DEF Begin, TypeOK, Typed, InSlot

\* And so does every step of the system.
LEMMA TypesKept ==
  ASSUME Typed, [Next]_vars
  PROVE  Typed'
<1>. USE PortAssumption DEF hardware
<1>1. CASE Step BY <1>1, StepTypes
<1>2. ASSUME NEW o \in Operations, Begin(o) PROVE Typed' BY <1>2, BeginTypes
<1>3. ASSUME NEW s \in Slots, Execute(s) PROVE Typed'
  <2>1. executed' \subseteq Commands BY <1>3 DEF Execute, Typed, TypeOK
  <2>2. issued' \subseteq Slots BY <1>3 DEF Execute, Typed, TypeOK
  <2>. QED BY <1>3, <2>1, <2>2 DEF Execute, Typed, TypeOK, InSlot
<1>4. CASE LinkError BY <1>4 DEF LinkError, Typed, TypeOK, InSlot
<1>5. CASE UNCHANGED vars BY <1>5 DEF vars, Typed, TypeOK, InSlot
<1>. QED BY <1>1, <1>2, <1>3, <1>4, <1>5 DEF Next

\* PortTypeCorrect: every variable of the port keeps its type, for any number
\* of slots, any disk and any operations.
THEOREM PortTypeCorrect == Spec => []TypeOK
<1>. USE PortAssumption DEF hardware
<1>1. Init => Typed
  <2>. SUFFICES ASSUME Init PROVE Typed OBVIOUS
  <2>1. pc \in Places /\ pc = "idle" BY DEF Init, Places
  <2>2. dir \in Directions BY DEF Init, Directions
  <2>. QED BY <2>1, <2>2 DEF Init, Typed, TypeOK, InSlot
<1>2. Typed /\ [Next]_vars => Typed' BY TypesKept
<1>3. Typed => TypeOK BY DEF Typed
<1>. QED BY <1>1, <1>2, <1>3, PTL DEF Spec

-----------------------------------------------------------------------------
(* Nothing is lost: the inductive invariant behind NoDmaAfterReturn *)

\* A call that sent a command, or that failed before it touched a slot, leaves
\* the slots in use among those that will be waited for.
LEMMA AnswerHolds ==
  ASSUME Typed, NothingLost, pc \notin {"idle", "wait"},
         NEW taken \in Slots \cup {Refused}, Answer(taken), op' = op,
         request[Turn(left)] \in {NotSent, taken}
  PROVE  /\ Held \subseteq Held'
         /\ taken \in Slots => taken \in Held'
         /\ Unsent' /\ pc' \in {"send", "wait"}
<1>. TypeOK /\ op # "write many" /\ Unsent BY DEF Typed, NothingLost
<1>1. left \in SUBSET Regions /\ left # {} BY DEF TypeOK
<1>2. Turn(left) \in Regions /\ Turn(left) \in left BY <1>1, TurnLeft
<1>3. request' = [request EXCEPT ![Turn(left)] = taken] BY DEF Answer
<1>4. request'[Turn(left)] = taken BY <1>2, <1>3 DEF TypeOK
<1>5. \A r \in Regions : r # Turn(left) => request'[r] = request[r]
  BY <1>3 DEF TypeOK
<1>6. pc' = "send" \/ (pc' = "wait" /\ left' = Regions)
  BY DEF Answer, Fetching
<1>7. Awaited = Regions /\ Awaited' = Regions BY <1>6 DEF Awaited
<1>8. NotSent \notin Slots BY NoSlot
<1>9. Held \subseteq Held'
  <2>. SUFFICES ASSUME NEW s \in Held PROVE s \in Held' OBVIOUS
  <2>1. PICK r \in Regions : request[r] = s BY <1>7 DEF Held
  <2>2. s \in Slots BY DEF Held
  <2>3. request'[r] = s BY <1>4, <1>5, <1>8, <2>1, <2>2
  <2>. QED BY <1>7, <2>2, <2>3 DEF Held
<1>10. taken \in Slots => taken \in Held' BY <1>2, <1>4, <1>7 DEF Held
<1>11. Unsent'
  <2>1. CASE pc' = "send"
    <3>1. left' = left \ {Turn(left)}  BY <2>1 DEF Answer, Fetching
    <3>. QED BY <1>1, <1>5, <2>1, <3>1 DEF Unsent
  <2>. QED BY <1>6, <2>1 DEF Unsent
<1>. QED BY <1>6, <1>9, <1>10, <1>11

\* A wait that passes a region loses at most that region's slot.
LEMMA PassHolds ==
  ASSUME Typed, NothingLost, pc = "wait", Pass, request' = request,
         NEW S, S \subseteq Held, request[Turn(left)] \notin S
  PROVE  S \subseteq Held'
<1>1. left' = left \ {Turn(left)} /\ pc' \in {"wait", "idle"} BY DEF Pass
<1>2. Awaited = left /\ Awaited' = left \ {Turn(left)} BY <1>1 DEF Awaited
<1>. QED BY <1>2 DEF Held

LEMMA StepHolds ==
  ASSUME PortAssumption, Typed, NothingLost, Step
  PROVE  NothingLost'
<1>. USE DEF hardware
<1>. TypeOK /\ InSlot BY DEF Typed
<1>. op # "write many" /\ pc # "merge" /\ ~serr /\ Unsent BY DEF NothingLost
<1>a. pc # "idle" => left \in SUBSET Regions /\ left # {} BY DEF TypeOK
<1>b. pc # "idle" => Turn(left) \in left BY <1>a, TurnLeft
<1>1. CASE Refuse
  <2>1. Answer(Refused) /\ pc = "send" /\ request[Turn(left)] = NotSent
    BY <1>1, <1>b DEF Refuse, Unsent
  <2>2. /\ Held \subseteq Held' /\ Unsent' /\ pc' \in {"send", "wait"}
    BY <1>1, <2>1, AnswerHolds DEF Refuse
  <2>. QED BY <1>1, <2>1, <2>2 DEF Refuse, NothingLost
<1>2. CASE Send
  <2>1. pc' \in {"pick", "drain"} /\ pc = "send" BY <1>2 DEF Send
  <2>2. Held' = Held BY <1>2, <2>1 DEF Send, Held, Awaited
  <2>3. Unsent' BY <1>2, <2>1 DEF Send, Unsent
  <2>. QED BY <1>2, <2>1, <2>2, <2>3 DEF Send, NothingLost
<1>3. CASE Drain
  <2>1. pc' = "pick" /\ pc = "drain" BY <1>3 DEF Drain
  <2>2. Held' = Held BY <1>3, <2>1 DEF Drain, Held, Awaited
  <2>3. Unsent' BY <1>3, <2>1 DEF Drain, Unsent
  <2>. QED BY <1>3, <2>1, <2>2, <2>3 DEF Drain, NothingLost
<1>4. CASE DrainFails BY <1>4 DEF DrainFails
<1>5. CASE Pick
  <2>1. pc' = "read CI" /\ pc = "pick" /\ left' = left BY <1>5 DEF Pick
  <2>2. PICK s \in Slots : request' = [request EXCEPT ![Turn(left)] = s]
    BY <1>5 DEF Pick, Free
  <2>3. request[Turn(left)] = NotSent BY <1>b, <2>1 DEF Unsent
  <2>4. \A r \in Regions : r # Turn(left) => request'[r] = request[r]
    BY <2>2 DEF TypeOK
  <2>5. NotSent \notin Slots BY NoSlot
  <2>6. \A r \in Regions : request[r] \in Slots => request'[r] = request[r]
    BY <2>3, <2>4, <2>5
  <2>7. Held \subseteq Held' BY <2>1, <2>6 DEF Held, Awaited
  <2>8. Unsent' BY <1>a, <2>1, <2>4 DEF Unsent
  <2>. QED BY <1>5, <2>1, <2>7, <2>8 DEF Pick, NothingLost
<1>6. CASE GiveUp
  <2>1. Answer(Refused) /\ pc = "pick" /\ request[Turn(left)] = NotSent
    BY <1>6, <1>b DEF GiveUp, Unsent
  <2>2. /\ Held \subseteq Held' /\ Unsent' /\ pc' \in {"send", "wait"}
    BY <1>6, <2>1, AnswerHolds DEF GiveUp
  <2>. QED BY <1>6, <2>1, <2>2 DEF GiveUp, NothingLost
<1>7. CASE ReadCI
  <2>1. pc' = "write CI" /\ pc = "read CI" BY <1>7 DEF ReadCI
  <2>2. Held' = Held BY <1>7, <2>1 DEF ReadCI, Held, Awaited
  <2>3. Unsent' BY <1>7, <2>1 DEF ReadCI, Unsent
  <2>. QED BY <1>7, <2>1, <2>2, <2>3 DEF ReadCI, NothingLost
<1>8. CASE WriteCI
  <2>. DEFINE s == request[Turn(left)]
  <2>1. s \in Slots /\ pc = "write CI" /\ Answer(s) BY <1>8 DEF WriteCI, InSlot
  <2>2. /\ Held \subseteq Held' /\ s \in Held' /\ Unsent' /\ pc' \in {"send", "wait"}
    BY <1>8, <2>1, AnswerHolds DEF WriteCI
  <2>3. issued' \subseteq Held' /\ scheduled' \subseteq Held' /\ seen' = {}
    BY <1>8, <2>2 DEF WriteCI, NothingLost
  <2>. HIDE DEF s
  <2>. QED BY <1>8, <2>2, <2>3 DEF WriteCI, NothingLost
<1>9. CASE Merge BY <1>9 DEF Merge
<1>10. CASE Skip
  <2>1. Pass /\ pc = "wait" /\ request' = request /\ request[Turn(left)] \notin Slots
    BY <1>10 DEF Skip
  <2>2. request[Turn(left)] \notin Held BY <2>1 DEF Held
  <2>3. Held \subseteq Held' BY <2>1, <2>2, PassHolds
  <2>4. pc' \in {"idle", "wait"} BY <2>1, PassTypes
  <2>. QED BY <1>10, <2>1, <2>3, <2>4 DEF Skip, NothingLost, Unsent
<1>11. CASE Done
  <2>1. Pass /\ pc = "wait" /\ request' = request BY <1>11 DEF Done
  <2>2. request[Turn(left)] \notin issued BY <1>11 DEF Done, Finished
  <2>3. issued \subseteq Held' BY <2>1, <2>2, PassHolds DEF NothingLost
  <2>4. scheduled' = scheduled \ {request[Turn(left)]} BY <1>11 DEF Done, Unmarked
  <2>5. scheduled' \subseteq Held /\ request[Turn(left)] \notin scheduled'
    BY <2>4 DEF NothingLost
  <2>6. scheduled' \subseteq Held' BY <2>1, <2>5, PassHolds
  <2>7. pc' \in {"idle", "wait"} BY <2>1, PassTypes
  <2>8. seen' = {} BY <1>11, <2>1 DEF Done, NothingLost
  <2>. QED BY <1>11, <2>1, <2>3, <2>6, <2>7, <2>8 DEF Done, NothingLost, Unsent
<1>12. CASE Fail BY <1>12 DEF Fail
<1>. QED BY <1>1, <1>2, <1>3, <1>4, <1>5, <1>6, <1>7, <1>8, <1>9, <1>10, <1>11, <1>12
     DEF Step

LEMMA BeginHolds ==
  ASSUME "write many" \notin Operations, Typed, NothingLost,
         NEW o \in Operations, Begin(o)
  PROVE  NothingLost'
<1>1. pc = "idle" /\ left = {} BY DEF Begin, Typed, TypeOK
<1>2. Held = {} BY <1>1 DEF Held, Awaited
<1>3. issued = {} /\ scheduled = {} /\ seen = {} BY <1>1, <1>2 DEF NothingLost
<1>4. pc' = "send" /\ op' # "write many" /\ ~serr' BY DEF Begin, NothingLost
<1>5. Unsent'
  <2>1. left' \subseteq Regions BY DEF Begin
  <2>2. \A r \in Regions : request'[r] = NotSent BY DEF Begin
  <2>. QED BY <2>1, <2>2 DEF Unsent
<1>. QED BY <1>3, <1>4, <1>5 DEF Begin, NothingLost

\* PortQuiet: for any number of slots, on a disk that queues as on one that
\* does not, no command is under way and no slot is marked once a read or a
\* write of one command has returned, unless the register reports an error on
\* the link.  The register is never cleared, so what the waits have left
\* behind after an error needs no invariant.
THEOREM PortQuiet ==
  ASSUME "write many" \notin Operations
  PROVE  Spec => [](NoDmaAfterReturn /\ SlotsReturned)
<1>. USE PortAssumption DEF hardware
<1>. DEFINE Inv == Typed /\ (serr \/ NothingLost)
<1>1. Init => Inv
  <2>. SUFFICES ASSUME Init PROVE Inv OBVIOUS
  <2>1. pc \in Places /\ pc = "idle" BY DEF Init, Places
  <2>2. dir \in Directions BY DEF Init, Directions
  <2>3. Typed BY <2>1, <2>2 DEF Init, Typed, TypeOK, InSlot
  <2>. QED BY <2>3 DEF Init, NothingLost, Unsent
<1>2. Inv /\ [Next]_vars => Inv'
  <2>. SUFFICES ASSUME Inv, [Next]_vars PROVE Inv' OBVIOUS
  <2>1. Typed' BY TypesKept
  <2>2. serr => serr'
    BY DEF Next, Step, vars, Execute, LinkError, Begin, Refuse, Send, Drain, DrainFails, Pick,
           GiveUp, ReadCI, WriteCI, Merge, Skip, Done, Fail
  <2>3. NothingLost => serr' \/ NothingLost'
    <3>. SUFFICES ASSUME NothingLost PROVE serr' \/ NothingLost' OBVIOUS
    <3>1. CASE Step BY <3>1, StepHolds
    <3>2. ASSUME NEW o \in Operations, Begin(o) PROVE NothingLost' BY <3>2, BeginHolds
    <3>3. ASSUME NEW s \in Slots, Execute(s) PROVE NothingLost'
      <4>1. Held' = Held BY <3>3 DEF Execute, Held, Awaited
      <4>2. Unsent' BY <3>3 DEF Execute, NothingLost, Unsent
      <4>. QED BY <3>3, <4>1, <4>2 DEF Execute, NothingLost
    <3>4. CASE LinkError BY <3>4 DEF LinkError
    <3>5. CASE UNCHANGED vars
      <4>1. Held' = Held /\ Unsent' BY <3>5 DEF vars, Held, Awaited, NothingLost, Unsent
      <4>. QED BY <3>5, <4>1 DEF vars, NothingLost
    <3>. QED BY <3>1, <3>2, <3>3, <3>4, <3>5 DEF Next
  <2>. QED BY <2>1, <2>2, <2>3
<1>3. Inv => NoDmaAfterReturn /\ SlotsReturned
  BY DEF Typed, TypeOK, NothingLost, Held, Awaited, NoDmaAfterReturn, SlotsReturned
<1>. QED BY <1>1, <1>2, <1>3, PTL DEF Spec

-----------------------------------------------------------------------------
(* One command at a time: wait_all comes before every issue *)

\* From the wait for all commands to the write of PxCI nothing is issued, so
\* the value written back is empty but for the new slot.
Alone ==
  ~QueueCapable =>
    /\ issued = {} \/ \E s \in Slots : issued = {s}
    /\ pc \in {"pick", "read CI", "write CI"} => issued = {}
    /\ seen = {}

\* Whatever the answer, the thread is not between the wait and the issue.
LEMMA AnswerLeaves ==
  ASSUME NEW taken, Answer(taken)
  PROVE  pc' \notin {"pick", "read CI", "write CI"}
BY DEF Answer

LEMMA StepAlone ==
  ASSUME Typed, Alone, ~QueueCapable, Step
  PROVE  Alone'
<1>. USE DEF hardware
<1>1. CASE Refuse BY <1>1, AnswerLeaves DEF Refuse, Alone
<1>2. CASE Send BY <1>2 DEF Send, Alone
<1>3. CASE Drain BY <1>3 DEF Drain, Drained, Alone
<1>4. CASE DrainFails BY <1>4, AnswerLeaves DEF DrainFails, Alone
<1>5. CASE Pick BY <1>5 DEF Pick, Alone
<1>6. CASE GiveUp BY <1>6, AnswerLeaves DEF GiveUp, Alone
<1>7. CASE ReadCI BY <1>7 DEF ReadCI, Alone
<1>8. CASE WriteCI
  <2>. DEFINE s == request[Turn(left)]
  <2>1. s \in Slots BY <1>8 DEF WriteCI, Typed, InSlot
  <2>2. issued' = {s} /\ seen' = {} BY <1>8 DEF WriteCI, Alone
  <2>3. pc' \notin {"pick", "read CI", "write CI"} BY <1>8, AnswerLeaves DEF WriteCI
  <2>. QED BY <2>1, <2>2, <2>3 DEF Alone
<1>9. CASE Merge BY <1>9 DEF Merge, Alone
<1>10. CASE Skip BY <1>10 DEF Skip, Pass, Alone
<1>11. CASE Done BY <1>11 DEF Done, Pass, Alone
<1>12. CASE Fail BY <1>12 DEF Fail, Alone
<1>. QED BY <1>1, <1>2, <1>3, <1>4, <1>5, <1>6, <1>7, <1>8, <1>9, <1>10, <1>11, <1>12
     DEF Step

\* A set of no more than one element.
LEMMA AtMostOne ==
  ASSUME NEW S, NEW T, S = {} \/ \E s \in T : S = {s}
  PROVE  Cardinality(S) <= 1
<1>1. CASE S = {}
  <2>1. Cardinality(S) = 0 BY <1>1, FS_EmptySet, Zenon
  <2>. QED BY <2>1
<1>2. CASE \E s \in T : S = {s}
  <2>1. PICK s \in T : S = {s} BY <1>2
  <2>2. Cardinality(S) = 1 BY <2>1, FS_Singleton, Zenon
  <2>. QED BY <2>2
<1>. QED BY <1>1, <1>2

\* PortSerial: a disk that does not queue is never given a command while it
\* has another, for any number of slots and any operations, with errors on
\* the link as well.
THEOREM PortSerial == Spec => []OneAtATime
<1>. USE PortAssumption DEF hardware
<1>. DEFINE Inv == Typed /\ Alone
<1>1. Init => Inv
  <2>. SUFFICES ASSUME Init PROVE Inv OBVIOUS
  <2>1. pc \in Places /\ pc = "idle" BY DEF Init, Places
  <2>2. dir \in Directions BY DEF Init, Directions
  <2>3. Typed BY <2>1, <2>2 DEF Init, Typed, TypeOK, InSlot
  <2>. QED BY <2>3 DEF Init, Alone
<1>2. Inv /\ [Next]_vars => Inv'
  <2>. SUFFICES ASSUME Inv, [Next]_vars PROVE Inv' OBVIOUS
  <2>1. Typed' BY TypesKept
  <2>2. Alone'
    <3>. SUFFICES ASSUME ~QueueCapable PROVE Alone' BY DEF Alone
    <3>1. CASE Step BY <3>1, StepAlone
    <3>2. ASSUME NEW o \in Operations, Begin(o) PROVE Alone' BY <3>2 DEF Begin, Alone
    <3>3. ASSUME NEW s \in Slots, Execute(s) PROVE Alone' BY <3>3 DEF Execute, Alone
    <3>4. CASE LinkError BY <3>4 DEF LinkError, Alone
    <3>5. CASE UNCHANGED vars BY <3>5 DEF vars, Alone
    <3>. QED BY <3>1, <3>2, <3>3, <3>4, <3>5 DEF Next
  <2>. QED BY <2>1, <2>2
<1>3. Inv => OneAtATime
  <2>. SUFFICES ASSUME Alone, ~QueueCapable PROVE Cardinality(issued) <= 1
    BY DEF OneAtATime
  <2>. QED BY AtMostOne DEF Alone
<1>. QED BY <1>1, <1>2, <1>3, PTL DEF Spec

-----------------------------------------------------------------------------
(* A read that returns the size has read *)

\* The thread is between the choice of a slot and its issue.
Issuing == pc \in {"read CI", "write CI"}

Delivered(r) == <<"read", r>> \in executed

\* The slot of a region holds the region's own command as long as that command
\* has not been executed: a slot that is not free is not filled again.
OnItsWay(r) == request[r] \in issued /\ work[request[r]] = <<"read", r>>

Reading ==
  /\ dir = "read" /\ pc # "merge"
  /\ pc # "idle" => result = "none"
  /\ \A r \in Regions :
       request[r] \in Slots =>
         \/ Delivered(r) \/ OnItsWay(r)
         \/ r = Turn(left) /\ Issuing
  /\ Issuing => work[request[Turn(left)]] = <<"read", Turn(left)>>
  /\ pc = "wait" => \A r \in Regions \ left : request[r] \in Slots => Delivered(r)

Delivering == op = "read" => Reading /\ ReadDelivers

\* An answer leaves every other region as it is.
LEMMA AnswerReads ==
  ASSUME Typed, pc # "idle", op = "read", NEW taken, Answer(taken)
  PROVE  /\ Turn(left) \in Regions
         /\ request'[Turn(left)] = taken
         /\ \A r \in Regions \ {Turn(left)} : request'[r] = request[r]
         /\ pc' = "send" \/ (pc' = "wait" /\ left' = Regions)
<1>1. left \in SUBSET Regions /\ left # {} BY DEF Typed, TypeOK
<1>2. Turn(left) \in Regions BY <1>1, TurnLeft
<1>3. request' = [request EXCEPT ![Turn(left)] = taken] BY DEF Answer
<1>4. pc' = "send" \/ (pc' = "wait" /\ left' = Regions) BY DEF Answer, Fetching
<1>. QED BY <1>2, <1>3, <1>4 DEF Typed, TypeOK

\* A call that failed has touched nothing.
LEMMA RefusalReads ==
  ASSUME Typed, op = "read", Reading, ReadDelivers, pc \in {"send", "drain", "pick"},
         Answer(Refused), UNCHANGED <<hardware, op, dir, executed, result>>
  PROVE  Reading' /\ ReadDelivers'
<1>. USE DEF hardware
<1>1. /\ Turn(left) \in Regions
      /\ request'[Turn(left)] = Refused
      /\ \A r \in Regions \ {Turn(left)} : request'[r] = request[r]
      /\ pc' = "send" \/ (pc' = "wait" /\ left' = Regions)
  BY AnswerReads
<1>2. Refused \notin Slots
  <2>1. SlotCount \in Nat BY PortAssumption DEF PortAssumption
  <2>. QED BY <2>1 DEF Refused, Slots
<1>3. \A r \in Regions : request[r] \in Slots => Delivered(r) \/ OnItsWay(r)
  BY DEF Reading, Issuing
<1>4. \A r \in Regions : request'[r] \in Slots => Delivered(r)' \/ OnItsWay(r)'
  <2>. SUFFICES ASSUME NEW r \in Regions, request'[r] \in Slots
                PROVE  Delivered(r)' \/ OnItsWay(r)'
    OBVIOUS
  <2>1. request'[r] = request[r] BY <1>1, <1>2
  <2>2. Delivered(r) \/ OnItsWay(r) BY <1>3, <2>1
  <2>. QED BY <2>1, <2>2 DEF Delivered, OnItsWay
<1>5. result' = "none" BY DEF Reading
<1>6. Reading' BY <1>1, <1>4, <1>5 DEF Reading, Issuing
<1>. QED BY <1>5, <1>6 DEF ReadDelivers

\* The next region, or the return: every region that is passed is executed.
LEMMA PassReads ==
  ASSUME Typed, op = "read", Reading, pc = "wait", Pass,
         request[Turn(left)] \in Slots => Delivered(Turn(left)),
         UNCHANGED <<hardware, op, dir, request, executed>>
  PROVE  Reading' /\ ReadDelivers'
<1>. USE DEF hardware
<1>1. left \in SUBSET Regions /\ left # {} BY DEF Typed, TypeOK
<1>2. left' = left \ {Turn(left)} /\ pc' \in {"wait", "idle"} BY DEF Pass
<1>3. \A r \in Regions \ left' : request[r] \in Slots => Delivered(r)
  BY <1>2 DEF Reading
<1>4. \A r \in Regions : request[r] \in Slots => Delivered(r) \/ OnItsWay(r)
  BY DEF Reading, Issuing
<1>5. \A r \in Regions : request'[r] \in Slots => Delivered(r)' \/ OnItsWay(r)'
  BY <1>4 DEF Delivered, OnItsWay
<1>6. pc' # "idle" => result' = "none" BY DEF Pass, Reading
<1>7. Reading'
  <2>1. \A r \in Regions \ left' : request'[r] \in Slots => Delivered(r)'
    BY <1>3 DEF Delivered
  <2>. QED BY <1>2, <1>5, <1>6, <2>1 DEF Reading, Issuing
<1>8. ReadDelivers'
  <2>. SUFFICES ASSUME result' = "size", NEW r \in Regions, request'[r] # NotSent
                PROVE  Delivered(r)'
    BY DEF ReadDelivers, Delivered
  <2>1. left' = {} /\ ~Failed BY DEF Pass, Reading
  <2>2. request[r] # Refused BY <2>1 DEF Failed, Range, Typed, TypeOK
  <2>3. request[r] \in Slots BY <2>2 DEF Typed, TypeOK
  <2>4. Delivered(r) BY <1>3, <2>1, <2>3
  <2>. QED BY <2>4 DEF Delivered
<1>. QED BY <1>7, <1>8

LEMMA StepReads ==
  ASSUME PortAssumption, Typed, op = "read", Reading, ReadDelivers, Step
  PROVE  Reading' /\ ReadDelivers'
<1>. USE DEF hardware
<1>a. pc # "idle" => Turn(left) \in Regions BY TurnLeft DEF Typed, TypeOK
<1>1. CASE Refuse BY <1>1, RefusalReads DEF Refuse
<1>2. CASE Send
  <2>1. \A r \in Regions : request[r] \in Slots => Delivered(r) \/ OnItsWay(r)
    BY <1>2 DEF Send, Reading, Issuing
  <2>2. \A r \in Regions : request'[r] \in Slots => Delivered(r)' \/ OnItsWay(r)'
    BY <1>2, <2>1 DEF Send, Delivered, OnItsWay
  <2>. QED BY <1>2, <2>2 DEF Send, Reading, Issuing, ReadDelivers
<1>3. CASE Drain
  <2>1. \A r \in Regions : request[r] \in Slots => Delivered(r) \/ OnItsWay(r)
    BY <1>3 DEF Drain, Reading, Issuing
  <2>2. \A r \in Regions : request'[r] \in Slots => Delivered(r)' \/ OnItsWay(r)'
    BY <1>3, <2>1 DEF Drain, Delivered, OnItsWay
  <2>. QED BY <1>3, <2>2 DEF Drain, Reading, Issuing, ReadDelivers
<1>4. CASE DrainFails BY <1>4, RefusalReads DEF DrainFails
<1>5. CASE Pick
  <2>. DEFINE t == Turn(left)
  <2>1. pc = "pick" /\ pc' = "read CI" /\ left' = left /\ t \in Regions
    BY <1>5, <1>a DEF Pick
  <2>2. PICK s \in Slots : /\ s \notin issued
                           /\ work' = [work EXCEPT ![s] = <<dir, t>>]
                           /\ request' = [request EXCEPT ![t] = s]
    BY <1>5 DEF Pick, Free
  <2>3. request'[t] = s /\ \A r \in Regions \ {t} : request'[r] = request[r]
    BY <2>1, <2>2 DEF Typed, TypeOK
  <2>4. work'[s] = <<"read", t>> BY <2>2 DEF Reading, Typed, TypeOK
  <2>5. \A q \in Slots \ {s} : work'[q] = work[q] BY <2>2 DEF Typed, TypeOK
  <2>6. UNCHANGED <<issued, executed, dir, op, result>> BY <1>5 DEF Pick
  <2>. HIDE DEF t
  <2>7. \A r \in Regions \ {t} : request'[r] \in Slots => Delivered(r)' \/ OnItsWay(r)'
    <3>. SUFFICES ASSUME NEW r \in Regions \ {t}, request'[r] \in Slots
                  PROVE  Delivered(r)' \/ OnItsWay(r)'
      OBVIOUS
    <3>1. Delivered(r) \/ OnItsWay(r) BY <2>1, <2>3 DEF Reading, Issuing
    <3>2. CASE Delivered(r) BY <2>6, <3>2 DEF Delivered
    <3>3. CASE OnItsWay(r)
      <4>1. request[r] \in Slots \ {s} BY <2>2, <2>3, <3>3 DEF OnItsWay
      <4>. QED BY <2>3, <2>5, <2>6, <3>3, <4>1 DEF OnItsWay
    <3>. QED BY <3>1, <3>2, <3>3
  <2>8. Turn(left') = t /\ Issuing' BY <2>1 DEF t, Issuing
  <2>9. Reading' BY <2>1, <2>3, <2>4, <2>6, <2>7, <2>8 DEF Reading
  <2>10. result' = "none" BY <2>1, <2>6 DEF Reading
  <2>. QED BY <2>9, <2>10 DEF ReadDelivers
<1>6. CASE GiveUp BY <1>6, RefusalReads DEF GiveUp
<1>7. CASE ReadCI
  <2>1. Issuing' /\ Issuing /\ UNCHANGED <<left, request, work, issued, executed, dir, op, result>>
    BY <1>7 DEF ReadCI, Issuing
  <2>2. pc' = "write CI" /\ pc = "read CI" BY <1>7 DEF ReadCI
  <2>3. \A r \in Regions : Delivered(r)' = Delivered(r) /\ OnItsWay(r)' = OnItsWay(r)
    BY <2>1 DEF Delivered, OnItsWay
  <2>. QED BY <2>1, <2>2, <2>3 DEF Reading, ReadDelivers
<1>8. CASE WriteCI
  <2>. DEFINE t == Turn(left)
  <2>. DEFINE s == request[t]
  <2>1. s \in Slots /\ pc = "write CI" /\ Answer(s) BY <1>8 DEF WriteCI, Typed, InSlot
  <2>2. /\ t \in Regions
        /\ request'[t] = s
        /\ \A r \in Regions \ {t} : request'[r] = request[r]
        /\ pc' = "send" \/ (pc' = "wait" /\ left' = Regions)
    BY <2>1, AnswerReads
  <2>3. issued \subseteq issued' /\ s \in issued' /\ UNCHANGED <<work, executed, dir, op, result>>
    BY <1>8 DEF WriteCI
  <2>4. work[s] = <<"read", t>> BY <2>1 DEF Reading, Issuing
  <2>. HIDE DEF s, t
  <2>5. \A r \in Regions : request'[r] \in Slots => Delivered(r)' \/ OnItsWay(r)'
    <3>. SUFFICES ASSUME NEW r \in Regions, request'[r] \in Slots
                  PROVE  Delivered(r)' \/ OnItsWay(r)'
      OBVIOUS
    <3>1. CASE r = t BY <2>2, <2>3, <2>4, <3>1 DEF OnItsWay
    <3>2. CASE r # t
      <4>1. Delivered(r) \/ OnItsWay(r) BY <2>2, <3>2 DEF Reading, t
      <4>. QED BY <2>2, <2>3, <3>2, <4>1 DEF Delivered, OnItsWay
    <3>. QED BY <3>1, <3>2
  <2>6. result' = "none" BY <2>1, <2>3 DEF Reading
  <2>7. Reading' BY <2>2, <2>3, <2>5, <2>6 DEF Reading, Issuing
  <2>. QED BY <2>6, <2>7 DEF ReadDelivers
<1>9. CASE Merge BY <1>9 DEF Merge, Reading
<1>10. CASE Skip BY <1>10, PassReads DEF Skip
<1>11. CASE Done
  <2>. DEFINE t == Turn(left)
  <2>1. request[t] \in Slots /\ request[t] \notin issued /\ pc = "wait"
    BY <1>11 DEF Done, Finished
  <2>2. Delivered(t) BY <1>a, <2>1 DEF Reading, OnItsWay, Issuing
  <2>. QED BY <1>11, <2>2, PassReads DEF Done
<1>12. CASE Fail
  <2>1. pc = "wait" /\ pc' = "idle" /\ result' # "size"
        /\ UNCHANGED <<request, work, issued, executed, dir, op>>
    BY <1>12 DEF Fail
  <2>2. \A r \in Regions : request'[r] \in Slots => Delivered(r)' \/ OnItsWay(r)'
    BY <2>1 DEF Reading, Issuing, Delivered, OnItsWay
  <2>. QED BY <2>1, <2>2 DEF Reading, Issuing, ReadDelivers
<1>. QED BY <1>1, <1>2, <1>3, <1>4, <1>5, <1>6, <1>7, <1>8, <1>9, <1>10, <1>11, <1>12
     DEF Step

\* The controller turns what is on its way into what is delivered.
LEMMA ExecuteReads ==
  ASSUME Typed, op = "read", Reading, ReadDelivers, NEW q \in Slots, Execute(q)
  PROVE  Reading' /\ ReadDelivers'
<1>1. /\ issued' = issued \ {q} /\ executed \subseteq executed'
      /\ UNCHANGED <<work, pc, op, dir, left, request, result>>
  BY DEF Execute
<1>2. work[q] # Past => work[q] \in executed' BY DEF Execute
<1>3. \A r \in Regions : Delivered(r) => Delivered(r)' BY <1>1 DEF Delivered
<1>4. \A r \in Regions : OnItsWay(r) => Delivered(r)' \/ OnItsWay(r)'
  <2>. SUFFICES ASSUME NEW r \in Regions, OnItsWay(r), request[r] = q
                PROVE  Delivered(r)'
    BY <1>1 DEF OnItsWay
  <2>1. work[q] = <<"read", r>> /\ r # 0 BY DEF OnItsWay, Regions
  <2>2. work[q] # Past BY <2>1 DEF Past
  <2>. QED BY <1>2, <2>1, <2>2 DEF Delivered
<1>5. Issuing' = Issuing BY <1>1 DEF Issuing
<1>6. Reading' BY <1>1, <1>3, <1>4, <1>5 DEF Reading
<1>. QED BY <1>1, <1>6 DEF ReadDelivers

\* PortDelivers: a read that returns the size has had every region it asked
\* for transferred, for any number of slots, on a disk that queues or not,
\* with errors on the link and whatever operation came before.
THEOREM PortDelivers == Spec => []ReadDelivers
<1>. USE PortAssumption DEF hardware
<1>. DEFINE Inv == Typed /\ Delivering
<1>1. Init => Inv
  <2>. SUFFICES ASSUME Init PROVE Inv OBVIOUS
  <2>1. pc \in Places /\ pc = "idle" BY DEF Init, Places
  <2>2. dir \in Directions BY DEF Init, Directions
  <2>3. Typed BY <2>1, <2>2 DEF Init, Typed, TypeOK, InSlot
  <2>4. Delivering BY NoSlot DEF Init, Delivering, Reading, ReadDelivers, Issuing
  <2>. QED BY <2>3, <2>4
<1>2. Inv /\ [Next]_vars => Inv'
  <2>. SUFFICES ASSUME Inv, [Next]_vars PROVE Inv' OBVIOUS
  <2>1. Typed' BY TypesKept
  <2>2. Delivering'
    <3>. SUFFICES ASSUME op' = "read" PROVE Reading' /\ ReadDelivers' BY DEF Delivering
    <3>1. CASE Step
      <4>1. op = "read"
        BY <3>1 DEF Step, Refuse, Send, Drain, DrainFails, Pick, GiveUp, ReadCI, WriteCI,
                    Merge, Skip, Done, Fail
      <4>. QED BY <3>1, <4>1, StepReads DEF Delivering
    <3>2. ASSUME NEW o \in Operations, Begin(o) PROVE Reading' /\ ReadDelivers'
      <4>1. \A r \in Regions : request'[r] \notin Slots BY <3>2, NoSlot DEF Begin
      <4>2. dir' = "read" /\ pc' = "send" /\ result' = "none" BY <3>2 DEF Begin
      <4>. QED BY <4>1, <4>2 DEF Reading, ReadDelivers, Issuing
    <3>3. ASSUME NEW s \in Slots, Execute(s) PROVE Reading' /\ ReadDelivers'
      <4>1. op = "read" BY <3>3 DEF Execute
      <4>. QED BY <3>3, <4>1, ExecuteReads DEF Delivering
    <3>4. CASE LinkError
      BY <3>4 DEF LinkError, Delivering, Reading, ReadDelivers, Issuing, Delivered, OnItsWay
    <3>5. CASE UNCHANGED vars
      BY <3>5 DEF vars, Delivering, Reading, ReadDelivers, Issuing, Delivered, OnItsWay
    <3>. QED BY <3>1, <3>2, <3>3, <3>4, <3>5 DEF Next
  <2>. QED BY <2>1, <2>2
<1>3. Inv => ReadDelivers BY DEF Delivering, ReadDelivers
<1>. QED BY <1>1, <1>2, <1>3, PTL DEF Spec

-----------------------------------------------------------------------------
(* Numbers *)

\* A set of numbers has a least member.
LEMMA Least ==
  ASSUME NEW S \in SUBSET Nat, S # {}
  PROVE  \E m \in S : \A n \in S : m <= n
<1>. DEFINE R == StrictSubsetOrdering(Nat)
            F == FiniteSubsetsOf(Nat)
            T == {0..n : n \in S}
<1>1. IsWellFoundedOn(R, F)
  BY FS_StrictSubsetOrderingWellFounded
<1>2. T \subseteq F
  <2>1. \A n \in S : 0..n \in SUBSET Nat /\ IsFiniteSet(0..n)
    BY FS_Interval
  <2>. QED BY <2>1 DEF FiniteSubsetsOf
<1>3. T # {}
  OBVIOUS
<1>4. PICK x \in T : \A y \in T : <<y, x>> \notin R
  <2>. HIDE DEF R, F, T
  <2>. QED BY <1>1, <1>2, <1>3, WFMin
<1>5. PICK m \in S : x = 0..m
  OBVIOUS
<1>6. ASSUME NEW n \in S, n < m PROVE FALSE
  <2>1. 0..n \in T
    OBVIOUS
  <2>2. m \in 0..m /\ m \notin 0..n /\ 0..n \subseteq 0..m
    BY <1>6
  <2>3. 0..n \in F /\ 0..m \in F
    BY <1>2, <1>5, <2>1
  <2>4. <<0..n, x>> \in R
    BY <1>5, <2>2, <2>3 DEF StrictSubsetOrdering, FiniteSubsetsOf
  <2>. QED BY <1>4, <2>1, <2>4
<1>. QED BY <1>6

\* Induction, over a set.
LEMMA SetInduction ==
  ASSUME NEW S, 0 \in S, \A n \in Nat : n \in S => n + 1 \in S
  PROVE  Nat \subseteq S
<1>. SUFFICES ASSUME Nat \ S # {} PROVE FALSE
  OBVIOUS
<1>1. PICK m \in Nat \ S : \A n \in Nat \ S : m <= n
  BY Least
<1>2. m # 0 /\ m - 1 \in Nat
  BY <1>1
<1>3. m - 1 \in S
  BY <1>1, <1>2
<1>. QED BY <1>2, <1>3

\* Division with remainder.
LEMMA Division ==
  ASSUME NEW a \in Nat, NEW b \in Nat \ {0}
  PROVE  /\ (a \div b) \in Nat /\ (a % b) \in 0..(b - 1)
         /\ a = ((a \div b) * b) + (a % b)
  OBVIOUS

\* Quotient and remainder are the only ones.
LEMMA DivisionUnique ==
  ASSUME NEW a \in Nat, NEW b \in Nat \ {0}, NEW q \in Nat, NEW r \in 0..(b - 1),
         a = (q * b) + r
  PROVE  (a \div b) = q /\ (a % b) = r
<1>. DEFINE x == a \div b
            y == a % b
<1>1. x \in Nat /\ y \in 0..(b - 1) /\ a = (x * b) + y
  BY Division
<1>. HIDE DEF x, y
<1>2. (x - q) * b = r - y
  BY <1>1
<1>3. ASSUME x > q PROVE FALSE
  <2>1. (x - q) * b >= b
    BY <1>1, <1>3
  <2>. QED BY <1>1, <1>2, <2>1
<1>4. ASSUME x < q PROVE FALSE
  <2>1. (q - x) * b >= b
    BY <1>1, <1>4
  <2>2. (q - x) * b = y - r
    BY <1>1
  <2>. QED BY <1>1, <2>1, <2>2
<1>5. x = q
  BY <1>1, <1>3, <1>4
<1>6. y = r
  BY <1>1, <1>5
<1>. QED BY <1>5, <1>6 DEF x, y

-----------------------------------------------------------------------------
(* Sectors *)

\* What the module assumes of its constants, and the bytes of the disk.
LEMMA SizeFacts ==
  /\ sector_size \in Nat \ {0} /\ sector_count \in Nat \ {0} /\ page_size \in Nat \ {0}
  /\ TableSize \in Nat \ 0..1 /\ MaxRegion \in Nat /\ Pages \in Nat \ {0}
  /\ sector_size % 2 = 0 /\ page_size % 2 = 0
  /\ Bytes \in Nat
<1>1. sector_size \in Nat \ {0} /\ sector_count \in Nat \ {0}
  BY DeviceAssumption DEF DeviceAssumption
<1>2. sector_size * sector_count \in Nat
  BY <1>1
<1>. QED BY <1>2, DeviceAssumption DEF DeviceAssumption, Bytes

\* An even number is twice another.
LEMMA Half ==
  ASSUME NEW b \in Nat, b % 2 = 0
  PROVE  \E h \in Nat : b = 2 * h
OBVIOUS

\* What is left of an even number in a sector or a page is even.
LEMMA EvenRest ==
  ASSUME NEW a \in Nat, NEW b \in Nat \ {0}, a % 2 = 0, b % 2 = 0
  PROVE  (a % b) % 2 = 0
<1>1. PICK h \in Nat : b = 2 * h
  OBVIOUS
<1>2. PICK k \in Nat : a = 2 * k
  OBVIOUS
<1>3. h \in Nat \ {0}
  BY <1>1
<1>. DEFINE q == k \div h
            r == k % h
<1>4. q \in Nat /\ r \in 0..(h - 1) /\ k = (q * h) + r
  BY <1>3, Division
<1>. HIDE DEF q, r
<1>5. a = (q * b) + (2 * r)
  <2>1. 2 * (q * h) = q * (2 * h)
    BY <1>3, <1>4
  <2>. DEFINE x == q * h
  <2>2. x \in Nat /\ k = x + r
    BY <1>3, <1>4
  <2>. HIDE DEF x
  <2>3. a = 2 * x + 2 * r
    BY <1>2, <1>4, <2>2
  <2>4. 2 * x = q * b
    BY <1>1, <2>1 DEF x
  <2>. QED BY <2>3, <2>4
<1>6. 2 * r \in 0..(b - 1)
  BY <1>1, <1>3, <1>4
<1>7. (a % b) = 2 * r
  BY <1>4, <1>5, <1>6, DivisionUnique
<1>. QED BY <1>4, <1>7

\* An even number of bytes is as many in words.
LEMMA EvenWords ==
  ASSUME NEW n \in Nat, n % 2 = 0 PROVE Words(n) = n
<1>1. (n \div 2) * 2 = n
  OBVIOUS
<1>. QED BY <1>1 DEF Words

\* An even offset leaves its own remainder to skip.
LEMMA SkipFacts ==
  ASSUME NEW offset \in Nat, offset % 2 = 0
  PROVE  SkipBytes(offset) = offset % sector_size
<1>. DEFINE r == offset % sector_size
<1>1. r \in Nat /\ r % 2 = 0
  BY SizeFacts, EvenRest, Division
<1>. HIDE DEF r
<1>2. Words(r) = r
  BY <1>1, EvenWords
<1>. QED BY <1>2 DEF SkipBytes, r

\* The sectors of a number of bytes.
LEMMA SectorsFacts ==
  ASSUME NEW size \in Nat
  PROVE  /\ Sectors(size) \in Nat
         /\ size > 0 => Sectors(size) > 0
         /\ \A k \in Nat : size = k * sector_size => Sectors(size) = k
         /\ \A k \in Nat : size <= k * sector_size => Sectors(size) <= k
<1>. DEFINE n == size + sector_size - 1
            q == n \div sector_size
            r == n % sector_size
<1>0. sector_size \in Nat \ {0}
  BY SizeFacts
<1>1. n \in Nat
  BY <1>0
<1>2. q \in Nat /\ r \in 0..(sector_size - 1) /\ n = (q * sector_size) + r
  <2>. HIDE DEF n
  <2>. QED BY <1>0, <1>1, Division
<1>3. Sectors(size) = q
  BY DEF Sectors
<1>4. ASSUME size > 0 PROVE q > 0
  <2>1. CASE q = 0
    <3>1. q * sector_size = 0
      BY <1>0, <2>1
    <3>. HIDE DEF q, r
    <3>. QED BY <1>0, <1>2, <1>4, <3>1
  <2>. HIDE DEF q
  <2>. QED BY <1>2, <2>1
<1>5. ASSUME NEW k \in Nat, size = k * sector_size PROVE q = k
  <2>1. n = (k * sector_size) + (sector_size - 1)
    BY <1>0, <1>5
  <2>2. sector_size - 1 \in 0..(sector_size - 1)
    BY <1>0
  <2>. HIDE DEF n
  <2>. QED BY <1>0, <1>1, <2>1, <2>2, DivisionUnique
<1>6. ASSUME NEW k \in Nat, size <= k * sector_size PROVE q <= k
  <2>. SUFFICES ASSUME q > k PROVE FALSE
    <3>. HIDE DEF q
    <3>. QED BY <1>2
  <2>. DEFINE d == q - k - 1
  <2>1. d \in Nat /\ q = k + 1 + d
    <3>. HIDE DEF q
    <3>. QED BY <1>2
  <2>. HIDE DEF q, r, d
  <2>2. (k + 1 + d) * sector_size = (k * sector_size) + sector_size + (d * sector_size)
    BY <1>0, <2>1
  <2>3. k * sector_size \in Nat /\ d * sector_size \in Nat
    BY <1>0, <2>1
  <2>. QED BY <1>0, <1>2, <1>6, <2>1, <2>2, <2>3
<1>. QED BY <1>2, <1>3, <1>4, <1>5, <1>6

-----------------------------------------------------------------------------
(* Answers *)

Quiet(fate, size) == fate = [k \in 1..5 |-> Sent] \/ size > UNKNOWN_ERROR

\* What a command may answer.
LEMMA AnswerFacts ==
  ASSUME NEW fate \in Fates, NEW k \in 1..5, NEW lba \in Nat, NEW size \in Nat
  PROVE  LET a == CommandAnswer(fate, k, lba, size)
         IN /\ a \in {Sent, Lost, SUCCESS, OUT_OF_BOUNDS, NO_RESOURCES, UNKNOWN_ERROR}
            /\ fate = [j \in 1..5 |-> Sent] => a \in {Sent, SUCCESS, OUT_OF_BOUNDS}
            /\ size > 0 => a # SUCCESS
            /\ lba + Sectors(size) <= sector_count => a # OUT_OF_BOUNDS
            /\ a \in {Sent, Lost} => lba + Sectors(size) <= sector_count
<1>1. fate[k] \in {Sent, Lost, NO_RESOURCES, UNKNOWN_ERROR}
  BY DEF Fates, Sent, Lost, NO_RESOURCES, UNKNOWN_ERROR
<1>2. Sectors(size) \in Nat /\ (size > 0 => Sectors(size) > 0)
  BY SectorsFacts
<1>3. sector_count \in Nat
  BY SizeFacts
<1>. QED
  BY <1>1, <1>2, <1>3
     DEF CommandAnswer, Sent, Lost, SUCCESS, OUT_OF_BOUNDS, NO_RESOURCES, UNKNOWN_ERROR

\* A call whose command is not done returns its size only by a number that
\* happens to be it.
LEMMA ToldFacts ==
  ASSUME NEW fate, NEW size \in Nat, Quiet(fate, size),
         NEW a \in {Sent, Lost, SUCCESS, OUT_OF_BOUNDS, FRAGMENTED_MEMORY, NO_RESOURCES, UNKNOWN_ERROR},
         fate = [j \in 1..5 |-> Sent] => a \in {Sent, SUCCESS, OUT_OF_BOUNDS, FRAGMENTED_MEMORY},
         Told(a, size) = Value(size)
  PROVE  \/ a = Sent
         \/ a = SUCCESS /\ size = 0
         \/ a = OUT_OF_BOUNDS /\ size = 3
         \/ a = FRAGMENTED_MEMORY /\ size = 4
<1>1. CASE a = Sent
  BY <1>1
<1>2. CASE a = Lost
  BY <1>2 DEF Told, Value, Error, Sent, Lost
<1>3. CASE a \notin {Sent, Lost}
  <2>1. a = size
    BY <1>3 DEF Told, Value
  <2>. QED
    BY <1>3, <2>1 DEF Quiet, Sent, Lost, SUCCESS, OUT_OF_BOUNDS, FRAGMENTED_MEMORY, NO_RESOURCES, UNKNOWN_ERROR
<1>. QED BY <1>1, <1>2, <1>3

\* A place before the end of the disk is in one of its sectors.
LEMMA WithinFacts ==
  ASSUME NEW a \in Nat
  PROVE  a < Bytes => (a \div sector_size) + 1 <= sector_count
<1>. DEFINE q == a \div sector_size
            r == a % sector_size
<1>0. sector_size \in Nat \ {0} /\ sector_count \in Nat \ {0}
  BY SizeFacts
<1>1. q \in Nat /\ r \in 0..(sector_size - 1) /\ a = (q * sector_size) + r
  BY <1>0, Division
<1>. HIDE DEF q, r
<1>2. ASSUME a < Bytes, q >= sector_count PROVE FALSE
  <2>. DEFINE d == q - sector_count
  <2>1. d \in Nat /\ q = sector_count + d
    BY <1>0, <1>1, <1>2
  <2>. HIDE DEF d
  <2>2. q * sector_size = (sector_size * sector_count) + (d * sector_size)
    BY <1>0, <2>1
  <2>3. d * sector_size \in Nat /\ sector_size * sector_count \in Nat
    BY <1>0, <2>1
  <2>. QED BY <1>0, <1>1, <1>2, <2>2, <2>3 DEF Bytes
<1>3. q < sector_count \/ q >= sector_count
  BY <1>0, <1>1
<1>4. a < Bytes => q + 1 <= sector_count
  BY <1>0, <1>1, <1>2, <1>3
<1>. QED BY <1>4 DEF q

\* Two sums that differ in parity do not meet at the end of the disk.
LEMMA NotThree ==
  ASSUME NEW offset \in Nat, offset % 2 = 0, offset + 3 <= Bytes
  PROVE  offset + 3 < Bytes
<1>1. PICK h \in Nat : sector_size = 2 * h
  BY SizeFacts, Half
<1>2. h * sector_count \in Nat
  BY <1>1, SizeFacts
<1>3. Bytes = 2 * (h * sector_count)
  <2>1. (2 * h) * sector_count = 2 * (h * sector_count)
    BY <1>1, SizeFacts
  <2>. QED BY <1>1, <2>1 DEF Bytes
<1>. DEFINE b == h * sector_count
<1>4. b \in Nat /\ Bytes = 2 * b
  BY <1>2, <1>3
<1>. HIDE DEF b
<1>5. PICK k \in Nat : offset = 2 * k
  OBVIOUS
<1>. QED BY <1>4, <1>5

\* The sectors around a range in one or two of them.
LEMMA AroundFacts ==
  ASSUME NEW offset \in Nat, NEW size \in Nat,
         InOneSector(offset, size) \/ InTwoSectors(offset, size)
  PROVE  /\ Around(offset, size) \in Nat \ {0}
         /\ offset + size < Bytes =>
              (offset \div sector_size) + Sectors(Around(offset, size)) <= sector_count
         /\ (offset % sector_size) + size <= Around(offset, size)
<1>0. sector_size \in Nat \ {0} /\ sector_count \in Nat \ {0}
  BY SizeFacts
<1>. DEFINE e == offset + size
            q == offset \div sector_size
            r == offset % sector_size
            t == e \div sector_size
            u == e % sector_size
<1>1. q \in Nat /\ r \in 0..(sector_size - 1) /\ offset = (q * sector_size) + r
  BY <1>0, Division
<1>2. e \in Nat
  OBVIOUS
<1>3. t \in Nat /\ u \in 0..(sector_size - 1) /\ e = (t * sector_size) + u
  <2>. HIDE DEF e
  <2>. QED BY <1>0, <1>2, Division
<1>4. e < Bytes => t + 1 <= sector_count
  <2>. HIDE DEF e
  <2>. QED BY <1>2, WithinFacts
<1>5. Sectors(sector_size) = 1 /\ Sectors(2 * sector_size) = 2
  <2>1. sector_size = 1 * sector_size /\ 2 * sector_size \in Nat
    BY <1>0
  <2>. QED BY <1>0, <2>1, SectorsFacts
<1>6. CASE InOneSector(offset, size)
  <2>1. q = t /\ Around(offset, size) = sector_size
    BY <1>6 DEF InOneSector, Around
  <2>2. r + size = u
    <3>1. e = offset + size
      OBVIOUS
    <3>2. (q * sector_size) \in Nat
      BY <1>0, <1>1
    <3>. HIDE DEF e, q, r, t, u
    <3>. QED BY <1>0, <1>1, <1>3, <2>1, <3>1, <3>2
  <2>3. r + size <= sector_size
    <3>. HIDE DEF r, u
    <3>. QED BY <1>0, <1>3, <2>2
  <2>4. e < Bytes => q + 1 <= sector_count
    BY <1>4, <2>1
  <2>. QED BY <1>0, <1>5, <2>1, <2>3, <2>4
<1>7. CASE ~InOneSector(offset, size)
  <2>1. q + 1 = t /\ Around(offset, size) = 2 * sector_size
    BY <1>7 DEF InOneSector, InTwoSectors, Around
  <2>2. r + size = sector_size + u
    <3>1. e = offset + size
      OBVIOUS
    <3>2. (q * sector_size) \in Nat /\ (q + 1) * sector_size = (q * sector_size) + sector_size
      BY <1>0, <1>1
    <3>. HIDE DEF e, q, r, t, u
    <3>. QED BY <1>0, <1>1, <1>3, <2>1, <3>1, <3>2
  <2>3. r + size <= 2 * sector_size
    <3>. HIDE DEF r, u
    <3>. QED BY <1>0, <1>3, <2>2
  <2>4. e < Bytes => q + 2 <= sector_count
    <3>. HIDE DEF e, q, t
    <3>. QED BY <1>0, <1>1, <1>4, <2>1
  <2>. QED BY <1>0, <1>5, <2>1, <2>3, <2>4
<1>. QED BY <1>6, <1>7

-----------------------------------------------------------------------------
(* Writes *)

\* What a write may do to the disk, and what it must have done.
Written(r, bytes, fate, offset, size) ==
  /\ DOMAIN r.disk = DOMAIN disk
  /\ \A p \in DOMAIN disk : p - offset \notin 0..size - 1 => r.disk[p] = disk[p]
  /\ (~r.corrupt /\ ~Aligned(offset, size) /\ r.ret = Value(size) /\ Quiet(fate, size)) =>
       \A p \in DOMAIN disk : p - offset \in 0..size - 1 => r.disk[p] = bytes[p - offset + 1]

\* Nothing is written.
LEMMA WriteNone ==
  ASSUME NEW bytes, NEW fate, NEW offset \in Nat, NEW size \in Nat, NEW e, NEW c,
         NEW v \in {Value(e), Error(e)},
         (~c /\ ~Aligned(offset, size) /\ Quiet(fate, size)) => v # Value(size)
  PROVE  Written([ret |-> v, disk |-> disk, corrupt |-> c], bytes, fate, offset, size)
BY DEF Written

\* What a command to the caller's memory may answer.
LEMMA DirectFacts ==
  ASSUME NEW fate \in Fates, NEW k \in 1..5, NEW lba \in Nat, NEW at, NEW size \in Nat
  PROVE  LET a == DirectAnswer(fate, k, lba, at, size)
         IN /\ a \in {Sent, Lost, SUCCESS, OUT_OF_BOUNDS, FRAGMENTED_MEMORY, NO_RESOURCES, UNKNOWN_ERROR}
            /\ fate = [j \in 1..5 |-> Sent] => a \in {Sent, SUCCESS, OUT_OF_BOUNDS, FRAGMENTED_MEMORY}
            /\ size > 0 => a # SUCCESS
            /\ lba + Sectors(size) <= sector_count => a # OUT_OF_BOUNDS
            /\ a = FRAGMENTED_MEMORY => Len(Table(at, size)) > TableSize
            /\ a \in {Sent, Lost} => lba + Sectors(size) <= sector_count
<1>1. FRAGMENTED_MEMORY \notin {Sent, Lost, SUCCESS, OUT_OF_BOUNDS, NO_RESOURCES, UNKNOWN_ERROR}
  BY DEF FRAGMENTED_MEMORY, Sent, Lost, SUCCESS, OUT_OF_BOUNDS, NO_RESOURCES, UNKNOWN_ERROR
<1>. DEFINE a == CommandAnswer(fate, k, lba, size)
<1>2. /\ a \in {Sent, Lost, SUCCESS, OUT_OF_BOUNDS, NO_RESOURCES, UNKNOWN_ERROR}
      /\ fate = [j \in 1..5 |-> Sent] => a \in {Sent, SUCCESS, OUT_OF_BOUNDS}
      /\ size > 0 => a # SUCCESS
      /\ lba + Sectors(size) <= sector_count => a # OUT_OF_BOUNDS
      /\ a \in {Sent, Lost} => lba + Sectors(size) <= sector_count
  BY AnswerFacts
<1>3. DirectAnswer(fate, k, lba, at, size) =
        IF a \in {Sent, Lost} /\ Len(Table(at, size)) > TableSize THEN FRAGMENTED_MEMORY ELSE a
  BY DEF DirectAnswer
<1>. HIDE DEF a
<1>. QED BY <1>1, <1>2, <1>3

\* The writes of whole sectors.
LEMMA WriteDirectFacts ==
  ASSUME NEW fate \in Fates, NEW bytes, NEW at, NEW offset \in Nat, NEW size \in Nat,
         Aligned(offset, size), DOMAIN disk \subseteq Nat,
         NEW r \in WriteDirect(bytes, fate, at, offset, size)
  PROVE  Written(r, bytes, fate, offset, size)
<1>0. sector_size \in Nat \ {0}
  BY SizeFacts
<1>. DEFINE given == size \div sector_size
            m == Sectors(given) * sector_size
            Place(p) == LET i == p - offset
                        IN CASE i \in 0..given - 1 -> bytes[i + 1]
                             [] i \in given..m - 1 -> Unknown
                             [] OTHER -> disk[p]
            done == [p \in DOMAIN disk |-> Place(p)]
<1>1. given \in Nat /\ size = given * sector_size
  <2>1. size = ((size \div sector_size) * sector_size) + (size % sector_size) /\ given \in Nat
    BY <1>0, Division
  <2>2. size % sector_size = 0
    BY DEF Aligned
  <2>3. given * sector_size \in Nat
    BY <1>0, <2>1
  <2>. QED BY <2>1, <2>2, <2>3
<1>. HIDE DEF given
<1>2. given <= size
  BY <1>0, <1>1
<1>3. m \in Nat /\ m <= size
  <2>1. Sectors(given) \in Nat /\ Sectors(given) <= given
    BY <1>1, <1>2, SectorsFacts
  <2>. HIDE DEF m
  <2>. DEFINE d == given - Sectors(given)
  <2>2. d \in Nat /\ given = Sectors(given) + d
    BY <1>1, <2>1
  <2>. HIDE DEF d
  <2>3. given * sector_size = Sectors(given) * sector_size + d * sector_size
    BY <1>0, <2>1, <2>2
  <2>4. d * sector_size \in Nat /\ Sectors(given) * sector_size \in Nat
    BY <1>0, <2>1, <2>2
  <2>. QED BY <1>1, <2>3, <2>4 DEF m
<1>. HIDE DEF m
<1>4. ASSUME NEW p \in DOMAIN disk, p - offset \notin 0..size - 1 PROVE Place(p) = disk[p]
  <2>1. p \in Nat
    OBVIOUS
  <2>2. p - offset \notin 0..given - 1 /\ p - offset \notin given..m - 1
    BY <1>1, <1>2, <1>3, <1>4, <2>1
  <2>. QED BY <2>2
<1>5. r.disk \in {disk, done}
  <2>. HIDE DEF done
  <2>1. r.disk \in CASE DirectAnswer(fate, 1, offset \div sector_size, at, given) = Sent -> {done}
                     [] DirectAnswer(fate, 1, offset \div sector_size, at, given) = Lost -> {disk, done}
                     [] OTHER -> {disk}
    BY DEF WriteDirect, done, m, given
  <2>. QED BY <2>1
<1>6. DOMAIN done = DOMAIN disk /\ \A p \in DOMAIN disk : p - offset \notin 0..size - 1 => done[p] = disk[p]
  <2>. HIDE DEF Place
  <2>. QED BY <1>4
<1>. HIDE DEF done
<1>. QED BY <1>5, <1>6 DEF Written

\* The writes in one sector, through a buffer of one or two sectors.
LEMMA WriteAroundFacts ==
  ASSUME NEW fate \in Fates, NEW bytes, NEW offset \in Nat, NEW size \in Nat,
         offset % 2 = 0, offset + size <= Bytes, DOMAIN disk \subseteq Nat,
         InOneSector(offset, size) \/ InTwoSectors(offset, size),
         NEW r \in WriteAround(bytes, fate, offset, size)
  PROVE  Written(r, bytes, fate, offset, size)
<1>0. sector_size \in Nat \ {0}
  BY SizeFacts
<1>. DEFINE lba == offset \div sector_size
            start == lba * sector_size
            around == Around(offset, size)
            fetched == CommandAnswer(fate, 1, lba, around)
            answer == CommandAnswer(fate, 2, lba, around)
            Place(p) == LET i == p - start - SkipBytes(offset)
                        IN CASE i \in 0..size - 1 -> bytes[i + 1]
                             [] i \notin 0..size - 1 /\ p \in start..start + around - 1 -> Kept(p)
                             [] OTHER -> disk[p]
            done == [p \in DOMAIN disk |-> Place(p)]
<1>1. start \in Nat /\ SkipBytes(offset) \in Nat /\ start + SkipBytes(offset) = offset /\ lba \in Nat
  <2>1. SkipBytes(offset) = offset % sector_size
    BY SkipFacts
  <2>2. lba \in Nat /\ (offset % sector_size) \in Nat /\ offset = start + (offset % sector_size)
    <3>1. /\ (offset \div sector_size) \in Nat /\ (offset % sector_size) \in 0..(sector_size - 1)
          /\ offset = ((offset \div sector_size) * sector_size) + (offset % sector_size)
      BY <1>0, Division
    <3>. QED BY <1>0, <3>1
  <2>3. start \in Nat
    <3>. HIDE DEF lba
    <3>. QED BY <1>0, <2>2
  <2>. HIDE DEF start, lba
  <2>. QED BY <2>1, <2>2, <2>3
<1>2. around \in Nat \ {0} /\ (offset + size < Bytes => lba + Sectors(around) <= sector_count)
  BY AroundFacts
<1>3. \/ r.disk = disk /\ fetched # Sent /\ r.ret = Told(fetched, size)
      \/ r.disk = disk /\ answer # Sent /\ r.ret = Told(answer, size)
      \/ r.disk = done
  <2>. HIDE DEF done
  <2>1. r \in IF fetched # Sent
              THEN {[ret |-> Told(fetched, size), disk |-> disk, corrupt |-> FALSE]}
              ELSE {[ret |-> Told(answer, size), disk |-> d, corrupt |-> FALSE] :
                      d \in CASE answer = Sent -> {done} [] answer = Lost -> {disk, done}
                              [] OTHER -> {disk}}
    BY DEF WriteAround, done, around, fetched, answer, start, lba
  <2>. HIDE DEF fetched, answer
  <2>2. CASE fetched # Sent
    BY <2>1, <2>2
  <2>3. CASE fetched = Sent
    <3>1. PICK d \in (CASE answer = Sent -> {done} [] answer = Lost -> {disk, done}
                              [] OTHER -> {disk}) : r = [ret |-> Told(answer, size), disk |-> d, corrupt |-> FALSE]
      BY <2>1, <2>3
    <3>2. CASE answer = Sent
      <4>0. Sent # Lost
        BY DEF Sent, Lost
      <4>1. d = done
        BY <3>1, <3>2, <4>0
      <4>. QED BY <3>1, <4>1
    <3>3. CASE answer = Lost /\ answer # Sent
      <4>1. d \in {disk, done}
        BY <3>1, <3>3
      <4>. QED BY <3>1, <3>3, <4>1
    <3>4. CASE answer \notin {Sent, Lost}
      <4>1. d = disk
        BY <3>1, <3>4
      <4>. QED BY <3>1, <3>4, <4>1
    <3>. QED BY <3>2, <3>3, <3>4
  <2>. QED BY <2>2, <2>3
<1>. HIDE DEF around, start, lba
<1>4. ASSUME Quiet(fate, size), NEW a \in {fetched, answer}, a # Sent PROVE Told(a, size) # Value(size)
  <2>. DEFINE Facts(x) ==
         /\ x \in {Sent, Lost, SUCCESS, OUT_OF_BOUNDS, NO_RESOURCES, UNKNOWN_ERROR}
         /\ fate = [j \in 1..5 |-> Sent] => x \in {Sent, SUCCESS, OUT_OF_BOUNDS}
         /\ x # SUCCESS
         /\ lba + Sectors(around) <= sector_count => x # OUT_OF_BOUNDS
  <2>1. Facts(fetched)
    BY <1>1, <1>2, AnswerFacts
  <2>2. Facts(answer)
    BY <1>1, <1>2, AnswerFacts
  <2>. HIDE DEF fetched, answer
  <2>3. Facts(a)
    <3>. HIDE DEF Facts
    <3>. QED BY <1>4, <2>1, <2>2
  <2>4. ASSUME Told(a, size) = Value(size) PROVE a = OUT_OF_BOUNDS /\ size = 3
    <3>1. FRAGMENTED_MEMORY # a /\ SUCCESS # a
      BY <2>3 DEF FRAGMENTED_MEMORY, Sent, Lost, SUCCESS, OUT_OF_BOUNDS, NO_RESOURCES, UNKNOWN_ERROR
    <3>2. a \in {Sent, Lost, SUCCESS, OUT_OF_BOUNDS, FRAGMENTED_MEMORY, NO_RESOURCES, UNKNOWN_ERROR}
      BY <2>3
    <3>3. fate = [j \in 1..5 |-> Sent] => a \in {Sent, SUCCESS, OUT_OF_BOUNDS, FRAGMENTED_MEMORY}
      BY <2>3
    <3>. HIDE DEF Facts
    <3>. QED BY <1>4, <2>4, <3>1, <3>2, <3>3, ToldFacts
  <2>5. size = 3 => offset + size < Bytes
    BY NotThree
  <2>. QED BY <1>2, <2>3, <2>4, <2>5
<1>5. ASSUME NEW p \in DOMAIN disk
      PROVE  Place(p) = IF p - offset \in 0..size - 1 THEN bytes[p - offset + 1] ELSE disk[p]
  <2>1. p \in Nat /\ p - start - SkipBytes(offset) = p - offset
    BY <1>1
  <2>2. Place(p) = CASE p - offset \in 0..size - 1 -> bytes[p - offset + 1]
                     [] p - offset \notin 0..size - 1 /\ p \in start..start + around - 1 -> Kept(p)
                     [] OTHER -> disk[p]
    BY <2>1
  <2>. QED BY <2>2 DEF Kept
<1>6. DOMAIN done = DOMAIN disk /\ \A p \in DOMAIN disk :
        done[p] = IF p - offset \in 0..size - 1 THEN bytes[p - offset + 1] ELSE disk[p]
  <2>. HIDE DEF Place
  <2>. QED BY <1>5
<1>. HIDE DEF done, fetched, answer
<1>. QED BY <1>3, <1>4, <1>6 DEF Written

\* The writes of many sectors, in three parts.
LEMMA WriteManyFacts ==
  ASSUME NEW fate \in Fates, NEW bytes, NEW offset \in Nat, NEW size \in Nat,
         offset % 2 = 0, offset + size <= Bytes,
         NEW r \in WriteMany(fate, offset, size)
  PROVE  Written(r, bytes, fate, offset, size)
<1>0. sector_size \in Nat \ {0}
  BY SizeFacts
<1>. DEFINE f == offset \div sector_size
            l == (offset + size) \div sector_size
            first == CommandAnswer(fate, 1, f, sector_size)
            last == CommandAnswer(fate, 2, l, sector_size)
            overrun == last < 0 \/ (first < 0 /\ HeadSize(offset) < sector_size)
            e == IF first >= 0 THEN first ELSE last
<1>1. r = [ret |-> Value(e), disk |-> disk, corrupt |-> overrun]
  BY DEF WriteMany
<1>2. f \in Nat /\ l \in Nat
  <2>1. offset + size \in Nat
    OBVIOUS
  <2>. QED BY <1>0, <2>1, Division
<1>3. Sectors(sector_size) = 1
  <2>1. sector_size = 1 * sector_size
    BY <1>0
  <2>. QED BY <1>0, <2>1, SectorsFacts
<1>4. offset < Bytes => f + 1 <= sector_count
  BY WithinFacts
<1>5. offset + size < Bytes => l + 1 <= sector_count
  BY WithinFacts
<1>6. size = 3 => offset < Bytes /\ offset + size < Bytes
  BY NotThree, SizeFacts
<1>. DEFINE Facts(a, lba) ==
         /\ a \in {Sent, Lost, SUCCESS, OUT_OF_BOUNDS, NO_RESOURCES, UNKNOWN_ERROR}
         /\ fate = [j \in 1..5 |-> Sent] => a \in {Sent, SUCCESS, OUT_OF_BOUNDS}
         /\ a # SUCCESS
         /\ lba + Sectors(sector_size) <= sector_count => a # OUT_OF_BOUNDS
<1>7. Facts(first, f)
  <2>. HIDE DEF f
  <2>. QED BY <1>0, <1>2, AnswerFacts
<1>8. Facts(last, l)
  <2>. HIDE DEF l
  <2>. QED BY <1>0, <1>2, AnswerFacts
<1>. HIDE DEF first, last, f, l
<1>9. ASSUME ~overrun, Quiet(fate, size), Value(e) = Value(size) PROVE FALSE
  <2>1. last >= 0
    BY <1>8, <1>9 DEF Sent, Lost, SUCCESS, OUT_OF_BOUNDS, NO_RESOURCES, UNKNOWN_ERROR
  <2>2. e = size
    <3>. HIDE DEF e, Facts, overrun
    <3>. QED BY <1>9 DEF Value
  <2>3. PICK lba \in {f, l} : Facts(e, lba)
    <3>. HIDE DEF Facts
    <3>. QED BY <1>7, <1>8
  <2>4. e \in Nat
    BY <1>7, <1>8, <2>1 DEF Sent, Lost, SUCCESS, OUT_OF_BOUNDS, NO_RESOURCES, UNKNOWN_ERROR
  <2>. HIDE DEF e, overrun
  <2>5. e <= UNKNOWN_ERROR
    BY <2>3, <2>4 DEF Sent, Lost, SUCCESS, OUT_OF_BOUNDS, NO_RESOURCES, UNKNOWN_ERROR
  <2>6. fate = [j \in 1..5 |-> Sent]
    BY <1>9, <2>2, <2>5 DEF Quiet, UNKNOWN_ERROR
  <2>7. e = 3
    BY <2>3, <2>4, <2>6 DEF Sent, SUCCESS, OUT_OF_BOUNDS
  <2>8. lba + Sectors(sector_size) <= sector_count
    BY <1>3, <1>4, <1>5, <1>6, <2>2, <2>3, <2>7
  <2>. QED BY <2>3, <2>7, <2>8 DEF OUT_OF_BOUNDS
<1>10. r.disk = disk /\ r.ret = Value(e) /\ r.corrupt = overrun
  BY <1>1
<1>. HIDE DEF e, overrun
<1>. QED BY <1>9, <1>10 DEF Written

\* Whatever its path, a write changes nothing outside its range, and its range
\* to the bytes of the buffer when it returns the size.
LEMMA WriteEvenFacts ==
  ASSUME NEW fate \in Fates, NEW bytes, NEW at, NEW offset \in Nat, NEW size \in Nat,
         offset % 2 = 0, DOMAIN disk \subseteq Nat,
         NEW r \in WriteEven(bytes, fate, at, offset, size)
  PROVE  Written(r, bytes, fate, offset, size)
<1>1. CASE Beyond(offset, size)
  <2>1. r.disk = disk /\ r.ret = Error("OUT_OF_BOUNDS")
    BY <1>1 DEF WriteEven, Path
  <2>. QED BY <2>1 DEF Written, Error, Value
<1>2. CASE ~Beyond(offset, size)
  <2>1. offset + size <= Bytes
    BY <1>2, SizeFacts DEF Beyond
  <2>2. CASE Aligned(offset, size)
    <3>1. r \in WriteDirect(bytes, fate, at, offset, size)
      BY <1>2, <2>2 DEF WriteEven, Path
    <3>. QED BY <2>2, <3>1, WriteDirectFacts
  <2>3. CASE ~Aligned(offset, size) /\ (InOneSector(offset, size) \/ InTwoSectors(offset, size))
    <3>1. r \in WriteAround(bytes, fate, offset, size)
      BY <1>2, <2>3 DEF WriteEven, Path
    <3>. QED BY <2>1, <2>3, <3>1, WriteAroundFacts
  <2>4. CASE ~Aligned(offset, size) /\ ~(InOneSector(offset, size) \/ InTwoSectors(offset, size))
    <3>1. r \in WriteMany(fate, offset, size)
      BY <1>2, <2>4 DEF WriteEven, Path
    <3>. QED BY <2>1, <3>1, WriteManyFacts
  <2>. QED BY <2>2, <2>3, <2>4
<1>. QED BY <1>1, <1>2

-----------------------------------------------------------------------------
(* The memory behind the buffer *)

Mapped ==
  /\ mapping \in [0..Pages - 1 -> Nat]
  /\ \A v, w \in 0..Pages - 1 : mapping[v] = mapping[w] => v = w

\* Inside a page addresses go on as in its frame.
LEMMA PhysicalIn ==
  ASSUME NEW p \in Nat, NEW d \in 0..(page_size - 1)
  PROVE  Physical((p * page_size) + d) = (mapping[p] * page_size) + d
<1>. DEFINE a == (p * page_size) + d
<1>0. page_size \in Nat \ {0}
  BY SizeFacts
<1>1. a \in Nat
  BY <1>0
<1>2. (a \div page_size) = p /\ (a % page_size) = d
  <2>1. a = (p * page_size) + d
    OBVIOUS
  <2>. HIDE DEF a
  <2>. QED BY <1>0, <1>1, <2>1, DivisionUnique
<1>. HIDE DEF a
<1>3. Physical(a) = (mapping[p] * page_size) + d
  BY <1>2 DEF Physical
<1>. QED BY <1>3 DEF a

\* An address lies in one of the pages.
LEMMA AddressPage ==
  ASSUME NEW v \in Addresses
  PROVE  \E p \in 0..Pages - 1, d \in 0..(page_size - 1) : v = (p * page_size) + d
<1>0. page_size \in Nat \ {0} /\ Pages \in Nat \ {0}
  BY SizeFacts
<1>. DEFINE q == v \div page_size
            r == v % page_size
<1>1. v \in Nat /\ v < Pages * page_size
  <2>1. Pages * page_size \in Nat
    BY <1>0
  <2>. QED BY <2>1 DEF Addresses
<1>2. q \in Nat /\ r \in 0..(page_size - 1) /\ v = (q * page_size) + r
  BY <1>0, <1>1, Division
<1>. HIDE DEF q, r
<1>3. ASSUME q >= Pages PROVE FALSE
  <2>. DEFINE d == q - Pages
  <2>1. d \in Nat /\ q = Pages + d
    BY <1>0, <1>2, <1>3
  <2>. HIDE DEF d
  <2>2. q * page_size = (Pages * page_size) + (d * page_size)
    BY <1>0, <2>1
  <2>3. d * page_size \in Nat /\ Pages * page_size \in Nat
    BY <1>0, <2>1
  <2>. QED BY <1>0, <1>1, <1>2, <2>2, <2>3
<1>4. q \in 0..Pages - 1
  BY <1>0, <1>2, <1>3
<1>. QED BY <1>2, <1>4

\* No two addresses have the same place.
LEMMA PhysicalFacts ==
  ASSUME Mapped
  PROVE  /\ \A v \in Addresses : Physical(v) \in Nat
         /\ \A v, w \in Addresses : Physical(v) = Physical(w) => v = w
<1>0. page_size \in Nat \ {0} /\ Pages \in Nat \ {0}
  BY SizeFacts
<1>1. ASSUME NEW v \in Addresses PROVE Physical(v) \in Nat
  <2>1. PICK p \in 0..Pages - 1, d \in 0..(page_size - 1) : v = (p * page_size) + d
    BY AddressPage
  <2>2. Physical(v) = (mapping[p] * page_size) + d
    BY <2>1, PhysicalIn
  <2>3. mapping[p] \in Nat
    BY DEF Mapped
  <2>. QED BY <1>0, <2>2, <2>3
<1>2. ASSUME NEW v \in Addresses, NEW w \in Addresses, Physical(v) = Physical(w) PROVE v = w
  <2>1. PICK p \in 0..Pages - 1, d \in 0..(page_size - 1) : v = (p * page_size) + d
    BY AddressPage
  <2>2. PICK q \in 0..Pages - 1, e \in 0..(page_size - 1) : w = (q * page_size) + e
    BY AddressPage
  <2>3. Physical(v) = (mapping[p] * page_size) + d /\ Physical(w) = (mapping[q] * page_size) + e
    BY <2>1, <2>2, PhysicalIn
  <2>4. mapping[p] \in Nat /\ mapping[q] \in Nat
    BY DEF Mapped
  <2>. DEFINE a == Physical(v)
  <2>5. a \in Nat
    BY <1>1
  <2>6. a = (mapping[p] * page_size) + d /\ a = (mapping[q] * page_size) + e
    BY <1>2, <2>3
  <2>. HIDE DEF a
  <2>7. (a \div page_size) = mapping[p] /\ (a % page_size) = d
    BY <1>0, <2>4, <2>5, <2>6, DivisionUnique
  <2>8. (a \div page_size) = mapping[q] /\ (a % page_size) = e
    BY <1>0, <2>4, <2>5, <2>6, DivisionUnique
  <2>9. p = q
    BY <2>7, <2>8 DEF Mapped
  <2>. QED BY <2>1, <2>2, <2>7, <2>8, <2>9
<1>. QED BY <1>1, <1>2

\* The addresses of the caller's range.
LEMMA RangeAddresses ==
  ASSUME NEW at \in Nat, NEW size \in Nat, at + size <= Pages * page_size, NEW i \in 1..size
  PROVE  at + i - 1 \in Addresses
<1>1. Pages * page_size \in Nat
  BY SizeFacts
<1>. QED BY <1>1 DEF Addresses

\* A list given by its places is a sequence.
LEMMA ListFacts ==
  ASSUME NEW n \in Nat, NEW f, f = [i \in 1..n |-> f[i]]
  PROVE  f \in Seq({f[i] : i \in 1..n}) /\ Len(f) = n /\ DOMAIN f = 1..n
<1>1. f \in [1..n -> {f[i] : i \in 1..n}]
  OBVIOUS
<1>2. f \in Seq({f[i] : i \in 1..n})
  BY <1>1
<1>3. DOMAIN f = 1..Len(f) /\ Len(f) \in Nat
  BY <1>2
<1>4. Len(f) = n
  BY <1>1, <1>3
<1>. QED BY <1>1, <1>2, <1>4

\* The bytes lie at the buffer's first addresses, all else is as it was.
Laid(new, old, at, bytes, size) ==
  /\ DOMAIN new = DOMAIN old
  /\ \A v \in Addresses : Physical(v) \in DOMAIN old =>
       new[Physical(v)] = IF v - at \in 0..size - 1 THEN bytes[v - at + 1] ELSE old[Physical(v)]

\* Bytes put at places all different are there, and nothing else changed.
LEMMA PutFacts ==
  ASSUME Mapped, NEW mem, NEW at \in Nat, NEW size \in Nat, at + size <= Pages * page_size,
         NEW places, Len(places) = size, \A i \in 1..size : places[i] = Physical(at + i - 1),
         NEW bytes, Len(bytes) = size
  PROVE  Laid(Put(mem, places, bytes), mem, at, bytes, size)
<1>. DEFINE Last(p) == CHOOSE i \in 1..size : places[i] = p /\ \A j \in i + 1..size : places[j] # p
            There(p) == \E i \in 1..size : places[i] = p
            done == [p \in DOMAIN mem |-> IF There(p) THEN bytes[Last(p)] ELSE mem[p]]
<1>1. Put(mem, places, bytes) = done
  <2>1. (IF Len(places) < Len(bytes) THEN Len(places) ELSE Len(bytes)) = size
    OBVIOUS
  <2>. QED BY <2>1 DEF Put
<1>2. ASSUME NEW v \in Addresses, Physical(v) \in DOMAIN mem
      PROVE  done[Physical(v)] = IF v - at \in 0..size - 1 THEN bytes[v - at + 1] ELSE mem[Physical(v)]
  <2>0. v \in Nat
    <3>1. Pages * page_size \in Nat
      BY SizeFacts
    <3>. QED BY <3>1 DEF Addresses
  <2>1. ASSUME NEW i \in 1..size, places[i] = Physical(v) PROVE v = at + i - 1
    <3>1. at + i - 1 \in Addresses /\ Physical(at + i - 1) = Physical(v)
      BY <2>1, RangeAddresses
    <3>. QED BY <3>1, PhysicalFacts
  <2>2. CASE v - at \in 0..size - 1
    <3>. DEFINE i == v - at + 1
    <3>1. i \in 1..size /\ at + i - 1 = v
      BY <2>0, <2>2
    <3>2. places[i] = Physical(v)
      BY <3>1
    <3>3. \A j \in 1..size : places[j] = Physical(v) => j = i
      <4>. HIDE DEF i
      <4>. QED BY <2>1, <3>1
    <3>. HIDE DEF i
    <3>4. \A j \in i + 1..size : places[j] # Physical(v)
      BY <3>1, <3>3
    <3>5. Last(Physical(v)) = i
      BY <3>1, <3>2, <3>3, <3>4
    <3>6. There(Physical(v))
      BY <3>1, <3>2
    <3>. HIDE DEF Last, There
    <3>7. done[Physical(v)] = bytes[i]
      BY <1>2, <3>5, <3>6
    <3>. QED BY <2>2, <3>7 DEF i
  <2>3. CASE v - at \notin 0..size - 1
    <3>1. ~There(Physical(v))
      BY <2>0, <2>1, <2>3
    <3>. HIDE DEF Last, There
    <3>. QED BY <1>2, <2>3, <3>1
  <2>. QED BY <2>2, <2>3
<1>3. DOMAIN done = DOMAIN mem
  OBVIOUS
<1>. HIDE DEF done
<1>. QED BY <1>1, <1>2, <1>3 DEF Laid

\* memcpy lays the bytes over the caller's range.
LEMMA CopyFacts ==
  ASSUME Mapped, NEW mem, NEW at \in Nat, NEW size \in Nat, at + size <= Pages * page_size,
         NEW bytes, Len(bytes) = size
  PROVE  Laid(Copy(mem, at, bytes), mem, at, bytes, size)
<1>. DEFINE places == [i \in 1..size |-> Physical(at + i - 1)]
<1>1. Len(places) = size /\ \A i \in 1..size : places[i] = Physical(at + i - 1)
  <2>1. places = [i \in 1..size |-> places[i]]
    OBVIOUS
  <2>2. \A i \in 1..size : places[i] = Physical(at + i - 1)
    OBVIOUS
  <2>. HIDE DEF places
  <2>. QED BY <2>1, <2>2, ListFacts
<1>2. Copy(mem, at, bytes) = Put(mem, places, bytes)
  BY DEF Copy
<1>. HIDE DEF places
<1>. QED BY <1>1, <1>2, PutFacts

-----------------------------------------------------------------------------
(* The table of a buffer *)

TableOf(pieces) ==
  CHOOSE T : T = [i \in 0..Len(pieces) |-> IF i = 0 THEN <<>> ELSE Adds(T[i - 1], pieces, i)]
AddressesOf(table) ==
  CHOOSE D : D = [k \in 0..Len(table) |-> IF k = 0 THEN <<>> ELSE D[k - 1] \o Region(table[k])]

\* The table is defined piece by piece.
LEMMA TableOfFacts ==
  ASSUME NEW pieces, Len(pieces) \in Nat
  PROVE  /\ TableOf(pieces)[0] = <<>>
         /\ \A i \in 1..Len(pieces) : TableOf(pieces)[i] = Adds(TableOf(pieces)[i - 1], pieces, i)
<1>. DEFINE G(g, n) == g = [l \in 0..n |-> IF l = 0 THEN <<>> ELSE Adds(g[l - 1], pieces, l)]
            S == {n \in Nat : \E g : G(g, n)}
            count == Len(pieces)
            F(s) == [l \in 0..count |-> IF l = 0 THEN <<>> ELSE Adds(s[l - 1], pieces, l)]
            s == CHOOSE f : f = F(f)
<1>0. count \in Nat /\ 0 \in 0..count /\ \A l \in 1..count : l \in 0..count /\ l # 0
  OBVIOUS
<1>1. 0 \in S
  <2>. DEFINE g == [l \in 0..0 |-> <<>>]
  <2>1. G(g, 0)
    OBVIOUS
  <2>. HIDE DEF G, g
  <2>. QED BY <2>1
<1>2. ASSUME NEW n \in Nat, n \in S PROVE n + 1 \in S
  <2>1. PICK h : G(h, n)
    BY <1>2
  <2>. DEFINE b == n + 1
              g == [l \in 0..b |-> IF l = b THEN Adds(h[b - 1], pieces, b) ELSE h[l]]
  <2>2. ASSUME NEW l \in 0..b
        PROVE  g[l] = IF l = 0 THEN <<>> ELSE Adds(g[l - 1], pieces, l)
    <3>1. CASE l = b
      <4>1. l # 0 /\ b - 1 \in 0..b /\ b - 1 # b
        BY <3>1
      <4>. QED BY <3>1, <4>1
    <3>2. CASE l # b
      <4>1. l \in 0..n
        BY <3>2
      <4>2. l = 0 \/ (l - 1 \in 0..b /\ l - 1 # b)
        OBVIOUS
      <4>. QED BY <2>1, <3>2, <4>1, <4>2
    <3>. QED BY <3>1, <3>2
  <2>3. G(g, n + 1)
    BY <2>2
  <2>. HIDE DEF G, g
  <2>. QED BY <2>3
<1>3. Nat \subseteq S
  <2>. HIDE DEF S
  <2>. QED BY <1>1, <1>2, SetInduction
<1>4. PICK g : G(g, count)
  <2>. HIDE DEF G, count
  <2>. QED BY <1>0, <1>3
<1>5. g = F(g)
  BY <1>0, <1>4
<1>6. s = F(s)
  <2>. HIDE DEF F
  <2>. QED BY <1>5
<1>7. TableOf(pieces) = s
  BY DEF TableOf
<1>. HIDE DEF s
<1>8. \A l \in 0..count : s[l] = IF l = 0 THEN <<>> ELSE Adds(s[l - 1], pieces, l)
  BY <1>6
<1>. QED BY <1>0, <1>7, <1>8

\* And its addresses region by region.
LEMMA AddressesOfFacts ==
  ASSUME NEW table, Len(table) \in Nat
  PROVE  /\ AddressesOf(table)[0] = <<>>
         /\ \A k \in 1..Len(table) : AddressesOf(table)[k] = AddressesOf(table)[k - 1] \o Region(table[k])
<1>. DEFINE G(g, n) == g = [l \in 0..n |-> IF l = 0 THEN <<>> ELSE g[l - 1] \o Region(table[l])]
            S == {n \in Nat : \E g : G(g, n)}
            count == Len(table)
            F(s) == [l \in 0..count |-> IF l = 0 THEN <<>> ELSE s[l - 1] \o Region(table[l])]
            s == CHOOSE f : f = F(f)
<1>0. count \in Nat /\ 0 \in 0..count /\ \A l \in 1..count : l \in 0..count /\ l # 0
  OBVIOUS
<1>1. 0 \in S
  <2>. DEFINE g == [l \in 0..0 |-> <<>>]
  <2>1. G(g, 0)
    OBVIOUS
  <2>. HIDE DEF G, g
  <2>. QED BY <2>1
<1>2. ASSUME NEW n \in Nat, n \in S PROVE n + 1 \in S
  <2>1. PICK h : G(h, n)
    BY <1>2
  <2>. DEFINE b == n + 1
              g == [l \in 0..b |-> IF l = b THEN h[b - 1] \o Region(table[b]) ELSE h[l]]
  <2>2. ASSUME NEW l \in 0..b
        PROVE  g[l] = IF l = 0 THEN <<>> ELSE g[l - 1] \o Region(table[l])
    <3>1. CASE l = b
      <4>1. l # 0 /\ b - 1 \in 0..b /\ b - 1 # b
        BY <3>1
      <4>. QED BY <3>1, <4>1
    <3>2. CASE l # b
      <4>1. l \in 0..n
        BY <3>2
      <4>2. l = 0 \/ (l - 1 \in 0..b /\ l - 1 # b)
        OBVIOUS
      <4>. QED BY <2>1, <3>2, <4>1, <4>2
    <3>. QED BY <3>1, <3>2
  <2>3. G(g, n + 1)
    BY <2>2
  <2>. HIDE DEF G, g
  <2>. QED BY <2>3
<1>3. Nat \subseteq S
  <2>. HIDE DEF S
  <2>. QED BY <1>1, <1>2, SetInduction
<1>4. PICK g : G(g, count)
  <2>. HIDE DEF G, count
  <2>. QED BY <1>0, <1>3
<1>5. g = F(g)
  BY <1>0, <1>4
<1>6. s = F(s)
  <2>. HIDE DEF F
  <2>. QED BY <1>5
<1>7. AddressesOf(table) = s
  BY DEF AddressesOf
<1>. HIDE DEF s
<1>8. \A l \in 0..count : s[l] = IF l = 0 THEN <<>> ELSE s[l - 1] \o Region(table[l])
  BY <1>6
<1>. QED BY <1>0, <1>7, <1>8

\* Table and Described are TableOf and AddressesOf.
LEMMA Unfolded ==
  /\ \A at, size : Table(at, size) = TableOf(Pieces(at, size))[Len(Pieces(at, size))]
  /\ \A table : Described(table) = AddressesOf(table)[Len(table)]
<1>1. ASSUME NEW at, NEW size PROVE Table(at, size) = TableOf(Pieces(at, size))[Len(Pieces(at, size))]
  BY DEF Table, TableOf
<1>2. ASSUME NEW table PROVE Described(table) = AddressesOf(table)[Len(table)]
  BY DEF Described, AddressesOf
<1>. QED BY <1>1, <1>2

Descriptors == [base : Nat, byte_count : Nat]

\* A region in order.
LEMMA RegionFacts ==
  ASSUME NEW r \in Descriptors
  PROVE  /\ Region(r) \in Seq(Nat) /\ Len(Region(r)) = r.byte_count + 1
         /\ \A i \in 1..r.byte_count + 1 : Region(r)[i] = r.base + i - 1
<1>. DEFINE n == r.byte_count + 1
            f == [i \in 1..n |-> r.base + i - 1]
<1>0. r.byte_count \in Nat /\ r.base \in Nat /\ n \in Nat
  BY DEF Descriptors
<1>1. Region(r) = f
  BY DEF Region
<1>2. f \in [1..n -> Nat]
  BY <1>0
<1>3. \A i \in 1..n : f[i] = r.base + i - 1
  OBVIOUS
<1>. HIDE DEF f, n
<1>4. f \in Seq(Nat) /\ DOMAIN f = 1..Len(f) /\ Len(f) \in Nat
  BY <1>0, <1>2
<1>5. Len(f) = n
  BY <1>0, <1>2, <1>4
<1>. QED BY <1>1, <1>3, <1>4, <1>5 DEF n

\* A region that grows keeps its addresses and gets the next ones.
LEMMA Joined ==
  ASSUME NEW a \in Seq(Nat), NEW b \in Seq(Nat)
  PROVE  /\ a \o b \in Seq(Nat) /\ Len(a \o b) = Len(a) + Len(b)
         /\ \A i \in 1..Len(a) : (a \o b)[i] = a[i]
         /\ \A i \in 1..Len(b) : (a \o b)[Len(a) + i] = b[i]
OBVIOUS

\* Tables that begin alike describe the same addresses there.
LEMMA Prefix ==
  ASSUME NEW t \in Seq(Descriptors), NEW u \in Seq(Descriptors),
         NEW n \in 0..Len(t), n <= Len(u), \A k \in 1..n : t[k] = u[k]
  PROVE  AddressesOf(t)[n] = AddressesOf(u)[n] /\ AddressesOf(t)[n] \in Seq(Nat)
<1>. DEFINE d == AddressesOf(t)
            e == AddressesOf(u)
            S == {k \in Nat : k <= n => (d[k] = e[k] /\ d[k] \in Seq(Nat))}
<1>0. Len(t) \in Nat /\ Len(u) \in Nat /\ n \in Nat
  OBVIOUS
<1>1. d[0] = <<>> /\ \A k \in 1..Len(t) : d[k] = d[k - 1] \o Region(t[k])
  BY <1>0, AddressesOfFacts
<1>2. e[0] = <<>> /\ \A k \in 1..Len(u) : e[k] = e[k - 1] \o Region(u[k])
  BY <1>0, AddressesOfFacts
<1>. HIDE DEF d, e
<1>3. 0 \in S
  <2>1. <<>> \in Seq(Nat)
    OBVIOUS
  <2>2. d[0] = e[0] /\ d[0] \in Seq(Nat)
    BY <1>1, <1>2, <2>1
  <2>. QED BY <2>2
<1>4. ASSUME NEW k \in Nat, k \in S PROVE k + 1 \in S
  <2>. SUFFICES ASSUME k + 1 <= n PROVE d[k + 1] = e[k + 1] /\ d[k + 1] \in Seq(Nat)
    OBVIOUS
  <2>1. d[k] = e[k] /\ d[k] \in Seq(Nat)
    BY <1>4, <1>0
  <2>. DEFINE b == k + 1
  <2>2. b \in 1..Len(t) /\ b \in 1..Len(u) /\ b \in 1..n /\ b - 1 = k
    BY <1>0
  <2>. HIDE DEF b
  <2>3. d[b] = d[k] \o Region(t[b]) /\ e[b] = e[k] \o Region(u[b])
    BY <1>1, <1>2, <2>2
  <2>4. t[b] = u[b] /\ t[b] \in Descriptors
    BY <2>2
  <2>5. Region(t[b]) \in Seq(Nat)
    BY <2>4, RegionFacts
  <2>6. d[b] = e[b] /\ d[b] \in Seq(Nat)
    BY <2>1, <2>3, <2>4, <2>5
  <2>. QED BY <2>6 DEF b
<1>5. Nat \subseteq S
  <2>. HIDE DEF S
  <2>. QED BY <1>3, <1>4, SetInduction
<1>6. n \in S
  <2>. HIDE DEF S
  <2>. QED BY <1>0, <1>5
<1>. QED BY <1>0, <1>6 DEF d, e

\* A new region comes behind all others.
LEMMA DescribedAppend ==
  ASSUME NEW t \in Seq(Descriptors), NEW r \in Descriptors
  PROVE  LET d == Described(t)
             e == Described(Append(t, r))
         IN /\ d \in Seq(Nat) /\ e \in Seq(Nat)
            /\ Len(e) = Len(d) + r.byte_count + 1
            /\ \A i \in 1..Len(d) : e[i] = d[i]
            /\ \A i \in 1..r.byte_count + 1 : e[Len(d) + i] = r.base + i - 1
<1>. DEFINE u == Append(t, r)
            n == Len(t)
            d == Described(t)
            e == Described(u)
<1>1. u \in Seq(Descriptors) /\ Len(u) = n + 1 /\ n \in Nat
      /\ u[n + 1] = r /\ \A k \in 1..n : u[k] = t[k]
  OBVIOUS
<1>. HIDE DEF u
<1>2. d = AddressesOf(t)[n] /\ e = AddressesOf(u)[n + 1]
  BY <1>1, Unfolded
<1>3. AddressesOf(t)[n] = AddressesOf(u)[n] /\ AddressesOf(t)[n] \in Seq(Nat)
  BY <1>1, Prefix, SMTT(30)
<1>4. e = AddressesOf(u)[n] \o Region(r)
  <2>. DEFINE b == n + 1
  <2>1. b \in 1..Len(u) /\ b - 1 = n /\ u[b] = r
    BY <1>1
  <2>2. AddressesOf(u)[b] = AddressesOf(u)[b - 1] \o Region(u[b])
    <3>. HIDE DEF b
    <3>1. Len(u) \in Nat
      BY <1>1
    <3>. HIDE DEF n
    <3>. QED BY <2>1, <3>1, AddressesOfFacts
  <2>. QED BY <1>2, <2>1, <2>2
<1>. HIDE DEF n, d, e
<1>. DEFINE g == Region(r)
<1>5. e = d \o g /\ d \in Seq(Nat)
  BY <1>2, <1>3, <1>4
<1>6. g \in Seq(Nat) /\ Len(g) = r.byte_count + 1 /\ \A i \in 1..r.byte_count + 1 : g[i] = r.base + i - 1
  BY RegionFacts
<1>7. r.byte_count \in Nat
  BY DEF Descriptors
<1>. HIDE DEF g
<1>8. e \in Seq(Nat) /\ Len(e) = Len(d) + Len(g) /\ Len(d) \in Nat
  <2>1. Len(d) \in Nat
    BY <1>5
  <2>. QED BY <1>5, <1>6, <2>1, Joined
<1>9. \A i \in 1..Len(d) : e[i] = d[i]
  BY <1>5, <1>6, Joined
<1>10. \A i \in 1..Len(g) : e[Len(d) + i] = g[i]
  BY <1>5, <1>6, Joined
<1>11. Len(e) = Len(d) + r.byte_count + 1
  BY <1>6, <1>7, <1>8
<1>. QED BY <1>5, <1>6, <1>8, <1>9, <1>10, <1>11 DEF d, e, u

\* Table u describes what t does, and c bytes that follow it in its last region.
Longer(u, t, c) ==
  LET d == Described(t)
      e == Described(u)
      end == t[Len(t)].base + t[Len(t)].byte_count + 1
  IN /\ u \in Seq(Descriptors) /\ Len(u) = Len(t) /\ u # <<>>
     /\ u[Len(u)].base + u[Len(u)].byte_count + 1 = end + c
     /\ d \in Seq(Nat) /\ e \in Seq(Nat)
     /\ Len(e) = Len(d) + c
     /\ \A i \in 1..Len(d) : e[i] = d[i]
     /\ \A i \in 1..c : e[Len(d) + i] = end + i - 1

\* A longer last region describes what it did, and what follows it.
LEMMA DescribedLonger ==
  ASSUME NEW t \in Seq(Descriptors), t # <<>>, NEW c \in Nat
  PROVE  Longer([t EXCEPT ![Len(t)].byte_count = @ + c], t, c)
<1>. DEFINE n == Len(t)
            x == t[n]
            y == [x EXCEPT !.byte_count = @ + c]
            u == [t EXCEPT ![n].byte_count = @ + c]
            d == Described(t)
            e == Described(u)
            p == n - 1
<1>1. n \in Nat \ {0} /\ p \in Nat /\ p + 1 = n /\ n \in 1..n
  OBVIOUS
<1>2. x \in Descriptors /\ x.base \in Nat /\ x.byte_count \in Nat
  <2>1. x \in Descriptors
    BY <1>1
  <2>. HIDE DEF x
  <2>. QED BY <2>1 DEF Descriptors
<1>3. y \in Descriptors /\ y.base = x.base /\ y.byte_count = x.byte_count + c
  BY <1>2 DEF Descriptors
<1>4. u = [t EXCEPT ![n] = y]
  BY <1>1
<1>. HIDE DEF y, n
<1>5. u \in Seq(Descriptors) /\ Len(u) = n /\ u[n] = y /\ \A k \in 1..p : u[k] = t[k]
  BY <1>1, <1>3, <1>4 DEF n
<1>. HIDE DEF x, u, p
<1>6. d = AddressesOf(t)[n] /\ e = AddressesOf(u)[n]
  BY <1>5, Unfolded DEF n
<1>. DEFINE a == AddressesOf(t)[p]
            g == Region(x)
            h == Region(y)
<1>7. a = AddressesOf(u)[p] /\ a \in Seq(Nat)
  <2>1. p \in 0..Len(t) /\ p <= Len(u)
    BY <1>1, <1>5 DEF n
  <2>. QED BY <1>5, <2>1, Prefix
<1>8. d = a \o g
  <2>1. n \in 1..Len(t) /\ n - 1 = p
    BY <1>1 DEF n, p
  <2>2. AddressesOf(t)[n] = AddressesOf(t)[n - 1] \o Region(t[n])
    <3>1. Len(t) \in Nat
      OBVIOUS
    <3>. QED BY <2>1, <3>1, AddressesOfFacts
  <2>. QED BY <1>6, <2>1, <2>2 DEF x
<1>9. e = a \o h
  <2>1. n \in 1..Len(u) /\ n - 1 = p
    BY <1>1, <1>5 DEF p
  <2>2. AddressesOf(u)[n] = AddressesOf(u)[n - 1] \o Region(u[n])
    <3>1. Len(u) \in Nat
      BY <1>5
    <3>. QED BY <2>1, <3>1, AddressesOfFacts
  <2>. QED BY <1>5, <1>6, <1>7, <2>1, <2>2
<1>10. g \in Seq(Nat) /\ Len(g) = x.byte_count + 1 /\ \A i \in 1..x.byte_count + 1 : g[i] = x.base + i - 1
  BY <1>2, RegionFacts
<1>11. h \in Seq(Nat) /\ Len(h) = y.byte_count + 1 /\ \A i \in 1..y.byte_count + 1 : h[i] = y.base + i - 1
  BY <1>3, RegionFacts
<1>. HIDE DEF a, g, h, d, e
<1>12. d \in Seq(Nat) /\ e \in Seq(Nat) /\ Len(d) = Len(a) + Len(g) /\ Len(e) = Len(a) + Len(h) /\ Len(a) \in Nat
  <2>1. Len(a) \in Nat
    BY <1>7
  <2>2. a \o g \in Seq(Nat) /\ Len(a \o g) = Len(a) + Len(g)
    BY <1>7, <1>10, Joined
  <2>3. a \o h \in Seq(Nat) /\ Len(a \o h) = Len(a) + Len(h)
    BY <1>7, <1>11, Joined
  <2>. QED BY <1>8, <1>9, <2>1, <2>2, <2>3
<1>18. /\ \A i \in 1..Len(a) : d[i] = a[i] /\ e[i] = a[i]
       /\ \A i \in 1..Len(g) : d[Len(a) + i] = g[i]
       /\ \A i \in 1..Len(h) : e[Len(a) + i] = h[i]
  BY <1>7, <1>8, <1>9, <1>10, <1>11, Joined, SMTT(30)
<1>13. Len(e) = Len(d) + c
  BY <1>2, <1>3, <1>10, <1>11, <1>12, SMTT(30)
<1>. DEFINE B == x.byte_count
            X == x.base
            la == Len(a)
            lg == Len(g)
            lh == Len(h)
            ld == Len(d)
<1>19. B \in Nat /\ X \in Nat /\ la \in Nat /\ lg = B + 1 /\ lh = B + c + 1 /\ ld = la + lg
  BY <1>2, <1>3, <1>10, <1>11, <1>12
<1>. HIDE DEF B, X, la, lg, lh, ld
<1>14. ASSUME NEW i \in 1..Len(d) PROVE e[i] = d[i]
  <2>1. CASE i <= Len(a)
    <3>1. d[i] = a[i] /\ e[i] = a[i]
      BY <1>12, <1>18, <2>1
    <3>. QED BY <3>1
  <2>2. CASE i > Len(a)
    <3>. DEFINE j == i - Len(a)
    <3>1. j \in 1..Len(g) /\ j \in 1..Len(h) /\ i = Len(a) + j
      <4>1. i \in 1..ld /\ i > la
        BY <2>2 DEF ld, la
      <4>2. (i - la) \in 1..lg /\ (i - la) \in 1..lh /\ i = la + (i - la)
        BY <1>19, <4>1
      <4>. QED BY <4>2 DEF la, lg, lh
    <3>. HIDE DEF j
    <3>2. d[i] = g[j] /\ e[i] = h[j]
      BY <1>18, <3>1
    <3>. QED BY <1>3, <1>10, <1>11, <3>1, <3>2
  <2>. QED BY <1>12, <2>1, <2>2
<1>15. ASSUME NEW i \in 1..c PROVE e[Len(d) + i] = x.base + x.byte_count + 1 + i - 1
  <2>. DEFINE j == Len(g) + i
              k == Len(d) + i
  <2>1. j \in 1..Len(h) /\ k = Len(a) + j /\ j = x.byte_count + 1 + i
    <3>1. (lg + i) \in 1..lh /\ ld + i = la + (lg + i) /\ lg + i = B + 1 + i
      BY <1>19
    <3>. QED BY <3>1 DEF la, lg, lh, ld, B
  <2>. HIDE DEF j, k
  <2>2. e[k] = h[j]
    BY <1>18, <2>1
  <2>3. h[j] = x.base + j - 1
    BY <1>3, <1>11, <2>1
  <2>4. e[k] = x.base + x.byte_count + 1 + i - 1
    <3>1. X + B + 1 + i - 1 = X + (B + 1 + i) - 1
      BY <1>19
    <3>. QED BY <2>1, <2>2, <2>3, <3>1 DEF X, B
  <2>. QED BY <2>4 DEF k
<1>16. u # <<>>
  BY <1>1, <1>5
<1>17. u[Len(u)].base + u[Len(u)].byte_count + 1 = x.base + x.byte_count + 1 + c
  BY <1>2, <1>3, <1>5
<1>. QED BY <1>5, <1>12, <1>13, <1>14, <1>15, <1>16, <1>17 DEF Longer, d, e, u, x, n

-----------------------------------------------------------------------------
(* The pieces of a buffer *)

\* Its pages, and where the piece in the i-th of them starts and ends.
FirstPage(at) == at \div page_size
Count(at, size) == ((at + size - 1) \div page_size) - FirstPage(at) + 1
StartOf(at, i) == IF i = 1 THEN at ELSE (FirstPage(at) + i - 1) * page_size
EndOf(at, size, i) == IF i = Count(at, size) THEN at + size ELSE (FirstPage(at) + i) * page_size

\* The pieces of a buffer that is not empty.
LEMMA PiecesFacts ==
  ASSUME NEW at \in Nat, NEW size \in Nat, size > 0
  PROVE  /\ Count(at, size) \in Nat \ {0} /\ Len(Pieces(at, size)) = Count(at, size)
         /\ \A i \in 1..Count(at, size) :
              Pieces(at, size)[i] = [base |-> Physical(StartOf(at, i)),
                                     size |-> EndOf(at, size, i) - StartOf(at, i)]
<1>. DEFINE z == at + size - 1
            first == at \div page_size
            last == z \div page_size
            n == last - first + 1
            Start(p) == IF p = first THEN at ELSE p * page_size
            End(p) == IF p = last THEN at + size ELSE (p + 1) * page_size
            P(i) == [base |-> Physical(Start(first + i - 1)),
                     size |-> End(first + i - 1) - Start(first + i - 1)]
            pieces == [i \in 1..n |-> P(i)]
<1>0. page_size \in Nat \ {0}
  BY SizeFacts
<1>1. first \in Nat /\ last \in Nat /\ first <= last
  <2>1. z \in Nat /\ at <= z
    OBVIOUS
  <2>. DEFINE r == at % page_size
              u == z % page_size
  <2>2. first \in Nat /\ r \in 0..(page_size - 1) /\ at = (first * page_size) + r
    BY <1>0, Division
  <2>3. last \in Nat /\ u \in 0..(page_size - 1) /\ z = (last * page_size) + u
    <3>. HIDE DEF z
    <3>. QED BY <1>0, <2>1, Division
  <2>. HIDE DEF z, first, last, r, u
  <2>4. ASSUME last < first PROVE FALSE
    <3>. DEFINE d == first - last - 1
    <3>1. d \in Nat /\ first = last + 1 + d
      BY <2>2, <2>3, <2>4
    <3>. HIDE DEF d
    <3>2. first * page_size = (last * page_size) + page_size + (d * page_size)
      BY <1>0, <2>3, <3>1
    <3>3. last * page_size \in Nat /\ d * page_size \in Nat
      BY <1>0, <2>3, <3>1
    <3>. QED BY <1>0, <2>1, <2>2, <2>3, <3>2, <3>3
  <2>. QED BY <2>2, <2>3, <2>4
<1>2. Pieces(at, size) = pieces
  BY DEF Pieces
<1>3. Count(at, size) = n /\ FirstPage(at) = first
  BY DEF Count, FirstPage
<1>. HIDE DEF first, last
<1>4. n \in Nat \ {0}
  BY <1>1
<1>5. Len(pieces) = n
  <2>1. pieces = [i \in 1..n |-> pieces[i]]
    OBVIOUS
  <2>. HIDE DEF pieces, n
  <2>. QED BY <1>4, <2>1, ListFacts
<1>6. ASSUME NEW i \in 1..n
      PROVE  pieces[i] = [base |-> Physical(StartOf(at, i)), size |-> EndOf(at, size, i) - StartOf(at, i)]
  <2>1. first + i - 1 = first <=> i = 1
    BY <1>1
  <2>2. first + i - 1 = last <=> i = n
    BY <1>1
  <2>3. first + i - 1 + 1 = first + i
    BY <1>1
  <2>4. Start(first + i - 1) = StartOf(at, i)
    BY <1>3, <2>1 DEF StartOf
  <2>5. End(first + i - 1) = EndOf(at, size, i)
    <3>. HIDE DEF n
    <3>. QED BY <1>3, <2>2, <2>3 DEF EndOf
  <2>6. pieces[i] = P(i)
    OBVIOUS
  <2>. HIDE DEF pieces, Start, End
  <2>. QED BY <2>4, <2>5, <2>6
<1>. HIDE DEF pieces, n
<1>. QED BY <1>2, <1>3, <1>4, <1>5, <1>6

\* The pieces follow each other, each in its page, from the buffer's first
\* byte to its last.
LEMMA PlacesFacts ==
  ASSUME NEW at \in Nat, NEW size \in Nat, size > 0, NEW i \in 1..Count(at, size)
  PROVE  LET p == FirstPage(at) + i - 1
         IN /\ p \in Nat
            /\ StartOf(at, i) \in Nat /\ EndOf(at, size, i) \in Nat
            /\ StartOf(at, i) < EndOf(at, size, i)
            /\ p * page_size <= StartOf(at, i)
            /\ EndOf(at, size, i) <= (p * page_size) + page_size
            /\ i = 1 => StartOf(at, i) = at
            /\ i > 1 => /\ StartOf(at, i) = p * page_size
                        /\ EndOf(at, size, i - 1) = StartOf(at, i)
            /\ i = Count(at, size) => EndOf(at, size, i) = at + size
            /\ EndOf(at, size, i) <= at + size
            /\ at <= StartOf(at, i)
<1>. DEFINE z == at + size - 1
            first == at \div page_size
            last == z \div page_size
            n == Count(at, size)
            r == at % page_size
            u == z % page_size
            p == FirstPage(at) + i - 1
<1>0. page_size \in Nat \ {0} /\ n \in Nat \ {0}
  BY SizeFacts, PiecesFacts
<1>1. first \in Nat /\ r \in 0..(page_size - 1) /\ at = (first * page_size) + r
  BY <1>0, Division
<1>2. last \in Nat /\ u \in 0..(page_size - 1) /\ z = (last * page_size) + u
  <2>1. z \in Nat
    OBVIOUS
  <2>. HIDE DEF z
  <2>. QED BY <1>0, <2>1, Division
<1>3. n = last - first + 1 /\ FirstPage(at) = first /\ p = first + i - 1
  BY DEF Count, FirstPage
<1>. HIDE DEF first, last, n, r, u, p
<1>4. i \in 1..n
  BY DEF n
<1>5. p \in Nat /\ p <= last
  BY <1>0, <1>1, <1>2, <1>3, <1>4
<1>. DEFINE s == StartOf(at, i)
            e == EndOf(at, size, i)
            pp == p * page_size
            fp == first * page_size
            lp == last * page_size
<1>6. pp \in Nat /\ fp \in Nat /\ lp \in Nat
  BY <1>0, <1>1, <1>2, <1>5
<1>7. p < last => pp + page_size <= lp
  <2>. SUFFICES ASSUME p < last PROVE pp + page_size <= lp
    OBVIOUS
  <2>. DEFINE d == last - p - 1
  <2>1. d \in Nat /\ last = p + 1 + d
    BY <1>2, <1>5
  <2>. HIDE DEF d
  <2>2. lp = pp + page_size + (d * page_size)
    BY <1>0, <1>5, <2>1
  <2>3. d * page_size \in Nat
    BY <1>0, <2>1
  <2>. HIDE DEF lp, pp
  <2>. QED BY <1>0, <1>6, <2>2, <2>3
<1>8. i > 1 => fp + page_size <= pp
  <2>. SUFFICES ASSUME i > 1 PROVE fp + page_size <= pp
    OBVIOUS
  <2>. DEFINE d == i - 2
  <2>1. d \in Nat /\ p = first + 1 + d
    BY <1>0, <1>1, <1>3, <1>4
  <2>. HIDE DEF d
  <2>2. pp = fp + page_size + (d * page_size)
    BY <1>0, <1>1, <2>1
  <2>3. d * page_size \in Nat
    BY <1>0, <2>1
  <2>. HIDE DEF fp, pp
  <2>. QED BY <1>0, <1>6, <2>2, <2>3
<1>9. (p + 1) * page_size = pp + page_size
  BY <1>0, <1>5
<1>10. (i = n) <=> (p = last)
  BY <1>0, <1>1, <1>2, <1>3, <1>4
<1>11. s = IF i = 1 THEN at ELSE pp
  BY <1>3 DEF StartOf
<1>12. e = IF i = n THEN at + size ELSE pp + page_size
  <2>1. FirstPage(at) + i = p + 1
    BY <1>1, <1>3, <1>4, <1>0
  <2>. QED BY <1>9, <2>1 DEF EndOf, n
<1>13. i > 1 => EndOf(at, size, i - 1) = pp
  <2>. SUFFICES ASSUME i > 1 PROVE EndOf(at, size, i - 1) = pp
    OBVIOUS
  <2>1. i - 1 # n /\ FirstPage(at) + (i - 1) = p
    BY <1>0, <1>1, <1>3, <1>4
  <2>. QED BY <2>1 DEF EndOf, n
<1>14. i = 1 => p = first
  BY <1>1, <1>3
<1>15. i = 1 => pp = fp
  BY <1>14
<1>16. p = last => pp = lp
  OBVIOUS
<1>17. i = 1 \/ i > 1
  BY <1>0, <1>4
<1>18. p = last \/ p < last
  BY <1>2, <1>5
<1>19. z + 1 = at + size
  OBVIOUS
<1>. HIDE DEF s, e, pp, fp, lp, z
<1>24. u \in Nat /\ u < page_size /\ r \in Nat /\ r < page_size
  BY <1>0, <1>1, <1>2
<1>25. /\ s \in Nat /\ pp <= s /\ at <= s /\ s < pp + page_size
       /\ fp <= at /\ (i = 1 => s = at) /\ (i > 1 => s = pp)
  <2>1. at = fp + r
    BY <1>1 DEF fp
  <2>2. CASE i = 1
    BY <2>1, <2>2, <1>0, <1>6, <1>11, <1>15, <1>24
  <2>3. CASE i > 1
    <3>1. s = pp /\ fp + page_size <= pp
      BY <1>4, <1>8, <1>11, <2>3
    <3>. QED BY <2>1, <2>3, <3>1, <1>0, <1>6, <1>24
  <2>. QED BY <1>17, <2>2, <2>3
<1>26. /\ e \in Nat /\ e <= pp + page_size /\ e <= at + size
       /\ s < e
  <2>1. at + size = lp + u + 1
    BY <1>2, <1>19 DEF lp
  <2>2. CASE p = last
    <3>1. e = at + size /\ pp = lp
      BY <1>10, <1>12, <1>16, <2>2
    <3>2. s < e
      <4>1. CASE i = 1
        BY <1>25, <3>1, <4>1
      <4>2. CASE i > 1
        BY <1>6, <1>24, <1>25, <2>1, <3>1, <4>2
      <4>. QED BY <1>17, <4>1, <4>2
    <3>. QED BY <1>0, <1>6, <1>24, <2>1, <3>1, <3>2
  <2>3. CASE p < last
    <3>1. e = pp + page_size /\ pp + page_size <= lp
      BY <1>7, <1>10, <1>12, <2>3, <1>2, <1>5
    <3>. QED BY <1>0, <1>6, <1>24, <1>25, <2>1, <3>1
  <2>. QED BY <1>18, <2>2, <2>3
<1>23. (i = 1 => s = at) /\ (i > 1 => s = pp) /\ (i = n => e = at + size)
  BY <1>11, <1>12
<1>. QED BY <1>5, <1>13, <1>23, <1>25, <1>26 DEF s, e, pp, p, n

\* A piece lies in one frame.
LEMMA PieceIn ==
  ASSUME NEW at \in Nat, NEW size \in Nat, size > 0, NEW i \in 1..Count(at, size), NEW a \in Nat,
         StartOf(at, i) <= a, a < EndOf(at, size, i)
  PROVE  Physical(a) = (mapping[FirstPage(at) + i - 1] * page_size) + (a - ((FirstPage(at) + i - 1) * page_size))
<1>. DEFINE p == FirstPage(at) + i - 1
            pp == p * page_size
            d == a - pp
<1>0. page_size \in Nat \ {0}
  BY SizeFacts
<1>1. p \in Nat /\ pp <= StartOf(at, i) /\ EndOf(at, size, i) <= pp + page_size
      /\ StartOf(at, i) \in Nat /\ EndOf(at, size, i) \in Nat
  BY PlacesFacts
<1>. HIDE DEF p
<1>2. pp \in Nat
  BY <1>0, <1>1
<1>. HIDE DEF pp
<1>3. d \in 0..(page_size - 1) /\ a = pp + d
  BY <1>0, <1>1, <1>2
<1>. HIDE DEF d
<1>4. Physical(pp + d) = (mapping[p] * page_size) + d
  BY <1>1, <1>3, PhysicalIn DEF pp
<1>. QED BY <1>3, <1>4 DEF p, pp, d

\* A page whose frame follows the one before joins a region that ends there:
\* the piece before is the whole page.
LEMMA JoinedWhole ==
  ASSUME Mapped, NEW at \in Nat, NEW size \in Nat, size > 0, at + size <= Pages * page_size,
         NEW k \in 1..Count(at, size), k > 1,
         Physical(StartOf(at, k - 1)) + page_size = Physical(StartOf(at, k))
  PROVE  Physical(StartOf(at, k - 1)) + (EndOf(at, size, k - 1) - StartOf(at, k - 1)) = Physical(StartOf(at, k))
<1>. DEFINE h == k - 1
            p == FirstPage(at) + k - 1
            q == FirstPage(at) + h - 1
            s == StartOf(at, h)
            e == EndOf(at, size, h)
            s2 == StartOf(at, k)
            mq == mapping[q]
            mp == mapping[p]
<1>0. page_size \in Nat \ {0} /\ Count(at, size) \in Nat \ {0} /\ Pages \in Nat \ {0}
  BY SizeFacts, PiecesFacts
<1>1. h \in 1..Count(at, size) /\ FirstPage(at) \in Nat
  <2>1. FirstPage(at) \in Nat
    BY <1>0, Division DEF FirstPage
  <2>2. k \in Nat /\ k <= Count(at, size)
    BY <1>0
  <2>. QED BY <1>0, <2>1, <2>2
<1>2. p = q + 1
  BY <1>0, <1>1
<1>3. /\ p \in Nat /\ s2 \in Nat /\ s2 = p * page_size /\ e = s2 /\ s2 < EndOf(at, size, k)
      /\ EndOf(at, size, k) <= at + size /\ EndOf(at, size, k) \in Nat
  <2>. HIDE DEF p
  <2>. QED BY PlacesFacts DEF p
<1>4. q \in Nat /\ s \in Nat /\ e \in Nat /\ s < e /\ q * page_size <= s /\ e <= (q * page_size) + page_size
  <2>. HIDE DEF h
  <2>. QED BY <1>1, PlacesFacts
<1>. HIDE DEF p, q
<1>5. Physical(s2) = (mp * page_size) + (s2 - (p * page_size))
  <2>. HIDE DEF s2, mp
  <2>. QED BY <1>3, PieceIn DEF p, s2, mp
<1>6. Physical(s) = (mq * page_size) + (s - (q * page_size))
  <2>. HIDE DEF h, mq
  <2>. QED BY <1>1, <1>4, PieceIn DEF q, mq
<1>7. s \in Addresses /\ s2 \in Addresses
  <2>1. Pages * page_size \in Nat
    BY <1>0
  <2>. HIDE DEF s, s2, e
  <2>. QED BY <1>3, <1>4, <2>1 DEF Addresses
<1>8. p \in 0..Pages - 1 /\ q \in 0..Pages - 1
  <2>1. PICK v \in 0..Pages - 1, d \in 0..(page_size - 1) : s2 = (v * page_size) + d
    BY <1>7, AddressPage
  <2>2. (s2 \div page_size) = v
    <3>1. v \in Nat
      BY <1>0
    <3>2. s2 \in Nat
      BY <1>3
    <3>3. s2 = (v * page_size) + d
      BY <2>1
    <3>. HIDE DEF s2
    <3>. QED BY <1>0, <3>1, <3>2, <3>3, DivisionUnique
  <2>3. s2 = (p * page_size) + 0
    <3>1. p * page_size \in Nat
      BY <1>0, <1>3
    <3>. HIDE DEF s2
    <3>. QED BY <1>3, <3>1
  <2>4. (s2 \div page_size) = p
    <3>. HIDE DEF s2
    <3>. QED BY <1>0, <1>3, <2>3, DivisionUnique
  <2>. QED BY <1>0, <1>2, <1>3, <1>4, <2>2, <2>4
<1>9. mp \in Nat /\ mq \in Nat
  BY <1>8 DEF Mapped
<1>. DEFINE o == s - (q * page_size)
            x == (mp * page_size)
<1>10. q * page_size \in Nat /\ p * page_size = (q * page_size) + page_size
  BY <1>0, <1>2, <1>4
<1>11. o \in 0..(page_size - 1)
  <2>1. s2 = e /\ s2 = p * page_size
    BY <1>3
  <2>. HIDE DEF s, e, s2
  <2>. QED BY <1>0, <1>3, <1>4, <1>10
<1>12. Physical(s2) = x
  <2>1. s2 - (p * page_size) = 0
    BY <1>0, <1>3
  <2>. HIDE DEF s2, mp
  <2>. QED BY <1>0, <1>5, <1>9, <2>1
<1>13. Physical(s) = (mq * page_size) + o
  BY <1>6
<1>. HIDE DEF s, s2, e, mp, mq
<1>14. Physical(s) + page_size = Physical(s2)
  BY DEF s, s2, h
<1>. HIDE DEF o, x
<1>15. x = ((mq + 1) * page_size) + o
  <2>1. (mq + 1) * page_size = (mq * page_size) + page_size /\ (mq * page_size) \in Nat
    BY <1>0, <1>9
  <2>. QED BY <1>0, <1>11, <1>12, <1>13, <1>14, <2>1
<1>16. x \in Nat /\ x = (mp * page_size) + 0
  <2>1. (mp * page_size) \in Nat
    BY <1>0, <1>9
  <2>. QED BY <2>1 DEF x
<1>17. o = 0
  <2>1. (x % page_size) = o
    <3>1. PICK n \in Nat : n = mq + 1
      BY <1>9
    <3>2. x = (n * page_size) + o
      BY <1>15, <3>1
    <3>. QED BY <1>0, <1>11, <1>16, <3>2, DivisionUnique
  <2>2. (x % page_size) = 0
    <3>1. 0 \in 0..(page_size - 1)
      BY <1>0
    <3>. QED BY <1>0, <1>9, <1>16, <3>1, DivisionUnique
  <2>. QED BY <2>1, <2>2
<1>18. s = q * page_size
  BY <1>4, <1>10, <1>17 DEF o
<1>19. e - s = page_size
  <2>1. e = p * page_size
    BY <1>3
  <2>. QED BY <1>0, <1>10, <1>18, <2>1
<1>. QED BY <1>14, <1>19 DEF s, s2, e, h

\* The table describes the buffer up to the end of piece i, and its last
\* region ends with that piece.
Covers(t, at, size, i) ==
  LET d == Described(t)
  IN /\ t \in Seq(Descriptors) /\ Len(t) <= i
     /\ d \in Seq(Nat)
     /\ Len(d) = IF i = 0 THEN 0 ELSE EndOf(at, size, i) - at
     /\ \A j \in 1..Len(d) : d[j] = Physical(at + j - 1)
     /\ i > 0 => /\ t # <<>>
                 /\ t[Len(t)].base + t[Len(t)].byte_count + 1 =
                      Physical(StartOf(at, i)) + (EndOf(at, size, i) - StartOf(at, i))

\* What an appended sequence holds.
LEMMA Appended ==
  ASSUME NEW t \in Seq(Descriptors), NEW r \in Descriptors
  PROVE  /\ Append(t, r) \in Seq(Descriptors) /\ Len(Append(t, r)) = Len(t) + 1
         /\ Append(t, r) # <<>> /\ Append(t, r)[Len(Append(t, r))] = r
OBVIOUS

\* The empty table covers no piece.
LEMMA CoversNone ==
  ASSUME NEW at \in Nat, NEW size \in Nat
  PROVE  Covers(<<>>, at, size, 0)
<1>1. <<>> \in Seq(Descriptors) /\ Len(<<>>) = 0
  OBVIOUS
<1>2. Described(<<>>) = <<>>
  <2>1. Described(<<>>) = AddressesOf(<<>>)[0]
    BY <1>1, Unfolded
  <2>. QED BY <1>1, <2>1, AddressesOfFacts
<1>3. PICK t : t = <<>>
  OBVIOUS
<1>4. t \in Seq(Descriptors) /\ Len(t) = 0 /\ t \in Seq(Nat) /\ Described(t) = t
  BY <1>1, <1>2, <1>3
<1>5. \A j \in 1..Len(t) : t[j] = Physical(at + j - 1)
  BY <1>4
<1>6. Covers(t, at, size, 0)
  BY <1>4, <1>5 DEF Covers
<1>. QED BY <1>3, <1>6

\* A table that covers some pieces covers the next one when it is added.
LEMMA CoversNext ==
  ASSUME Mapped, NEW at \in Nat, NEW size \in Nat, size > 0, at + size <= Pages * page_size,
         NEW i \in Nat, i < Count(at, size), NEW t, Covers(t, at, size, i)
  PROVE  Covers(Adds(t, Pieces(at, size), i + 1), at, size, i + 1)
<1>. DEFINE k == i + 1
            P == Pieces(at, size)
            s == StartOf(at, k)
            e == EndOf(at, size, k)
            b == Physical(s)
            c == e - s
            d == Described(t)
            u == Adds(t, P, k)
            f == Described(u)
            p == FirstPage(at) + k - 1
<1>0. page_size \in Nat \ {0} /\ Count(at, size) \in Nat \ {0} /\ Pages * page_size \in Nat
  BY SizeFacts, PiecesFacts
<1>1. k \in 1..Count(at, size) /\ k \in Nat /\ k > 0 /\ k - 1 = i
  BY <1>0
<1>2. P[k] = [base |-> b, size |-> c]
  <2>. HIDE DEF k
  <2>1. P[k] = [base |-> Physical(StartOf(at, k)), size |-> EndOf(at, size, k) - StartOf(at, k)]
    <3>1. k \in 1..Count(at, size)
      BY <1>1
    <3>. HIDE DEF P
    <3>. QED BY <3>1, PiecesFacts DEF P
  <2>. QED BY <2>1
<1>3. s \in Nat /\ e \in Nat /\ s < e /\ at <= s /\ e <= at + size /\ (k = 1 => s = at)
      /\ (k > 1 => EndOf(at, size, k - 1) = s)
  <2>. HIDE DEF k
  <2>. QED BY <1>1, PlacesFacts
<1>. HIDE DEF k, s, e
<1>4. c \in Nat \ {0} /\ s + c = e
  BY <1>3
<1>5. s \in Addresses
  BY <1>0, <1>3 DEF Addresses
<1>6. b \in Nat
  BY <1>5, PhysicalFacts
<1>7. \A a \in Nat : s <= a /\ a < e => Physical(a) = b + (a - s)
  <2>. DEFINE m == mapping[p] * page_size
              pp == p * page_size
  <2>1. \A a \in Nat : s <= a /\ a < e => Physical(a) = m + (a - pp)
    BY <1>1, PieceIn DEF s, e
  <2>2. b = m + (s - pp)
    BY <1>3, <2>1
  <2>3. pp \in Nat
    <3>1. FirstPage(at) \in Nat
      BY <1>0, Division DEF FirstPage
    <3>2. p \in Nat
      BY <1>1, <3>1
    <3>. HIDE DEF p
    <3>. QED BY <1>0, <3>2
  <2>4. m \in Nat
    <3>1. PICK v \in 0..Pages - 1, o \in 0..(page_size - 1) : s = (v * page_size) + o
      BY <1>5, AddressPage
    <3>2. (s \div page_size) = v
      <4>1. v \in Nat
        BY SizeFacts
      <4>. QED BY <1>0, <1>3, <3>1, <4>1, DivisionUnique
    <3>3. p \in Nat /\ pp <= s /\ e <= pp + page_size
      BY <1>1, PlacesFacts DEF s, e
    <3>. HIDE DEF p
    <3>4. (s - pp) \in 0..(page_size - 1) /\ s = pp + (s - pp)
      <4>. HIDE DEF pp
      <4>. QED BY <1>0, <1>3, <2>3, <3>3
    <3>5. (s \div page_size) = p
      <4>. DEFINE w == s - pp
      <4>1. w \in 0..(page_size - 1) /\ s = pp + w
        BY <3>4
      <4>. HIDE DEF w
      <4>. QED BY <1>0, <1>3, <3>3, <4>1, DivisionUnique
    <3>6. mapping[p] \in Nat
      BY <3>2, <3>5 DEF Mapped
    <3>. QED BY <1>0, <3>6
  <2>. HIDE DEF m, pp, b
  <2>5. ASSUME NEW a \in Nat, s <= a, a < e PROVE Physical(a) = b + (a - s)
    <3>1. Physical(a) = m + (a - pp)
      BY <2>1, <2>5
    <3>. QED BY <1>3, <2>2, <2>3, <2>4, <3>1
  <2>. QED BY <2>5
<1>. HIDE DEF b, c, P
<1>8. t \in Seq(Descriptors) /\ Len(t) <= i /\ Len(t) \in Nat /\ d \in Seq(Nat) /\ Len(d) \in Nat
      /\ \A j \in 1..Len(d) : d[j] = Physical(at + j - 1)
  BY DEF Covers
<1>. DEFINE n == Len(d)
            new == Len(f)
<1>9. at + n = s
  <2>1. CASE i = 0
    <3>1. n = 0 /\ k = 1
      BY <2>1 DEF Covers, k
    <3>. QED BY <1>3, <3>1
  <2>2. CASE i # 0
    <3>1. n = EndOf(at, size, i) - at /\ k > 1
      BY <2>2, <1>1 DEF Covers
    <3>2. EndOf(at, size, i) = s
      BY <1>1, <1>3, <3>1
    <3>. QED BY <1>3, <3>1, <3>2
  <2>. QED BY <2>1, <2>2
<1>10. /\ u \in Seq(Descriptors) /\ Len(u) <= k /\ u # <<>>
       /\ u[Len(u)].base + u[Len(u)].byte_count + 1 = b + c
       /\ f \in Seq(Nat) /\ Len(f) = n + c
       /\ \A j \in 1..n : f[j] = d[j]
       /\ \A j \in 1..c : f[n + j] = b + j - 1
  <2>1. CASE k > 1 /\ Joins(t, P[k - 1].base, P[k])
    <3>. DEFINE v == [t EXCEPT ![Len(t)].byte_count = @ + c]
                end == t[Len(t)].base + t[Len(t)].byte_count + 1
                g == Described(v)
    <3>1. u = v
      <4>1. P[k].size = c
        BY <1>2
      <4>. QED BY <2>1, <4>1 DEF Adds
    <3>2. t # <<>> /\ P[k - 1].base + page_size = b
      BY <1>2, <2>1 DEF Joins
    <3>3. P[k - 1].base = Physical(StartOf(at, k - 1))
      <4>. DEFINE h == k - 1
      <4>1. h \in 1..Count(at, size)
        BY <1>0, <1>1, <2>1
      <4>. HIDE DEF h
      <4>2. P[h] = [base |-> Physical(StartOf(at, h)), size |-> EndOf(at, size, h) - StartOf(at, h)]
        BY <4>1, PiecesFacts DEF P
      <4>3. P[h].base = Physical(StartOf(at, h))
        BY <4>2
      <4>. QED BY <4>3 DEF h
    <3>4. Physical(StartOf(at, k - 1)) + (EndOf(at, size, k - 1) - StartOf(at, k - 1)) = b
      BY <1>1, <2>1, <3>2, <3>3, JoinedWhole DEF b, s
    <3>5. end = b
      <4>1. i > 0
        BY <1>1, <2>1
      <4>2. end = Physical(StartOf(at, i)) + (EndOf(at, size, i) - StartOf(at, i))
        BY <4>1 DEF Covers
      <4>. QED BY <1>1, <3>4, <4>2
    <3>6. /\ v \in Seq(Descriptors) /\ Len(v) = Len(t) /\ v # <<>>
          /\ v[Len(v)].base + v[Len(v)].byte_count + 1 = end + c
          /\ g \in Seq(Nat) /\ Len(g) = n + c
          /\ \A j \in 1..n : g[j] = d[j]
          /\ \A j \in 1..c : g[n + j] = end + j - 1
      <4>1. c \in Nat /\ t \in Seq(Descriptors)
        BY <1>4, <1>8
      <4>2. Longer(v, t, c)
        <5>. HIDE DEF c
        <5>. QED BY <3>2, <4>1, DescribedLonger
      <4>. HIDE DEF v, c
      <4>. QED BY <4>2 DEF Longer
    <3>. HIDE DEF v, end, d, n, u, f
    <3>7. f = g
      BY <3>1 DEF f
    <3>8. Len(u) <= k
      BY <1>1, <1>8, <3>1, <3>6
    <3>. HIDE DEF g
    <3>. QED BY <3>1, <3>5, <3>6, <3>7, <3>8
  <2>2. CASE ~(k > 1 /\ Joins(t, P[k - 1].base, P[k]))
    <3>. DEFINE r == [base |-> b, byte_count |-> c - 1]
                v == Append(t, r)
                g == Described(v)
    <3>1. u = v
      <4>1. Opens(P[k]) = r
        BY <1>2 DEF Opens
      <4>. HIDE DEF r
      <4>. QED BY <2>2, <4>1 DEF Adds
    <3>2. r \in Descriptors /\ r.base = b /\ r.byte_count + 1 = c
      BY <1>4, <1>6 DEF Descriptors
    <3>. HIDE DEF r
    <3>3. /\ g \in Seq(Nat)
          /\ Len(g) = n + r.byte_count + 1
          /\ \A j \in 1..n : g[j] = d[j]
          /\ \A j \in 1..r.byte_count + 1 : g[n + j] = r.base + j - 1
      BY <1>8, <3>2, DescribedAppend
    <3>4. r.byte_count \in Nat /\ r.base \in Nat
      BY <3>2 DEF Descriptors
    <3>5. v \in Seq(Descriptors) /\ Len(v) = Len(t) + 1 /\ v # <<>> /\ v[Len(v)] = r
      BY <1>8, <3>2, Appended
    <3>6. v[Len(v)].base + v[Len(v)].byte_count + 1 = b + c
      BY <1>4, <1>6, <3>2, <3>4, <3>5, SMTT(30)
    <3>. HIDE DEF v, d, u, f
    <3>7. f = g
      BY <3>1 DEF f
    <3>. HIDE DEF g
    <3>8. Len(u) <= k
      BY <1>1, <1>8, <3>1, <3>5
    <3>9. Len(f) = n + c
      <4>1. n \in Nat
        BY <1>8
      <4>. HIDE DEF n
      <4>. QED BY <1>4, <3>2, <3>3, <3>4, <3>7, <4>1
    <3>10. \A j \in 1..c : f[n + j] = b + j - 1
      BY <3>2, <3>3, <3>7
    <3>. QED BY <3>1, <3>3, <3>5, <3>6, <3>7, <3>8, <3>9, <3>10
  <2>. QED BY <2>1, <2>2
<1>. HIDE DEF u, f, d
<1>11. n \in Nat
  BY <1>8
<1>12. ASSUME NEW j \in 1..Len(f) PROVE f[j] = Physical(at + j - 1)
  <2>. HIDE DEF n
  <2>1. CASE j <= n
    BY <1>8, <1>10, <1>11, <2>1 DEF n
  <2>2. CASE j > n
    <3>. DEFINE l == j - n
    <3>1. l \in 1..c /\ j = n + l
      BY <1>4, <1>10, <1>11, <2>2
    <3>. DEFINE a == at + j - 1
    <3>2. a \in Nat /\ s <= a /\ a < e /\ a - s = l - 1
      BY <1>3, <1>4, <1>9, <1>11, <3>1
    <3>. HIDE DEF l
    <3>3. f[j] = b + l - 1
      BY <1>10, <3>1
    <3>4. Physical(a) = b + (a - s)
      <4>. HIDE DEF a
      <4>. QED BY <1>7, <3>2
    <3>. QED BY <1>6, <3>1, <3>2, <3>3, <3>4
  <2>. QED BY <1>11, <2>1, <2>2
<1>13. Len(f) = e - at
  <2>. HIDE DEF n
  <2>. QED BY <1>3, <1>4, <1>9, <1>10, <1>11
<1>14. Covers(u, at, size, k)
  <2>1. k # 0
    BY <1>1
  <2>. HIDE DEF n
  <2>. QED BY <1>10, <1>12, <1>13, <2>1 DEF Covers, f, b, c, s, e
<1>. QED BY <1>14 DEF u, k, P

\* The controller reaches exactly the buffer, byte by byte.
LEMMA TableExact ==
  ASSUME Mapped, NEW at \in Nat, NEW size \in Nat, size > 0, at + size <= Pages * page_size
  PROVE  /\ Len(Described(Table(at, size))) = size
         /\ \A j \in 1..size : Described(Table(at, size))[j] = Physical(at + j - 1)
         /\ Len(Table(at, size)) \in Nat /\ Len(Table(at, size)) <= Count(at, size)
<1>. DEFINE n == Count(at, size)
            P == Pieces(at, size)
            T == TableOf(P)
            S == {i \in Nat : i <= n => Covers(T[i], at, size, i)}
<1>0. n \in Nat \ {0} /\ Len(P) = n
  BY PiecesFacts
<1>1. T[0] = <<>> /\ \A i \in 1..n : T[i] = Adds(T[i - 1], P, i)
  <2>. HIDE DEF P
  <2>. QED BY <1>0, TableOfFacts
<1>2. Table(at, size) = T[n]
  BY <1>0, Unfolded
<1>. HIDE DEF n, T
<1>3. 0 \in S
  BY <1>1, CoversNone
<1>4. ASSUME NEW i \in Nat, i \in S PROVE i + 1 \in S
  <2>. SUFFICES ASSUME i + 1 <= n PROVE Covers(T[i + 1], at, size, i + 1)
    OBVIOUS
  <2>1. Covers(T[i], at, size, i) /\ i < n
    BY <1>0, <1>4
  <2>2. T[i + 1] = Adds(T[i], P, i + 1)
    <3>1. i + 1 \in 1..n /\ (i + 1) - 1 = i
      BY <1>0
    <3>. HIDE DEF P
    <3>. QED BY <1>1, <3>1
  <2>. QED BY <2>1, <2>2, CoversNext DEF n
<1>5. Nat \subseteq S
  <2>. HIDE DEF S
  <2>. QED BY <1>3, <1>4, SetInduction
<1>6. Covers(T[n], at, size, n)
  <2>. HIDE DEF P
  <2>. QED BY <1>0, <1>5
<1>7. EndOf(at, size, n) = at + size
  BY <1>0, PlacesFacts DEF n
<1>. DEFINE t == Table(at, size)
            d == Described(t)
<1>8. /\ t \in Seq(Descriptors) /\ Len(t) <= n
      /\ Len(d) = EndOf(at, size, n) - at
      /\ \A j \in 1..Len(d) : d[j] = Physical(at + j - 1)
  BY <1>0, <1>2, <1>6 DEF Covers
<1>. HIDE DEF t, d
<1>9. Len(d) = size
  BY <1>7, <1>8
<1>10. Len(t) \in Nat
  BY <1>8
<1>. QED BY <1>8, <1>9, <1>10 DEF t, d, n

-----------------------------------------------------------------------------
(* Reads *)

\* These are the n bytes of the disk from place p on.
FromDisk(bytes, n, p) == Len(bytes) = n /\ \A i \in 1..n : bytes[i] = disk[p + i - 1]

\* What a command reads.
LEMMA ReadFacts ==
  ASSUME NEW lba, NEW size \in Nat
  PROVE  FromDisk(Read(lba, size), size, lba * sector_size)
<1>. DEFINE f == [i \in 1..size |-> disk[(lba * sector_size) + i - 1]]
<1>1. Read(lba, size) = f
  BY DEF Read
<1>2. f = [i \in 1..size |-> f[i]] /\ \A i \in 1..size : f[i] = disk[(lba * sector_size) + i - 1]
  OBVIOUS
<1>. HIDE DEF f
<1>3. Len(f) = size
  BY <1>2, ListFacts
<1>. QED BY <1>1, <1>2, <1>3 DEF FromDisk

\* A part of what a command reads.
LEMMA PartFacts ==
  ASSUME NEW lba \in Nat, NEW size \in Nat, NEW skip \in Nat, NEW n \in Nat, skip + n <= size
  PROVE  FromDisk(SubSeq(Read(lba, size), skip + 1, skip + n), n, (lba * sector_size) + skip)
<1>. DEFINE s == Read(lba, size)
            b == SubSeq(s, skip + 1, skip + n)
            V == {s[i] : i \in 1..size}
<1>1. Len(s) = size /\ \A i \in 1..size : s[i] = disk[(lba * sector_size) + i - 1]
  BY ReadFacts DEF FromDisk
<1>2. s \in Seq(V)
  <2>1. s = [i \in 1..size |-> disk[(lba * sector_size) + i - 1]]
    BY DEF Read
  <2>2. s = [i \in 1..size |-> s[i]]
    BY <2>1
  <2>. HIDE DEF s
  <2>. QED BY <2>2, ListFacts
<1>. HIDE DEF s, V
<1>3. skip + 1 \in 1..Len(s) + 1 /\ skip + n \in skip + 1 - 1..Len(s)
  BY <1>1
<1>4. /\ Len(b) = IF skip + 1 <= skip + n THEN skip + n - (skip + 1) + 1 ELSE 0
      /\ \A i \in 1..skip + n - (skip + 1) + 1 : b[i] = s[skip + 1 + i - 1]
  BY <1>2, <1>3, SubSeqProperties, SMTT(30)
<1>. HIDE DEF b
<1>5. Len(b) = n
  BY <1>4
<1>6. ASSUME NEW i \in 1..n PROVE b[i] = disk[(lba * sector_size) + skip + i - 1]
  <2>. DEFINE j == skip + i
  <2>1. j \in 1..size /\ skip + 1 + i - 1 = j /\ i \in 1..skip + n - (skip + 1) + 1
    OBVIOUS
  <2>2. b[i] = s[j]
    BY <1>4, <2>1
  <2>3. s[j] = disk[(lba * sector_size) + j - 1]
    BY <1>1, <2>1
  <2>. DEFINE o == lba * sector_size
  <2>4. o + j - 1 = o + skip + i - 1
    <3>1. o \in Nat
      BY SizeFacts
    <3>. HIDE DEF o
    <3>. QED BY <3>1
  <2>. QED BY <2>2, <2>3, <2>4
<1>. QED BY <1>5, <1>6 DEF b, s, FromDisk

\* What a read must have done when it returns the size.
Moved(new, old, at, offset, size) ==
  /\ DOMAIN new = DOMAIN old
  /\ \A v \in Addresses : Physical(v) \in DOMAIN old =>
       new[Physical(v)] = IF v - at \in 0..size - 1 THEN disk[offset + v - at] ELSE old[Physical(v)]
Fetched(r, mem, fate, at, offset, size) ==
  (r.ret = Value(size) /\ Quiet(fate, size)) => Moved(r.mem, mem, at, offset, size)

\* It has when the right bytes were put there.
LEMMA LaidFetched ==
  ASSUME NEW r, NEW mem, NEW fate, NEW at \in Nat, NEW offset \in Nat, NEW size \in Nat,
         NEW bytes, Laid(r.mem, mem, at, bytes, size), FromDisk(bytes, size, offset)
  PROVE  Fetched(r, mem, fate, at, offset, size)
<1>1. ASSUME NEW v \in Addresses, v - at \in 0..size - 1 PROVE bytes[v - at + 1] = disk[offset + v - at]
  <2>. DEFINE i == v - at + 1
  <2>1. Addresses \subseteq Int
    BY SizeFacts DEF Addresses
  <2>2. i \in 1..size /\ offset + i - 1 = offset + v - at
    BY <1>1, <2>1
  <2>. HIDE DEF i
  <2>3. bytes[i] = disk[offset + v - at]
    BY <2>2 DEF FromDisk
  <2>. QED BY <2>3 DEF i
<1>. QED BY <1>1 DEF Fetched, Moved, Laid

\* No bytes are fetched by touching nothing.
LEMMA FetchedNothing ==
  ASSUME NEW r, NEW mem, NEW fate, NEW at \in Nat, NEW offset, r.mem = mem
  PROVE  Fetched(r, mem, fate, at, offset, 0)
BY DEF Fetched, Moved

\* Four bytes at an even address are on two pages at most.
LEMMA FourBytes ==
  ASSUME NEW at \in Nat, at % 2 = 0
  PROVE  Count(at, 4) <= 2
<1>. DEFINE first == at \div page_size
            r == at % page_size
            z == at + 4 - 1
            last == z \div page_size
            u == z % page_size
            fp == first * page_size
<1>0. page_size \in Nat \ {0} /\ page_size % 2 = 0
  BY SizeFacts
<1>1. first \in Nat /\ r \in 0..(page_size - 1) /\ at = (first * page_size) + r
  BY <1>0, Division
<1>2. r % 2 = 0
  BY <1>0, EvenRest
<1>3. z \in Nat
  OBVIOUS
<1>4. last \in Nat /\ u \in 0..(page_size - 1) /\ z = (last * page_size) + u
  <2>. HIDE DEF z
  <2>. QED BY <1>0, <1>3, Division
<1>. HIDE DEF first, r, u, last
<1>5. fp \in Nat
  BY <1>0, <1>1
<1>6. r + 2 <= page_size
  BY <1>0, <1>1, <1>2
<1>7. ASSUME last > first + 1 PROVE FALSE
  <2>. DEFINE d == last - first - 2
              lp == last * page_size
  <2>1. d \in Nat /\ last = first + 2 + d
    BY <1>1, <1>4, <1>7
  <2>. HIDE DEF d
  <2>2. lp = fp + page_size + page_size + (d * page_size)
    BY <1>0, <1>1, <2>1
  <2>3. d * page_size \in Nat /\ lp \in Nat
    BY <1>0, <1>4, <2>1
  <2>4. lp >= fp + page_size + page_size
    <3>. HIDE DEF lp, fp
    <3>. QED BY <1>0, <1>5, <2>2, <2>3
  <2>5. z = fp + r + 3 /\ z = lp + u
    <3>1. at = fp + r
      BY <1>1
    <3>2. z = at + 3
      OBVIOUS
    <3>. HIDE DEF z, fp, lp
    <3>. QED BY <1>1, <1>4, <1>5, <3>1, <3>2 DEF lp
  <2>. HIDE DEF z, lp, fp
  <2>. QED BY <1>0, <1>1, <1>4, <1>5, <1>6, <2>3, <2>4, <2>5
<1>8. last - first + 1 <= 2
  BY <1>1, <1>4, <1>7
<1>. QED BY <1>8 DEF Count, FirstPage, first, last, z

\* The reads of whole sectors.
LEMMA ReadDirectFacts ==
  ASSUME Mapped, NEW fate \in Fates, NEW mem, NEW at \in Nat, NEW offset \in Nat, NEW size \in Nat,
         at % 2 = 0, at + size <= Pages * page_size, offset + size <= Bytes,
         Aligned(offset, size),
         NEW r \in ReadDirect(mem, fate, at, offset, size)
  PROVE  Fetched(r, mem, fate, at, offset, size)
<1>0. sector_size \in Nat \ {0} /\ sector_count \in Nat \ {0}
  BY SizeFacts
<1>. DEFINE lba == offset \div sector_size
            k == size \div sector_size
            answer == DirectAnswer(fate, 1, lba, at, size)
            done == Put(mem, Described(Table(at, size)), Read(lba, size))
<1>1. lba \in Nat /\ offset = lba * sector_size
  <2>1. /\ lba \in Nat /\ (offset % sector_size) \in 0..(sector_size - 1)
        /\ offset = (lba * sector_size) + (offset % sector_size)
    BY <1>0, Division
  <2>2. offset % sector_size = 0
    BY DEF Aligned
  <2>3. lba * sector_size \in Nat
    BY <1>0, <2>1
  <2>. QED BY <2>1, <2>2, <2>3
<1>2. k \in Nat /\ size = k * sector_size
  <2>1. /\ k \in Nat /\ (size % sector_size) \in 0..(sector_size - 1)
        /\ size = (k * sector_size) + (size % sector_size)
    BY <1>0, Division
  <2>2. size % sector_size = 0
    BY DEF Aligned
  <2>3. k * sector_size \in Nat
    BY <1>0, <2>1
  <2>. QED BY <2>1, <2>2, <2>3
<1>. HIDE DEF lba, k
<1>3. Sectors(size) = k
  BY <1>0, <1>2, SectorsFacts
<1>4. lba + k <= sector_count
  <2>. DEFINE d == lba + k - sector_count - 1
  <2>1. ASSUME lba + k > sector_count PROVE FALSE
    <3>1. d \in Nat /\ lba + k = sector_count + 1 + d
      BY <1>0, <1>1, <1>2, <2>1
    <3>2. (lba + k) * sector_size = offset + size
      BY <1>0, <1>1, <1>2
    <3>. HIDE DEF d
    <3>3. (sector_count + 1 + d) * sector_size = (sector_size * sector_count) + sector_size + (d * sector_size)
      BY <1>0, <3>1
    <3>4. d * sector_size \in Nat /\ sector_size * sector_count \in Nat
      BY <1>0, <3>1
    <3>. QED BY <1>0, <3>1, <3>2, <3>3, <3>4 DEF Bytes
  <2>. QED BY <1>0, <1>1, <1>2, <2>1
<1>5. /\ answer \in {Sent, Lost, SUCCESS, OUT_OF_BOUNDS, FRAGMENTED_MEMORY, NO_RESOURCES, UNKNOWN_ERROR}
      /\ fate = [j \in 1..5 |-> Sent] => answer \in {Sent, SUCCESS, OUT_OF_BOUNDS, FRAGMENTED_MEMORY}
      /\ size > 0 => answer # SUCCESS
      /\ answer # OUT_OF_BOUNDS
      /\ answer = FRAGMENTED_MEMORY => Len(Table(at, size)) > TableSize
  BY <1>1, <1>3, <1>4, DirectFacts
<1>6. size = 0 => answer = SUCCESS
  <2>. SUFFICES ASSUME size = 0 PROVE answer = SUCCESS
    OBVIOUS
  <2>1. Sectors(size) = 0
    <3>1. size = 0 * sector_size
      BY <1>0
    <3>. QED BY <3>1, SectorsFacts
  <2>2. ~(lba + Sectors(size) > sector_count)
    BY <1>0, <1>1, <1>2, <1>3, <1>4
  <2>3. CommandAnswer(fate, 1, lba, size) = SUCCESS
    BY <2>1, <2>2 DEF CommandAnswer
  <2>4. SUCCESS \notin {Sent, Lost}
    BY DEF SUCCESS, Sent, Lost
  <2>. QED BY <2>3, <2>4 DEF DirectAnswer
<1>7. PICK m : /\ r = [ret |-> Told(answer, size), mem |-> m]
               /\ answer = Sent => m = done
               /\ answer \notin {Sent, Lost} => m = mem
  <2>. HIDE DEF done
  <2>0. Sent # Lost
    BY DEF Sent, Lost
  <2>1. r \in {[ret |-> Told(answer, size), mem |-> m] :
        m \in CASE answer = Sent -> {done} [] answer = Lost -> {mem, done}
                [] OTHER -> {mem}}
    BY DEF ReadDirect, done, lba
  <2>. HIDE DEF answer
  <2>2. CASE answer = Sent
    BY <2>0, <2>1, <2>2
  <2>3. CASE answer = Lost
    <3>1. PICK m \in {mem, done} : r = [ret |-> Told(answer, size), mem |-> m]
      BY <2>0, <2>1, <2>3
    <3>. QED BY <2>0, <2>3, <3>1
  <2>4. CASE answer \notin {Sent, Lost}
    BY <2>1, <2>4
  <2>. QED BY <2>2, <2>3, <2>4
<1>8. CASE answer = Sent
  <2>1. size > 0
    BY <1>6, <1>8 DEF SUCCESS, Sent
  <2>2. /\ Len(Described(Table(at, size))) = size
        /\ \A j \in 1..size : Described(Table(at, size))[j] = Physical(at + j - 1)
    BY <2>1, TableExact
  <2>3. FromDisk(Read(lba, size), size, offset) /\ Len(Read(lba, size)) = size
    BY <1>1, ReadFacts DEF FromDisk
  <2>4. Laid(done, mem, at, Read(lba, size), size)
    BY <2>2, <2>3, PutFacts
  <2>5. r.mem = done
    BY <1>7, <1>8
  <2>. HIDE DEF done
  <2>. QED BY <2>3, <2>4, <2>5, LaidFetched
<1>9. CASE answer # Sent
  <2>. SUFFICES ASSUME Told(answer, size) = Value(size), Quiet(fate, size)
                PROVE  Fetched(r, mem, fate, at, offset, size)
    BY <1>7 DEF Fetched
  <2>1. \/ answer = SUCCESS /\ size = 0
        \/ answer = FRAGMENTED_MEMORY /\ size = 4
    <3>. HIDE DEF answer
    <3>. QED BY <1>5, <1>9, ToldFacts
  <2>2. size # 4 \/ answer # FRAGMENTED_MEMORY
    <3>. SUFFICES ASSUME size = 4, answer = FRAGMENTED_MEMORY PROVE FALSE
      OBVIOUS
    <3>0. size > 0
      OBVIOUS
    <3>1. Len(Table(at, size)) \in Nat /\ Len(Table(at, size)) <= Count(at, size)
      <4>. HIDE DEF answer
      <4>. QED BY <3>0, TableExact
    <3>2. Count(at, size) <= 2 /\ Count(at, size) \in Nat
      <4>1. Count(at, 4) <= 2
        BY FourBytes
      <4>2. Count(at, size) \in Nat
        <5>. HIDE DEF answer
        <5>. QED BY <3>0, PiecesFacts
      <4>. QED BY <4>1, <4>2
    <3>3. Len(Table(at, size)) > TableSize
      <4>. HIDE DEF answer
      <4>. QED BY <1>5
    <3>. HIDE DEF answer
    <3>. QED BY <3>1, <3>2, <3>3, SizeFacts
  <2>3. size = 0 /\ answer = SUCCESS
    BY <2>1, <2>2
  <2>4. r.mem = mem
    BY <1>7, <2>3 DEF SUCCESS, Sent, Lost
  <2>. HIDE DEF answer
  <2>. QED BY <2>3, <2>4, FetchedNothing
<1>. QED BY <1>8, <1>9

\* The reads in one or two sectors.
LEMMA ReadAroundFacts ==
  ASSUME Mapped, NEW fate \in Fates, NEW mem, NEW at \in Nat, NEW offset \in Nat, NEW size \in Nat,
         at + size <= Pages * page_size, offset + size <= Bytes, offset % 2 = 0,
         InOneSector(offset, size) \/ InTwoSectors(offset, size),
         NEW r \in ReadAround(mem, fate, at, offset, size)
  PROVE  Fetched(r, mem, fate, at, offset, size)
<1>0. sector_size \in Nat \ {0} /\ sector_count \in Nat \ {0}
  BY SizeFacts
<1>. DEFINE lba == offset \div sector_size
            around == Around(offset, size)
            skip == SkipBytes(offset)
            answer == CommandAnswer(fate, 1, lba, around)
            bytes == SubSeq(Read(lba, around), skip + 1, skip + size)
<1>1. r = [ret |-> Told(answer, size), mem |-> IF answer = Sent THEN Copy(mem, at, bytes) ELSE mem]
  BY DEF ReadAround
<1>2. skip = offset % sector_size
  BY SkipFacts
<1>3. lba \in Nat /\ skip \in Nat /\ offset = (lba * sector_size) + skip
  <2>1. /\ lba \in Nat /\ (offset % sector_size) \in 0..(sector_size - 1)
        /\ offset = (lba * sector_size) + (offset % sector_size)
    BY <1>0, Division
  <2>. HIDE DEF lba, skip
  <2>. QED BY <1>0, <1>2, <2>1
<1>4. around \in Nat \ {0} /\ skip + size <= around
      /\ (offset + size < Bytes => lba + Sectors(around) <= sector_count)
  BY <1>2, AroundFacts
<1>. HIDE DEF lba, around, skip
<1>5. FromDisk(bytes, size, offset) /\ Len(bytes) = size
  <2>1. around \in Nat
    BY <1>4
  <2>2. FromDisk(bytes, size, (lba * sector_size) + skip)
    BY <1>3, <1>4, <2>1, PartFacts
  <2>. HIDE DEF bytes
  <2>. QED BY <1>3, <2>2 DEF FromDisk
<1>6. /\ answer \in {Sent, Lost, SUCCESS, OUT_OF_BOUNDS, NO_RESOURCES, UNKNOWN_ERROR}
      /\ fate = [j \in 1..5 |-> Sent] => answer \in {Sent, SUCCESS, OUT_OF_BOUNDS}
      /\ answer # SUCCESS
      /\ offset + size < Bytes => answer # OUT_OF_BOUNDS
  BY <1>3, <1>4, AnswerFacts
<1>. HIDE DEF answer, bytes
<1>7. CASE answer = Sent
  <2>1. Laid(Copy(mem, at, bytes), mem, at, bytes, size)
    BY <1>5, CopyFacts
  <2>2. r.mem = Copy(mem, at, bytes)
    BY <1>1, <1>7
  <2>. QED BY <1>5, <2>1, <2>2, LaidFetched
<1>8. CASE answer # Sent
  <2>. SUFFICES ASSUME Told(answer, size) = Value(size), Quiet(fate, size) PROVE FALSE
    BY <1>1 DEF Fetched
  <2>1. answer = OUT_OF_BOUNDS /\ size = 3
    <3>1. answer # FRAGMENTED_MEMORY
      BY <1>6 DEF FRAGMENTED_MEMORY, Sent, Lost, SUCCESS, OUT_OF_BOUNDS, NO_RESOURCES, UNKNOWN_ERROR
    <3>. QED BY <1>6, <1>8, <3>1, ToldFacts
  <2>. QED BY <1>6, <2>1, NotThree
<1>. QED BY <1>7, <1>8

\* The parts of a range over more than two sectors.
LEMMA ManyFacts ==
  ASSUME NEW offset \in Nat, NEW size \in Nat, offset % 2 = 0, ~Aligned(offset, size),
         ~InOneSector(offset, size), ~InTwoSectors(offset, size)
  PROVE  LET q == offset \div sector_size
             t == (offset + size) \div sector_size
             h == HeadSize(offset)
             m == MiddleSize(offset, size)
             u == TailSize(offset, size)
         IN /\ q \in Nat /\ t \in Nat
            /\ h \in Nat \ {0} /\ m \in Nat \ {0} /\ u \in Nat
            /\ Words(h) = h /\ size = h + m + u /\ size >= 5
            /\ SkipBytes(offset) \in Nat /\ SkipBytes(offset) + h = sector_size
            /\ (q * sector_size) + SkipBytes(offset) = offset
            /\ (q + 1) * sector_size = offset + h
            /\ t * sector_size = offset + h + m
            /\ u < sector_size
<1>. DEFINE e == offset + size
            q == offset \div sector_size
            r == offset % sector_size
            t == e \div sector_size
            u == e % sector_size
            h == HeadSize(offset)
            m == MiddleSize(offset, size)
            qs == q * sector_size
            ts == t * sector_size
            d == t - q - 2
<1>0. sector_size \in Nat \ {0} /\ sector_size % 2 = 0
  BY SizeFacts
<1>1. q \in Nat /\ r \in 0..(sector_size - 1) /\ offset = qs + r
  BY <1>0, Division
<1>2. e \in Nat
  OBVIOUS
<1>3. t \in Nat /\ u \in 0..(sector_size - 1) /\ e = ts + u
  <2>. HIDE DEF e
  <2>. QED BY <1>0, <1>2, Division
<1>4. SkipBytes(offset) = r /\ r % 2 = 0
  BY <1>0, SkipFacts, EvenRest
<1>5. t # q /\ t # q + 1
  BY DEF InOneSector, InTwoSectors
<1>6. h = sector_size - r /\ TailSize(offset, size) = u /\ m = size - h - u
  BY DEF HeadSize, TailSize, MiddleSize
<1>7. ~(r = 0 /\ size % sector_size = 0)
  BY DEF Aligned
<1>8. e = offset + size
  OBVIOUS
<1>. HIDE DEF e, q, r, t, u, h, m
<1>9. qs \in Nat /\ ts \in Nat
  BY <1>0, <1>1, <1>3
<1>10. t > q
  <2>1. ASSUME t < q PROVE FALSE
    <3>. DEFINE c == q - t - 1
    <3>1. c \in Nat /\ q = t + 1 + c
      BY <1>1, <1>3, <2>1
    <3>. HIDE DEF c
    <3>2. qs = ts + sector_size + (c * sector_size) /\ (c * sector_size) \in Nat
      BY <1>0, <1>3, <3>1
    <3>. HIDE DEF qs, ts
    <3>. QED BY <1>0, <1>1, <1>3, <1>8, <1>9, <3>2
  <2>. QED BY <1>1, <1>3, <1>5, <2>1
<1>11. d \in Nat /\ t = q + 2 + d
  BY <1>1, <1>3, <1>5, <1>10
<1>12. /\ ts = qs + sector_size + sector_size + (d * sector_size)
       /\ (d * sector_size) \in Nat /\ (q + 1) * sector_size = qs + sector_size
  <2>. HIDE DEF d
  <2>. QED BY <1>0, <1>1, <1>11
<1>. DEFINE ds == d * sector_size
<1>13. ts = qs + sector_size + sector_size + ds /\ ds \in Nat
  BY <1>12
<1>. HIDE DEF qs, ts, ds, d
<1>14. m = sector_size + ds
  BY <1>0, <1>1, <1>3, <1>6, <1>8, <1>9, <1>13
<1>15. h \in Nat \ {0} /\ m \in Nat \ {0} /\ size = h + m + u
  BY <1>0, <1>1, <1>3, <1>6, <1>13, <1>14
<1>16. (q + 1) * sector_size = offset + h
  BY <1>0, <1>1, <1>6, <1>9, <1>12
<1>17. ts = offset + h + m
  BY <1>0, <1>1, <1>6, <1>9, <1>13, <1>14
<1>18. size >= 5
  <2>1. CASE sector_size = 2
    <3>1. r = 0
      BY <1>1, <1>4, <2>1
    <3>2. h = 2 /\ m >= 2
      BY <1>6, <1>13, <1>14, <2>1, <3>1
    <3>3. u # 0
      <4>. SUFFICES ASSUME u = 0 PROVE FALSE
        OBVIOUS
      <4>1. size = 2 + 2 + ds
        BY <1>13, <1>14, <1>15, <2>1, <3>2
      <4>2. ds = d * 2 /\ d \in Nat
        BY <1>11, <2>1 DEF ds
      <4>3. size % sector_size = 0
        BY <2>1, <4>1, <4>2
      <4>. QED BY <1>7, <3>1, <4>3
    <3>. QED BY <1>3, <1>15, <3>2, <3>3
  <2>2. CASE sector_size # 2
    <3>1. sector_size >= 4
      BY <1>0, <2>2
    <3>. QED BY <1>0, <1>3, <1>13, <1>14, <1>15, <3>1
  <2>. QED BY <2>1, <2>2
<1>19. SkipBytes(offset) \in Nat /\ SkipBytes(offset) + h = sector_size
       /\ qs + SkipBytes(offset) = offset
  BY <1>0, <1>1, <1>4, <1>6, <1>9
<1>20. u \in Nat /\ u < sector_size
  BY <1>0, <1>3
<1>21. Words(h) = h
  <2>1. h \in Nat /\ h % 2 = 0
    <3>. DEFINE k == SkipBytes(offset)
    <3>1. k \in Nat /\ k % 2 = 0 /\ k + h = sector_size /\ sector_size % 2 = 0 /\ h \in Nat
      BY <1>4, <1>15, <1>19, DeviceAssumption
    <3>. HIDE DEF k, h
    <3>. QED BY <3>1, <1>0
  <2>. QED BY <2>1, EvenWords
<1>. QED BY <1>1, <1>3, <1>6, <1>15, <1>16, <1>17, <1>18, <1>19, <1>20, <1>21 DEF q, t, h, m, u, e, qs, ts

\* Three parts put one after the other.
LEMMA LaidThree ==
  ASSUME NEW mem, NEW m1, NEW m2, NEW m3, NEW at \in Nat, NEW offset \in Nat,
         NEW h \in Nat, NEW m \in Nat, NEW u \in Nat,
         NEW b1, NEW b2, NEW b3,
         Laid(m1, mem, at + h, b1, m), Laid(m2, m1, at, b2, h), Laid(m3, m2, at + h + m, b3, u),
         FromDisk(b1, m, offset + h), FromDisk(b2, h, offset), FromDisk(b3, u, offset + h + m)
  PROVE  Moved(m3, mem, at, offset, h + m + u)
<1>1. DOMAIN m1 = DOMAIN mem /\ DOMAIN m2 = DOMAIN mem /\ DOMAIN m3 = DOMAIN mem
  BY DEF Laid
<1>2. ASSUME NEW v \in Addresses, Physical(v) \in DOMAIN mem
      PROVE  m3[Physical(v)] = IF v - at \in 0..(h + m + u) - 1 THEN disk[offset + v - at] ELSE mem[Physical(v)]
  <2>0. v \in Int
    BY SizeFacts DEF Addresses
  <2>. DEFINE w == Physical(v)
              i1 == v - (at + h) + 1
              i2 == v - at + 1
              i3 == v - (at + h + m) + 1
              y == offset + v - at
  <2>1. m1[w] = IF v - (at + h) \in 0..m - 1 THEN b1[i1] ELSE mem[w]
    BY <1>2 DEF Laid
  <2>2. m2[w] = IF v - at \in 0..h - 1 THEN b2[i2] ELSE m1[w]
    BY <1>1, <1>2 DEF Laid
  <2>3. m3[w] = IF v - (at + h + m) \in 0..u - 1 THEN b3[i3] ELSE m2[w]
    BY <1>1, <1>2 DEF Laid
  <2>4. CASE v - (at + h + m) \in 0..u - 1
    <3>1. i3 \in 1..u /\ offset + h + m + i3 - 1 = y
      BY <2>0, <2>4
    <3>2. b3[i3] = disk[y]
      <4>. HIDE DEF i3, y
      <4>. QED BY <3>1 DEF FromDisk
    <3>3. v - at \in 0..(h + m + u) - 1
      BY <2>0, <2>4
    <3>. HIDE DEF i3, y, w
    <3>. QED BY <2>3, <2>4, <3>2, <3>3 DEF y, w
  <2>5. CASE v - (at + h + m) \notin 0..u - 1 /\ v - at \in 0..h - 1
    <3>1. i2 \in 1..h /\ offset + i2 - 1 = y
      BY <2>0, <2>5
    <3>2. b2[i2] = disk[y]
      <4>. HIDE DEF i2, y
      <4>. QED BY <3>1 DEF FromDisk
    <3>3. v - at \in 0..(h + m + u) - 1
      BY <2>0, <2>5
    <3>. HIDE DEF i2, y, w
    <3>. QED BY <2>2, <2>3, <2>5, <3>2, <3>3 DEF y, w
  <2>6. CASE /\ v - (at + h + m) \notin 0..u - 1 /\ v - at \notin 0..h - 1
             /\ v - (at + h) \in 0..m - 1
    <3>1. i1 \in 1..m /\ offset + h + i1 - 1 = y
      BY <2>0, <2>6
    <3>2. b1[i1] = disk[y]
      <4>. HIDE DEF i1, y
      <4>. QED BY <3>1 DEF FromDisk
    <3>3. v - at \in 0..(h + m + u) - 1
      BY <2>0, <2>6
    <3>. HIDE DEF i1, y, w
    <3>. QED BY <2>1, <2>2, <2>3, <2>6, <3>2, <3>3 DEF y, w
  <2>7. CASE /\ v - (at + h + m) \notin 0..u - 1 /\ v - at \notin 0..h - 1
             /\ v - (at + h) \notin 0..m - 1
    <3>1. v - at \notin 0..(h + m + u) - 1
      BY <2>0, <2>7
    <3>. QED BY <2>1, <2>2, <2>3, <2>7, <3>1
  <2>. QED BY <2>4, <2>5, <2>6, <2>7
<1>. QED BY <1>1, <1>2 DEF Moved

\* The reads of many sectors, in three parts.
LEMMA ReadManyFacts ==
  ASSUME Mapped, NEW fate \in Fates, NEW mem, NEW at \in Nat, NEW offset \in Nat, NEW size \in Nat,
         at + size <= Pages * page_size, offset + size <= Bytes, offset % 2 = 0, ~Aligned(offset, size),
         ~InOneSector(offset, size), ~InTwoSectors(offset, size),
         NEW r \in ReadMany(mem, fate, at, offset, size)
  PROVE  Fetched(r, mem, fate, at, offset, size)
<1>0. sector_size \in Nat \ {0} /\ sector_count \in Nat \ {0} /\ Pages * page_size \in Nat
  BY SizeFacts
<1>. DEFINE q == offset \div sector_size
            t == (offset + size) \div sector_size
            h == HeadSize(offset)
            m == MiddleSize(offset, size)
            u == TailSize(offset, size)
            skip == SkipBytes(offset)
            to == at + Words(h)
            a1 == CommandAnswer(fate, 1, q, sector_size)
            a2 == DirectAnswer(fate, 2, q + 1, to, m)
            a3 == IF u = 0 THEN Sent ELSE CommandAnswer(fate, 3, t, sector_size)
            answers == <<a1, a2, a3>>
            landed == Put(mem, Described(Table(to, m)), Read(q + 1, m))
            head == SubSeq(Read(q, sector_size), skip + 1, skip + h)
            tail == IF u = 0 THEN <<>> ELSE SubSeq(Read(t, sector_size), 1, u)
            headed == Copy(landed, at, head)
            all == Copy(headed, to + m, tail)
            qs == q * sector_size
            ts == t * sector_size
<1>1. /\ q \in Nat /\ t \in Nat
      /\ h \in Nat \ {0} /\ m \in Nat \ {0} /\ u \in Nat
      /\ Words(h) = h /\ size = h + m + u /\ size >= 5
      /\ skip \in Nat /\ skip + h = sector_size
      /\ qs + skip = offset
      /\ (q + 1) * sector_size = offset + h
      /\ ts = offset + h + m
      /\ u < sector_size
  BY ManyFacts
<1>2. /\ (\A i \in 1..3 : answers[i] = Sent) => r = [ret |-> Value(size), mem |-> all]
      /\ ~(\A i \in 1..3 : answers[i] = Sent) => r.ret = ToldMany(answers)
  BY DEF ReadMany
<1>. HIDE DEF q, t, h, m, u, skip
<1>3. all = Copy(headed, at + h + m, tail)
  BY <1>1
<1>4. Laid(landed, mem, at + h, Read(q + 1, m), m) /\ FromDisk(Read(q + 1, m), m, offset + h)
  <2>1. to \in Nat /\ to = at + h /\ to + m <= Pages * page_size /\ m > 0 /\ m \in Nat
    BY <1>0, <1>1
  <2>2. FromDisk(Read(q + 1, m), m, (q + 1) * sector_size)
    BY <2>1, ReadFacts
  <2>3. /\ Len(Described(Table(to, m))) = m
        /\ \A j \in 1..m : Described(Table(to, m))[j] = Physical(to + j - 1)
    <3>. HIDE DEF to
    <3>. QED BY <2>1, TableExact
  <2>4. Laid(landed, mem, to, Read(q + 1, m), m)
    <3>1. Len(Read(q + 1, m)) = m
      BY <2>2 DEF FromDisk
    <3>. HIDE DEF to
    <3>. QED BY <2>1, <2>3, <3>1, PutFacts
  <2>. QED BY <1>1, <2>2, <2>4
<1>5. Laid(headed, landed, at, head, h) /\ FromDisk(head, h, offset)
  <2>1. h \in Nat /\ at + h <= Pages * page_size /\ skip + h <= sector_size /\ sector_size \in Nat
    BY <1>0, <1>1
  <2>2. FromDisk(head, h, qs + skip)
    BY <1>1, <2>1, PartFacts
  <2>. HIDE DEF qs
  <2>3. FromDisk(head, h, offset) /\ Len(head) = h
    BY <1>1, <2>2 DEF FromDisk
  <2>4. Laid(headed, landed, at, head, h)
    <3>. HIDE DEF head, landed
    <3>. QED BY <2>1, <2>3, CopyFacts
  <2>. QED BY <2>3, <2>4
<1>6. Laid(all, headed, at + h + m, tail, u) /\ FromDisk(tail, u, offset + h + m)
  <2>1. (at + h + m) \in Nat /\ at + h + m + u <= Pages * page_size /\ 0 + u <= sector_size /\ sector_size \in Nat
    BY <1>0, <1>1
  <2>2. FromDisk(tail, u, offset + h + m)
    <3>1. CASE u = 0
      BY <3>1 DEF FromDisk
    <3>2. CASE u # 0
      <4>. DEFINE b == SubSeq(Read(t, sector_size), 0 + 1, 0 + u)
      <4>1. FromDisk(b, u, ts + 0)
        BY <1>1, <2>1, PartFacts
      <4>2. tail = b
        BY <1>1, <3>2
      <4>3. ts + 0 = offset + h + m
        <5>. HIDE DEF ts
        <5>. QED BY <1>1
      <4>. HIDE DEF b, tail, ts
      <4>. QED BY <4>1, <4>2, <4>3
    <3>. QED BY <3>1, <3>2
  <2>3. Len(tail) = u
    BY <2>2 DEF FromDisk
  <2>. HIDE DEF tail, headed, all
  <2>. QED BY <1>1, <1>3, <2>1, <2>2, <2>3, CopyFacts
<1>. HIDE DEF landed, head, tail, headed, all
<1>7. Moved(all, mem, at, offset, size)
  <2>1. h \in Nat /\ m \in Nat /\ u \in Nat /\ size = h + m + u
    BY <1>1
  <2>. HIDE DEF to, qs, ts
  <2>2. Moved(all, mem, at, offset, h + m + u)
    BY <1>4, <1>5, <1>6, <2>1, LaidThree
  <2>. QED BY <2>1, <2>2
<1>. DEFINE Sane(a) ==
       /\ a \in {Sent, Lost, SUCCESS, OUT_OF_BOUNDS, FRAGMENTED_MEMORY, NO_RESOURCES, UNKNOWN_ERROR}
       /\ fate = [j \in 1..5 |-> Sent] => a \in {Sent, SUCCESS, OUT_OF_BOUNDS, FRAGMENTED_MEMORY}
<1>8. Sane(a1) /\ Sane(a2) /\ Sane(a3)
  <2>1. Sane(a1)
    BY <1>0, <1>1, AnswerFacts
  <2>2. Sane(a2)
    <3>1. q + 1 \in Nat /\ m \in Nat
      BY <1>1
    <3>. HIDE DEF to
    <3>. QED BY <3>1, DirectFacts
  <2>3. Sane(a3)
    <3>1. CASE u = 0
      BY <3>1
    <3>2. CASE u # 0
      BY <1>0, <1>1, <3>2, AnswerFacts
    <3>. QED BY <3>1, <3>2
  <2>. QED BY <2>1, <2>2, <2>3
<1>. HIDE DEF a1, a2, a3
<1>9. /\ \A i \in 1..3 : Sane(answers[i])
  <2>1. answers[1] = a1 /\ answers[2] = a2 /\ answers[3] = a3
    OBVIOUS
  <2>2. \A i \in 1..3 : i = 1 \/ i = 2 \/ i = 3
    OBVIOUS
  <2>. HIDE DEF Sane, answers
  <2>. QED BY <1>8, <2>1, <2>2
<1>. HIDE DEF answers
<1>10. CASE \A i \in 1..3 : answers[i] = Sent
  <2>1. r.mem = all
    <3>. HIDE DEF Sane
    <3>. QED BY <1>2, <1>10
  <2>. QED BY <1>7, <2>1 DEF Fetched
<1>11. ASSUME ~(\A i \in 1..3 : answers[i] = Sent), ~(\E i \in Issued(answers) : answers[i] = Lost)
       PROVE  Fetched(r, mem, fate, at, offset, size)
  <2>0. Refusals(answers) # {}
    <3>1. \A i \in 1..3 : ~Sane(answers[i]) \/ answers[i] >= 0 \/ answers[i] \in {Sent, Lost}
      BY DEF SUCCESS, OUT_OF_BOUNDS, FRAGMENTED_MEMORY, NO_RESOURCES, UNKNOWN_ERROR
    <3>2. \A i \in 1..3 : answers[i] >= 0 \/ answers[i] \in {Sent, Lost}
      <4>. HIDE DEF Sane
      <4>. QED BY <1>9, <3>1
    <3>. SUFFICES ASSUME Refusals(answers) = {} PROVE FALSE
      OBVIOUS
    <3>3. \A i \in 1..3 : answers[i] \in {Sent, Lost}
      <4>. HIDE DEF Sane
      <4>. QED BY <3>2 DEF Refusals
    <3>4. Issued(answers) = 1..3
      <4>. HIDE DEF Sane
      <4>. QED BY <3>3 DEF Issued, Sent, Lost
    <3>. HIDE DEF Sane
    <3>. QED BY <1>11, <3>3, <3>4
  <2>1. r.ret = Value(FirstRefusal(answers))
    <3>. HIDE DEF Sane
    <3>. QED BY <1>2, <1>11 DEF ToldMany
  <2>2. PICK i \in 1..3 : FirstRefusal(answers) = answers[i] /\ answers[i] >= 0
    <3>. HIDE DEF Sane
    <3>1. \E i \in Refusals(answers) : \A j \in Refusals(answers) : i <= j
      <4>1. Refusals(answers) \in SUBSET Nat
        BY DEF Refusals
      <4>. QED BY <2>0, <4>1, Least
    <3>2. \E i \in Refusals(answers) : FirstRefusal(answers) = answers[i]
      BY <3>1 DEF FirstRefusal
    <3>. QED BY <3>2 DEF Refusals
  <2>3. Sane(answers[i])
    BY <1>9
  <2>. DEFINE a == answers[i]
  <2>4. Sane(a) /\ a >= 0 /\ r.ret = Value(a)
    BY <2>1, <2>2, <2>3
  <2>. HIDE DEF a
  <2>5. ASSUME Value(a) = Value(size), Quiet(fate, size) PROVE FALSE
    <3>1. a = size
      BY <2>5 DEF Value
    <3>. QED
      BY <1>1, <2>4, <2>5, <3>1
         DEF Quiet, Sent, Lost, SUCCESS, OUT_OF_BOUNDS, FRAGMENTED_MEMORY, NO_RESOURCES, UNKNOWN_ERROR
  <2>. QED BY <2>4, <2>5 DEF Fetched
<1>12. ASSUME NEW i \in Issued(answers), answers[i] = Lost
       PROVE  Fetched(r, mem, fate, at, offset, size)
  <2>0. i \in 1..3 /\ Lost # Sent
    BY DEF Issued, Lost, Sent
  <2>1. r.ret = Value(UNKNOWN_ERROR)
    <3>. HIDE DEF Sane
    <3>. QED BY <1>2, <1>12, <2>0 DEF ToldMany
  <2>2. Sane(answers[i])
    BY <1>9, <2>0
  <2>3. fate # [j \in 1..5 |-> Sent]
    BY <1>12, <2>2
       DEF Sent, Lost, SUCCESS, OUT_OF_BOUNDS, FRAGMENTED_MEMORY, NO_RESOURCES, UNKNOWN_ERROR
  <2>4. ASSUME Value(UNKNOWN_ERROR) = Value(size), Quiet(fate, size) PROVE FALSE
    BY <2>3, <2>4 DEF Value, Quiet, UNKNOWN_ERROR
  <2>. QED BY <2>1, <2>4 DEF Fetched
<1>. QED BY <1>10, <1>11, <1>12

\* Whatever its path, a read that returns the size moves exactly the range.
LEMMA ReadEvenFacts ==
  ASSUME Mapped, NEW fate \in Fates, NEW mem, NEW at \in Nat, NEW offset \in Nat, NEW size \in Nat,
         at % 2 = 0, at + size <= Pages * page_size, offset % 2 = 0,
         NEW r \in ReadEven(mem, fate, at, offset, size)
  PROVE  Fetched(r, mem, fate, at, offset, size)
<1>1. CASE Beyond(offset, size)
  <2>1. r.ret = Error("OUT_OF_BOUNDS")
    BY <1>1 DEF ReadEven, Path
  <2>. QED BY <2>1 DEF Fetched, Error, Value
<1>2. CASE ~Beyond(offset, size)
  <2>1. offset + size <= Bytes
    BY <1>2, SizeFacts DEF Beyond
  <2>2. CASE Aligned(offset, size)
    <3>1. r \in ReadDirect(mem, fate, at, offset, size)
      BY <1>2, <2>2 DEF ReadEven, Path
    <3>. QED BY <2>1, <2>2, <3>1, ReadDirectFacts
  <2>3. CASE ~Aligned(offset, size) /\ (InOneSector(offset, size) \/ InTwoSectors(offset, size))
    <3>1. r \in ReadAround(mem, fate, at, offset, size)
      BY <1>2, <2>3 DEF ReadEven, Path
    <3>. QED BY <2>1, <2>3, <3>1, ReadAroundFacts
  <2>4. CASE ~Aligned(offset, size) /\ ~(InOneSector(offset, size) \/ InTwoSectors(offset, size))
    <3>1. r \in ReadMany(mem, fate, at, offset, size)
      BY <1>2, <2>4 DEF ReadEven, Path
    <3>. QED BY <2>1, <2>4, <3>1, ReadManyFacts
  <2>. QED BY <2>2, <2>3, <2>4
<1>. QED BY <1>1, <1>2

-----------------------------------------------------------------------------
(* The device *)

Untouched ==
  /\ disk = [p \in 0..Bytes - 1 |-> DiskByte(p)]
  /\ memory = [p \in UNION {mapping[v] * page_size..(mapping[v] + 1) * page_size - 1 :
                              v \in 0..Pages - 1} |-> MemoryByte(p)]

\* Before the call nothing is touched, after it both properties hold.
DeviceInv ==
  /\ Mapped
  /\ call.op = "none" => Untouched
  /\ ReadExact
  /\ WriteExact

\* Before the call, every byte has the name of its place.
LEMMA UntouchedFacts ==
  ASSUME Mapped, Untouched
  PROVE  /\ DOMAIN disk = 0..Bytes - 1 /\ DOMAIN disk \subseteq Nat
         /\ \A p \in DOMAIN disk : disk[p] = DiskByte(p)
         /\ \A v \in Addresses : /\ Physical(v) \in DOMAIN memory
                                 /\ memory[Physical(v)] = MemoryByte(Physical(v))
<1>1. DOMAIN disk = 0..Bytes - 1 /\ \A p \in DOMAIN disk : disk[p] = DiskByte(p)
  BY DEF Untouched
<1>2. 0..Bytes - 1 \subseteq Nat
  BY SizeFacts
<1>. DEFINE D == UNION {mapping[v] * page_size..(mapping[v] + 1) * page_size - 1 : v \in 0..Pages - 1}
<1>3. DOMAIN memory = D /\ \A p \in D : memory[p] = MemoryByte(p)
  BY DEF Untouched
<1>4. ASSUME NEW a \in Addresses PROVE Physical(a) \in D
  <2>1. PICK p \in 0..Pages - 1, d \in 0..(page_size - 1) : a = (p * page_size) + d
    BY AddressPage
  <2>2. p \in Nat /\ mapping[p] \in Nat /\ page_size \in Nat \ {0}
    BY SizeFacts DEF Mapped
  <2>3. Physical(a) = (mapping[p] * page_size) + d
    BY <2>1, <2>2, PhysicalIn
  <2>. DEFINE x == mapping[p]
  <2>4. (x + 1) * page_size = (x * page_size) + page_size /\ x * page_size \in Nat
    BY <2>2
  <2>5. Physical(a) \in x * page_size..(x + 1) * page_size - 1
    BY <2>2, <2>3, <2>4
  <2>. QED BY <2>5
<1>. HIDE DEF D
<1>. QED BY <1>1, <1>2, <1>3, <1>4

\* A buffer holds the bytes of its range.
LEMMA BufferFacts ==
  ASSUME NEW mem, NEW at, NEW size \in Nat
  PROVE  /\ Len(Buffer(mem, at, size)) = size
         /\ \A i \in 1..size : Buffer(mem, at, size)[i] = mem[Physical(at + i - 1)]
<1>. DEFINE f == [i \in 1..size |-> mem[Physical(at + i - 1)]]
<1>1. Buffer(mem, at, size) = f
  BY DEF Buffer
<1>2. f = [i \in 1..size |-> f[i]] /\ \A i \in 1..size : f[i] = mem[Physical(at + i - 1)]
  OBVIOUS
<1>. HIDE DEF f
<1>. QED BY <1>1, <1>2, ListFacts

\* The invariant holds at the start.
LEMMA DeviceStart == DeviceInit => DeviceInv
<1>. SUFFICES ASSUME DeviceInit PROVE DeviceInv
  OBVIOUS
<1>1. Mapped
  BY DeviceAssumption DEF DeviceInit, DeviceAssumption, Mapped
<1>2. Untouched /\ call.op = "none"
  BY DEF DeviceInit, Untouched
<1>. QED BY <1>1, <1>2 DEF DeviceInv, ReadExact, WriteExact

\* A read leaves only what it should, wherever the caller put its buffer.
LEMMA ReadStep ==
  ASSUME Mapped, Untouched, NEW fate \in Fates, NEW at \in Nat, NEW offset \in Nat, NEW size \in Nat,
         at + size <= Pages * page_size, CallRead(fate, at, offset, size)
  PROVE  ReadExact' /\ WriteExact'
<1>1. mapping' = mapping /\ disk' = disk
  BY DEF CallRead
<1>2. PICK ret : Returned("read", at, offset, size, fate, ret)
  BY DEF CallRead
<1>3. /\ call'.op = "read" /\ call'.at = at /\ call'.offset = offset /\ call'.size = size
      /\ call'.fault = (fate # [k \in 1..5 |-> Sent])
  BY <1>2 DEF Returned
<1>4. WriteExact'
  BY <1>3 DEF WriteExact
<1>5. ASSUME call'.ret = Value(size), offset % 2 = 0, Quiet(fate, size)
      PROVE  Moved(memory', memory, at, offset, size)
  <2>1. CASE at % 2 = 0
    <3>1. PICK r \in ReadEven(memory, fate, at, offset, size) :
            memory' = r.mem /\ Returned("read", at, offset, size, fate, r.ret)
      BY <2>1 DEF CallRead
    <3>2. Fetched(r, memory, fate, at, offset, size)
      BY <1>5, <2>1, ReadEvenFacts
    <3>3. r.ret = Value(size)
      BY <1>5, <3>1 DEF Returned
    <3>. QED BY <1>5, <3>1, <3>2, <3>3 DEF Fetched
  <2>2. CASE at % 2 # 0
    <3>. DEFINE b == at - 1
    <3>1. PICK r \in ReadEven(Fresh, fate, b, offset, size) :
            /\ memory' = IF r.ret.error = "none"
                         THEN Copy(memory, at, Buffer(r.mem, b, size)) ELSE memory
            /\ Returned("read", at, offset, size, fate, r.ret)
      BY <2>2 DEF CallRead
    <3>2. b \in Nat /\ b % 2 = 0 /\ b + size <= Pages * page_size /\ at = b + 1
      <4>1. Pages * page_size \in Nat
        BY SizeFacts
      <4>. QED BY <2>2, <4>1
    <3>. HIDE DEF b
    <3>3. Fetched(r, Fresh, fate, b, offset, size)
      BY <1>5, <3>2, ReadEvenFacts
    <3>4. r.ret = Value(size)
      BY <1>5, <3>1 DEF Returned
    <3>5. Moved(r.mem, Fresh, b, offset, size)
      BY <1>5, <3>3, <3>4 DEF Fetched
    <3>. DEFINE bytes == Buffer(r.mem, b, size)
    <3>6. memory' = Copy(memory, at, bytes)
      BY <3>1, <3>4 DEF Value
    <3>7. Len(bytes) = size /\ \A i \in 1..size : bytes[i] = r.mem[Physical(b + i - 1)]
      BY BufferFacts
    <3>. HIDE DEF bytes
    <3>8. ASSUME NEW i \in 1..size PROVE bytes[i] = disk[offset + i - 1]
      <4>. DEFINE v == b + i - 1
      <4>1. v \in Addresses
        BY <3>2, RangeAddresses
      <4>2. DOMAIN Fresh = DOMAIN memory
        BY DEF Fresh
      <4>3. Physical(v) \in DOMAIN Fresh
        BY <4>1, <4>2, UntouchedFacts
      <4>4. v - b \in 0..size - 1 /\ offset + v - b = offset + i - 1
        BY <3>2
      <4>. HIDE DEF v
      <4>5. r.mem[Physical(v)] = disk[offset + v - b]
        BY <3>5, <4>1, <4>3, <4>4 DEF Moved
      <4>6. r.mem[Physical(v)] = disk[offset + i - 1]
        BY <4>4, <4>5
      <4>. QED BY <3>7, <4>6 DEF v
    <3>9. FromDisk(bytes, size, offset)
      BY <3>7, <3>8 DEF FromDisk
    <3>10. Laid(memory', memory, at, bytes, size)
      BY <3>6, <3>7, CopyFacts
    <3>. DEFINE q == [ret |-> Value(size), mem |-> memory']
    <3>11. q.mem = memory' /\ q.ret = Value(size)
      OBVIOUS
    <3>. HIDE DEF q
    <3>12. Fetched(q, memory, fate, at, offset, size)
      BY <3>9, <3>10, <3>11, LaidFetched
    <3>. QED BY <1>5, <3>11, <3>12 DEF Fetched
  <2>. QED BY <2>1, <2>2
<1>6. Addresses' = Addresses /\ \A v : Physical(v)' = Physical(v)
  BY <1>1 DEF Addresses, Physical
<1>7. ASSUME call'.ret = Value(size), offset % 2 = 0, Quiet(fate, size), offset + size <= Bytes, NEW v \in Addresses
      PROVE  memory'[Physical(v)] = IF v - at \in 0..size - 1
                                    THEN DiskByte(offset + v - at)
                                    ELSE MemoryByte(Physical(v))
  <2>1. /\ Physical(v) \in DOMAIN memory /\ memory[Physical(v)] = MemoryByte(Physical(v))
    BY UntouchedFacts
  <2>2. memory'[Physical(v)] = IF v - at \in 0..size - 1 THEN disk[offset + v - at] ELSE memory[Physical(v)]
    BY <1>5, <1>7, <2>1 DEF Moved
  <2>3. ASSUME v - at \in 0..size - 1 PROVE disk[offset + v - at] = DiskByte(offset + v - at)
    <3>1. v \in Int /\ Bytes \in Nat
      BY SizeFacts DEF Addresses
    <3>2. offset + v - at \in 0..Bytes - 1
      BY <1>7, <2>3, <3>1
    <3>. QED BY <3>2, UntouchedFacts
  <2>. QED BY <2>1, <2>2, <2>3
<1>8. call'.ret = Value(size) => offset + size <= Bytes
  <2>. SUFFICES ASSUME call'.ret = Value(size), ~(offset + size <= Bytes) PROVE FALSE
    OBVIOUS
  <2>1. Beyond(offset, size)
    BY SizeFacts DEF Beyond
  <2>2. \A m, a : ReadEven(m, fate, a, offset, size) = {[ret |-> Error("OUT_OF_BOUNDS"), mem |-> m]}
    BY <2>1 DEF ReadEven, Path
  <2>3. \E r : r.ret = Error("OUT_OF_BOUNDS") /\ Returned("read", at, offset, size, fate, r.ret)
    <3>1. CASE at % 2 = 0
      BY <2>2, <3>1 DEF CallRead
    <3>2. CASE at % 2 # 0
      BY <2>2, <3>2 DEF CallRead
    <3>. QED BY <3>1, <3>2
  <2>4. call'.ret = Error("OUT_OF_BOUNDS")
    BY <2>3 DEF Returned
  <2>. QED BY <2>4 DEF Error, Value
<1>9. ReadExact'
  <2>. SUFFICES ASSUME call'.ret = Value(call'.size), call'.offset % 2 = 0,
                       ~call'.fault \/ call'.size > UNKNOWN_ERROR,
                       NEW v \in Addresses
                PROVE  memory'[Physical(v)] = IF v - call'.at \in 0..call'.size - 1
                                              THEN DiskByte(call'.offset + v - call'.at)
                                              ELSE MemoryByte(Physical(v))
    BY <1>6 DEF ReadExact, Even, InRange
  <2>1. Quiet(fate, size)
    BY <1>3 DEF Quiet
  <2>. QED BY <1>3, <1>7, <1>8, <2>1
<1>. QED BY <1>4, <1>9

\* A write leaves only what it should.
LEMMA WriteStep ==
  ASSUME Mapped, Untouched, NEW fate \in Fates, NEW at \in Nat, NEW offset \in Nat, NEW size \in Nat,
         at + size <= Pages * page_size, CallWrite(fate, at, offset, size)
  PROVE  ReadExact' /\ WriteExact'
<1>. DEFINE bytes == Buffer(memory, at, size)
            even == at - (at % 2)
<1>1. mapping' = mapping /\ memory' = memory
  BY DEF CallWrite
<1>2. PICK r \in WriteEven(bytes, fate, even, offset, size) :
        disk' = r.disk /\ corrupt' = r.corrupt /\ Returned("write", at, offset, size, fate, r.ret)
  BY DEF CallWrite
<1>3. /\ call'.op = "write" /\ call'.at = at /\ call'.offset = offset /\ call'.size = size
      /\ call'.fault = (fate # [k \in 1..5 |-> Sent]) /\ call'.ret = r.ret
  BY <1>2 DEF Returned
<1>4. ReadExact'
  BY <1>3 DEF ReadExact
<1>5. ASSUME ~corrupt', offset % 2 = 0, NEW p \in DOMAIN disk'
      PROVE  IF p - offset \in 0..size - 1
             THEN (~Aligned(offset, size) /\ r.ret = Value(size) /\ Quiet(fate, size))
                    => disk'[p] = MemoryByte(Physical(at + p - offset))
             ELSE disk'[p] = DiskByte(p)
  <2>1. DOMAIN disk \subseteq Nat /\ \A x \in DOMAIN disk : disk[x] = DiskByte(x)
    BY UntouchedFacts
  <2>2. Written(r, bytes, fate, offset, size)
    <3>. HIDE DEF bytes, even
    <3>. QED BY <1>2, <1>5, <2>1, WriteEvenFacts
  <2>3. p \in DOMAIN disk
    BY <1>2, <2>2 DEF Written
  <2>4. CASE p - offset \in 0..size - 1
    <3>. SUFFICES ASSUME ~Aligned(offset, size), r.ret = Value(size), Quiet(fate, size)
                  PROVE  disk'[p] = MemoryByte(Physical(at + p - offset))
      BY <2>4
    <3>1. disk'[p] = bytes[p - offset + 1]
      <4>. HIDE DEF bytes
      <4>. QED BY <1>2, <1>5, <2>2, <2>3, <2>4 DEF Written
    <3>. DEFINE i == p - offset + 1
    <3>2. p \in Nat /\ i \in 1..size /\ at + i - 1 = at + p - offset
      BY <2>1, <2>3, <2>4
    <3>. HIDE DEF i
    <3>3. bytes[i] = memory[Physical(at + i - 1)]
      <4>1. bytes[i] = memory[Physical(at + i - 1)]
        BY <3>2 DEF Buffer
      <4>. QED BY <4>1
    <3>4. at + i - 1 \in Addresses
      BY <3>2, RangeAddresses
    <3>5. memory[Physical(at + i - 1)] = MemoryByte(Physical(at + i - 1))
      BY <3>4, UntouchedFacts
    <3>. QED BY <3>1, <3>2, <3>3, <3>5 DEF i
  <2>5. CASE p - offset \notin 0..size - 1
    <3>1. disk'[p] = disk[p]
      <4>. HIDE DEF bytes
      <4>. QED BY <1>2, <2>2, <2>3, <2>5 DEF Written
    <3>. QED BY <2>1, <2>3, <2>5, <3>1
  <2>. QED BY <2>4, <2>5
<1>6. \A v : Physical(v)' = Physical(v)
  BY <1>1 DEF Physical
<1>7. WriteExact'
  <2>. SUFFICES ASSUME ~corrupt', call'.offset % 2 = 0, NEW p \in DOMAIN disk'
                PROVE  IF p - call'.offset \in 0..call'.size - 1
                       THEN (~Aligned(call'.offset, call'.size) /\ call'.ret = Value(call'.size)
                               /\ (~call'.fault \/ call'.size > UNKNOWN_ERROR))
                              => disk'[p] = MemoryByte(Physical(call'.at + p - call'.offset))
                       ELSE disk'[p] = DiskByte(p)
    BY <1>6 DEF WriteExact, Even, InRange
  <2>. QED BY <1>3, <1>5 DEF Quiet
<1>. QED BY <1>4, <1>7

\* The invariant is kept: there is one call, from the untouched state.
LEMMA DeviceStep == DeviceInv /\ [DeviceNext]_deviceVars => DeviceInv'
<1>. SUFFICES ASSUME DeviceInv, [DeviceNext]_deviceVars PROVE DeviceInv'
  OBVIOUS
<1>1. CASE DeviceNext
  <2>1. Mapped /\ Untouched
    BY <1>1 DEF DeviceInv, DeviceNext
  <2>2. PICK fate \in Fates, at \in 0..page_size, offset \in 0..Bytes :
          \E size \in 0..Pages * page_size - at :
            CallRead(fate, at, offset, size) \/ CallWrite(fate, at, offset, size)
    BY <1>1 DEF DeviceNext
  <2>3. PICK size \in 0..Pages * page_size - at :
          CallRead(fate, at, offset, size) \/ CallWrite(fate, at, offset, size)
    BY <2>2
  <2>4. at \in Nat /\ offset \in Nat /\ size \in Nat /\ at + size <= Pages * page_size
    <3>1. page_size \in Nat /\ Bytes \in Nat /\ Pages * page_size \in Nat
      BY SizeFacts
    <3>. QED BY <3>1
  <2>5. ReadExact' /\ WriteExact'
    <3>1. CASE CallRead(fate, at, offset, size)
      BY <2>1, <2>4, <3>1, ReadStep
    <3>2. CASE CallWrite(fate, at, offset, size)
      BY <2>1, <2>4, <3>2, WriteStep
    <3>. QED BY <2>3, <3>1, <3>2
  <2>6. Mapped' /\ call'.op # "none"
    <3>1. mapping' = mapping
      BY <2>3 DEF CallRead, CallWrite
    <3>2. \E o \in {"read", "write"} : \E ret : Returned(o, at, offset, size, fate, ret)
      <4>1. CASE CallRead(fate, at, offset, size)
        BY <4>1 DEF CallRead
      <4>2. CASE CallWrite(fate, at, offset, size)
        BY <4>2 DEF CallWrite
      <4>. QED BY <2>3, <4>1, <4>2
    <3>3. call'.op # "none"
      BY <3>2 DEF Returned
    <3>. QED BY <2>1, <3>1, <3>3 DEF Mapped
  <2>. QED BY <2>5, <2>6 DEF DeviceInv
<1>2. CASE UNCHANGED deviceVars
  BY <1>2 DEF deviceVars, DeviceInv, Mapped, Untouched, ReadExact, WriteExact, InRange, Even,
              Physical
<1>. QED BY <1>1, <1>2

\* sata_port_device::read, from an even offset: a read that returned its size
\* gave the bytes of the range in their order and left every other byte of the
\* memory alone, for every size of sector, page and table, every mapping of the
\* buffer and each command that may fail, unless the number of an error was
\* taken for the size.
THEOREM RangesRead == DeviceSpec => []ReadExact
<1>1. DeviceInv => ReadExact
  BY DEF DeviceInv
<1>. QED BY <1>1, DeviceStart, DeviceStep, PTL DEF DeviceSpec

\* sata_port_device::write, from an even offset: a write that did not write
\* over its own stack left every byte outside its range alone, and one through
\* a buffer of one or two sectors that returned its size put every byte of the
\* range on the disk.
THEOREM RangesWritten == DeviceSpec => []WriteExact
<1>1. DeviceInv => WriteExact
  BY DEF DeviceInv
<1>. QED BY <1>1, DeviceStart, DeviceStep, PTL DEF DeviceSpec

-----------------------------------------------------------------------------
(* The functions over entries, drives, extents and paths *)

\* The good places of a drive, entry by entry.
LEMMA GoodPlacesFacts ==
  ASSUME NEW d, Len(drives[d].entries) \in Nat
  PROVE  /\ GoodPlaces(d)[0] = <<>>
         /\ \A l \in 1..Len(drives[d].entries) : GoodPlaces(d)[l] =
              IF IsGood(d, drives[d].entries[l])
              THEN Append(GoodPlaces(d)[l - 1], drives[d].entries[l].lba)
              ELSE GoodPlaces(d)[l - 1]
<1>. DEFINE More(y, l) == IF IsGood(d, drives[d].entries[l]) THEN Append(y, drives[d].entries[l].lba) ELSE y
            G(g, n) == g = [l \in 0..n |-> IF l = 0 THEN <<>> ELSE More(g[l - 1], l)]
            S == {n \in Nat : \E g : G(g, n)}
            F(s) == [l \in 0..Len(drives[d].entries) |-> IF l = 0 THEN <<>> ELSE More(s[l - 1], l)]
            s == CHOOSE f : f = F(f)
<1>0. 0 \in 0..Len(drives[d].entries) /\ \A l \in 1..Len(drives[d].entries) : l \in 0..Len(drives[d].entries) /\ l # 0
  OBVIOUS
<1>1. 0 \in S
  <2>. DEFINE g == [l \in 0..0 |-> <<>>]
  <2>1. G(g, 0)
    OBVIOUS
  <2>. HIDE DEF G, g
  <2>. QED BY <2>1
<1>2. ASSUME NEW n \in Nat, n \in S PROVE n + 1 \in S
  <2>1. PICK h : G(h, n)
    BY <1>2
  <2>. DEFINE b == n + 1
              g == [l \in 0..b |-> IF l = b THEN More(h[b - 1], b) ELSE h[l]]
  <2>2. ASSUME NEW l \in 0..b
        PROVE  g[l] = IF l = 0 THEN <<>> ELSE More(g[l - 1], l)
    <3>1. CASE l = b
      <4>1. l # 0 /\ b - 1 \in 0..b /\ b - 1 # b
        BY <3>1
      <4>. QED BY <3>1, <4>1
    <3>2. CASE l # b
      <4>1. l \in 0..n
        BY <3>2
      <4>2. l = 0 \/ (l - 1 \in 0..b /\ l - 1 # b)
        OBVIOUS
      <4>. QED BY <2>1, <3>2, <4>1, <4>2
    <3>. QED BY <3>1, <3>2
  <2>3. G(g, n + 1)
    BY <2>2
  <2>. HIDE DEF G, g
  <2>. QED BY <2>3
<1>3. Nat \subseteq S
  <2>. HIDE DEF S
  <2>. QED BY <1>1, <1>2, SetInduction
<1>4. PICK g : G(g, Len(drives[d].entries))
  <2>. HIDE DEF G
  <2>. QED BY <1>0, <1>3
<1>5. g = F(g)
  BY <1>0, <1>4
<1>6. s = F(s)
  <2>. HIDE DEF F
  <2>. QED BY <1>5
<1>7. GoodPlaces(d) = s
  BY DEF GoodPlaces
<1>. HIDE DEF s
<1>8. \A l \in 0..Len(drives[d].entries) : s[l] = IF l = 0 THEN <<>> ELSE More(s[l - 1], l)
  BY <1>6
<1>. QED BY <1>0, <1>7, <1>8

\* The mounted places of a drive, mount by mount.
LEMMA MountsFacts ==
  ASSUME NEW list, NEW d, Len(list) \in Nat
  PROVE  /\ MountsOf(list, d)[0] = <<>>
         /\ \A l \in 1..Len(list) : MountsOf(list, d)[l] =
              IF list[l].drive = d
              THEN Append(MountsOf(list, d)[l - 1], list[l].lba)
              ELSE MountsOf(list, d)[l - 1]
<1>. DEFINE More(y, l) == IF list[l].drive = d THEN Append(y, list[l].lba) ELSE y
            G(g, n) == g = [l \in 0..n |-> IF l = 0 THEN <<>> ELSE More(g[l - 1], l)]
            S == {n \in Nat : \E g : G(g, n)}
            F(s) == [l \in 0..Len(list) |-> IF l = 0 THEN <<>> ELSE More(s[l - 1], l)]
            s == CHOOSE f : f = F(f)
<1>0. 0 \in 0..Len(list) /\ \A l \in 1..Len(list) : l \in 0..Len(list) /\ l # 0
  OBVIOUS
<1>1. 0 \in S
  <2>. DEFINE g == [l \in 0..0 |-> <<>>]
  <2>1. G(g, 0)
    OBVIOUS
  <2>. HIDE DEF G, g
  <2>. QED BY <2>1
<1>2. ASSUME NEW n \in Nat, n \in S PROVE n + 1 \in S
  <2>1. PICK h : G(h, n)
    BY <1>2
  <2>. DEFINE b == n + 1
              g == [l \in 0..b |-> IF l = b THEN More(h[b - 1], b) ELSE h[l]]
  <2>2. ASSUME NEW l \in 0..b
        PROVE  g[l] = IF l = 0 THEN <<>> ELSE More(g[l - 1], l)
    <3>1. CASE l = b
      <4>1. l # 0 /\ b - 1 \in 0..b /\ b - 1 # b
        BY <3>1
      <4>. QED BY <3>1, <4>1
    <3>2. CASE l # b
      <4>1. l \in 0..n
        BY <3>2
      <4>2. l = 0 \/ (l - 1 \in 0..b /\ l - 1 # b)
        OBVIOUS
      <4>. QED BY <2>1, <3>2, <4>1, <4>2
    <3>. QED BY <3>1, <3>2
  <2>3. G(g, n + 1)
    BY <2>2
  <2>. HIDE DEF G, g
  <2>. QED BY <2>3
<1>3. Nat \subseteq S
  <2>. HIDE DEF S
  <2>. QED BY <1>1, <1>2, SetInduction
<1>4. PICK g : G(g, Len(list))
  <2>. HIDE DEF G
  <2>. QED BY <1>0, <1>3
<1>5. g = F(g)
  BY <1>0, <1>4
<1>6. s = F(s)
  <2>. HIDE DEF F
  <2>. QED BY <1>5
<1>7. MountsOf(list, d) = s
  BY DEF MountsOf
<1>. HIDE DEF s
<1>8. \A l \in 0..Len(list) : s[l] = IF l = 0 THEN <<>> ELSE More(s[l - 1], l)
  BY <1>6
<1>. QED BY <1>0, <1>7, <1>8

\* A buffer, extent by extent.
LEMMA FilledFacts ==
  ASSUME NEW extents, NEW old, NEW offset, NEW size, Len(extents) \in Nat
  PROVE  /\ Filled(extents, old, offset, size)[0] = old
         /\ \A l \in 1..Len(extents) : Filled(extents, old, offset, size)[l] =
              Fill(Filled(extents, old, offset, size)[l - 1], extents[l], offset, size)
<1>. DEFINE G(g, n) == g = [l \in 0..n |-> IF l = 0 THEN old ELSE Fill(g[l - 1], extents[l], offset, size)]
            S == {n \in Nat : \E g : G(g, n)}
            F(s) == [l \in 0..Len(extents) |-> IF l = 0 THEN old ELSE Fill(s[l - 1], extents[l], offset, size)]
            s == CHOOSE f : f = F(f)
<1>0. 0 \in 0..Len(extents) /\ \A l \in 1..Len(extents) : l \in 0..Len(extents) /\ l # 0
  OBVIOUS
<1>1. 0 \in S
  <2>. DEFINE g == [l \in 0..0 |-> old]
  <2>1. G(g, 0)
    OBVIOUS
  <2>. HIDE DEF G, g
  <2>. QED BY <2>1
<1>2. ASSUME NEW n \in Nat, n \in S PROVE n + 1 \in S
  <2>1. PICK h : G(h, n)
    BY <1>2
  <2>. DEFINE b == n + 1
              g == [l \in 0..b |-> IF l = b THEN Fill(h[b - 1], extents[b], offset, size) ELSE h[l]]
  <2>2. ASSUME NEW l \in 0..b
        PROVE  g[l] = IF l = 0 THEN old ELSE Fill(g[l - 1], extents[l], offset, size)
    <3>1. CASE l = b
      <4>1. l # 0 /\ b - 1 \in 0..b /\ b - 1 # b
        BY <3>1
      <4>. QED BY <3>1, <4>1
    <3>2. CASE l # b
      <4>1. l \in 0..n
        BY <3>2
      <4>2. l = 0 \/ (l - 1 \in 0..b /\ l - 1 # b)
        OBVIOUS
      <4>. QED BY <2>1, <3>2, <4>1, <4>2
    <3>. QED BY <3>1, <3>2
  <2>3. G(g, n + 1)
    BY <2>2
  <2>. HIDE DEF G, g
  <2>. QED BY <2>3
<1>3. Nat \subseteq S
  <2>. HIDE DEF S
  <2>. QED BY <1>1, <1>2, SetInduction
<1>4. PICK g : G(g, Len(extents))
  <2>. HIDE DEF G
  <2>. QED BY <1>0, <1>3
<1>5. g = F(g)
  BY <1>0, <1>4
<1>6. s = F(s)
  <2>. HIDE DEF F
  <2>. QED BY <1>5
<1>7. Filled(extents, old, offset, size) = s
  BY DEF Filled
<1>. HIDE DEF s
<1>8. \A l \in 0..Len(extents) : s[l] = IF l = 0 THEN old ELSE Fill(s[l - 1], extents[l], offset, size)
  BY <1>6
<1>. QED BY <1>0, <1>7, <1>8

\* A path, name by name.
LEMMA WayFacts ==
  ASSUME NEW p, Len(p) \in Nat
  PROVE  /\ DOMAIN Way(p) = 0..Len(p)
         /\ Way(p)[0] = RootInode
         /\ \A l \in 1..Len(p) : Way(p)[l] = Descend(Way(p)[l - 1], p[l])
<1>. DEFINE G(g, n) == g = [l \in 0..n |-> IF l = 0 THEN RootInode ELSE Descend(g[l - 1], p[l])]
            S == {n \in Nat : \E g : G(g, n)}
            F(s) == [l \in 0..Len(p) |-> IF l = 0 THEN RootInode ELSE Descend(s[l - 1], p[l])]
            s == CHOOSE f : f = F(f)
<1>0. 0 \in 0..Len(p) /\ \A l \in 1..Len(p) : l \in 0..Len(p) /\ l # 0
  OBVIOUS
<1>1. 0 \in S
  <2>. DEFINE g == [l \in 0..0 |-> RootInode]
  <2>1. G(g, 0)
    OBVIOUS
  <2>. HIDE DEF G, g
  <2>. QED BY <2>1
<1>2. ASSUME NEW n \in Nat, n \in S PROVE n + 1 \in S
  <2>1. PICK h : G(h, n)
    BY <1>2
  <2>. DEFINE b == n + 1
              g == [l \in 0..b |-> IF l = b THEN Descend(h[b - 1], p[b]) ELSE h[l]]
  <2>2. ASSUME NEW l \in 0..b
        PROVE  g[l] = IF l = 0 THEN RootInode ELSE Descend(g[l - 1], p[l])
    <3>1. CASE l = b
      <4>1. l # 0 /\ b - 1 \in 0..b /\ b - 1 # b
        BY <3>1
      <4>. QED BY <3>1, <4>1
    <3>2. CASE l # b
      <4>1. l \in 0..n
        BY <3>2
      <4>2. l = 0 \/ (l - 1 \in 0..b /\ l - 1 # b)
        OBVIOUS
      <4>. QED BY <2>1, <3>2, <4>1, <4>2
    <3>. QED BY <3>1, <3>2
  <2>3. G(g, n + 1)
    BY <2>2
  <2>. HIDE DEF G, g
  <2>. QED BY <2>3
<1>3. Nat \subseteq S
  <2>. HIDE DEF S
  <2>. QED BY <1>1, <1>2, SetInduction
<1>4. PICK g : G(g, Len(p))
  <2>. HIDE DEF G
  <2>. QED BY <1>0, <1>3
<1>5. g = F(g)
  BY <1>0, <1>4
<1>6. s = F(s)
  <2>. HIDE DEF F
  <2>. QED BY <1>5
<1>7. Way(p) = s
  BY DEF Way
<1>. HIDE DEF s
<1>8. \A l \in 0..Len(p) : s[l] = IF l = 0 THEN RootInode ELSE Descend(s[l - 1], p[l])
  BY <1>6
<1>9. DOMAIN s = 0..Len(p)
  BY <1>6
<1>. QED BY <1>0, <1>7, <1>8, <1>9


-----------------------------------------------------------------------------
(* Reads through extents *)

\* Multiplication keeps the order.
LEMMA ProductOrder ==
  ASSUME NEW a \in Nat, NEW b \in Nat, NEW n \in Nat, a <= b
  PROVE  a * n \in Nat /\ b * n \in Nat /\ a * n <= b * n
<1>1. PICK d \in Nat : b = a + d
  <2>1. b - a \in Nat /\ b = a + (b - a)
    OBVIOUS
  <2>. QED BY <2>1
<1>2. b * n = a * n + d * n
  BY <1>1
<1>3. a * n \in Nat /\ b * n \in Nat /\ d * n \in Nat
  OBVIOUS
<1>. QED BY <1>2, <1>3

\* An extent outside of the range changes nothing.
LEMMA FillElsewhere ==
  ASSUME NEW buf, NEW x \in Extent, NEW len \in Nat, NEW offset \in Nat, NEW size \in Nat,
         DOMAIN buf = 0..size - 1, offset + size <= len * block_size,
         len <= x.block \/ x.block + x.len <= 0
  PROVE  /\ DOMAIN Fill(buf, x, offset, size) = 0..size - 1
         /\ \A i \in 0..size - 1 : Fill(buf, x, offset, size)[i] = buf[i]
<1>. DEFINE from == x.block * block_size
            to == from + x.len * block_size
            start == IF from > offset THEN from ELSE offset
            end == IF to < offset + size THEN to ELSE offset + size
<1>1. block_size \in Nat \ {0} /\ x.block \in Nat /\ x.len \in Nat
  BY InodeAssumption DEF InodeAssumption, Extent
<1>2. from \in Nat /\ x.len * block_size \in Nat /\ to \in Nat /\ len * block_size \in Nat
  <2>1. x.block * block_size \in Nat
    BY <1>1
  <2>2. x.len * block_size \in Nat
    BY <1>1
  <2>3. len * block_size \in Nat
    BY <1>1
  <2>4. to \in Nat
    BY <2>1, <2>2
  <2>. QED BY <2>1, <2>2, <2>3, <2>4
<1>3. end - start <= 0
  <2>1. CASE len <= x.block
    <3>1. len * block_size <= from
      BY <1>1, <2>1, ProductOrder
    <3>. HIDE DEF from, to
    <3>. QED BY <1>2, <3>1
  <2>2. CASE x.block + x.len <= 0
    <3>1. x.block = 0 /\ x.len = 0
      BY <1>1, <2>2
    <3>2. from = 0 /\ to = 0
      BY <1>1, <3>1
    <3>. HIDE DEF from, to
    <3>. QED BY <3>2
  <2>. QED BY <2>1, <2>2
<1>4. Overlap(x, offset, size) = [start |-> start, end |-> end]
  BY DEF Overlap
<1>5. start \in Nat /\ end \in Nat
  <2>. HIDE DEF from, to
  <2>. QED BY <1>2
<1>. HIDE DEF start, end
<1>6. Fill(buf, x, offset, size) =
        [i \in DOMAIN buf |-> IF i < end - start THEN ReadFrom(x, start) + i ELSE buf[i]]
  BY <1>4 DEF Fill
<1>7. ASSUME NEW i \in 0..size - 1 PROVE ~(i < end - start)
  BY <1>3, <1>5
<1>. QED BY <1>6, <1>7

\* An extent that holds the range gives all its bytes.
LEMMA FillWhole ==
  ASSUME NEW buf, NEW e \in Extent, e.block = 0, NEW offset \in Nat, NEW size \in Nat,
         DOMAIN buf = 0..size - 1, offset + size <= e.len * block_size
  PROVE  /\ DOMAIN Fill(buf, e, offset, size) = 0..size - 1
         /\ \A i \in 0..size - 1 :
              Fill(buf, e, offset, size)[i] = (e.start * block_size) + offset + i
<1>. DEFINE from == e.block * block_size
            to == from + e.len * block_size
            start == IF from > offset THEN from ELSE offset
            end == IF to < offset + size THEN to ELSE offset + size
<1>1. block_size \in Nat \ {0} /\ e.len \in Nat /\ e.start \in Nat
  BY InodeAssumption DEF InodeAssumption, Extent
<1>2. from = 0 /\ e.len * block_size \in Nat /\ to = e.len * block_size
  BY <1>1
<1>3. start = offset /\ end = offset + size
  <2>. HIDE DEF from, to
  <2>. QED BY <1>2
<1>4. Overlap(e, offset, size) = [start |-> start, end |-> end]
  BY DEF Overlap
<1>. HIDE DEF start, end
<1>6. Fill(buf, e, offset, size) =
        [i \in DOMAIN buf |-> IF i < end - start THEN ReadFrom(e, start) + i ELSE buf[i]]
  BY <1>4 DEF Fill
<1>7. ASSUME NEW i \in 0..size - 1 PROVE i < end - start
  BY <1>3
<1>. QED BY <1>3, <1>6, <1>7 DEF ReadFrom

\* A range inside the first extent is read from it, whatever extents follow.
LEMMA RegionRead ==
  ASSUME NEW extents \in Seq(Extent), InOrder(extents), NEW m \in DOMAIN extents, extents[m].block = 0,
         NEW offset \in Nat, NEW size \in Nat, offset + size <= extents[m].len * block_size
  PROVE  /\ DOMAIN ReadRegion(extents, Unread(size), offset, size) = 0..size - 1
         /\ \A i \in 0..size - 1 :
              ReadRegion(extents, Unread(size), offset, size)[i]
                = (extents[m].start * block_size) + offset + i
<1>. DEFINE n == Len(extents)
            e == extents[m]
            B == Filled(extents, Unread(size), offset, size)
            Whole(b) == \A i \in 0..size - 1 : b[i] = (e.start * block_size) + offset + i
            S == {k \in Nat : k <= n => DOMAIN B[k] = 0..size - 1 /\ (k >= m => Whole(B[k]))}
<1>1. n \in Nat /\ m \in 1..n /\ e \in Extent
  OBVIOUS
<1>2. B[0] = Unread(size) /\ \A k \in 1..n : B[k] = Fill(B[k - 1], extents[k], offset, size)
  BY <1>1, FilledFacts
<1>. HIDE DEF n, B
<1>3. 0 \in S
  <2>1. DOMAIN B[0] = 0..size - 1
    BY <1>2 DEF Unread
  <2>. QED BY <1>1, <2>1
<1>4. ASSUME NEW k \in Nat, k \in S PROVE k + 1 \in S
  <2>. SUFFICES ASSUME k + 1 <= n
                PROVE  DOMAIN B[k + 1] = 0..size - 1 /\ (k + 1 >= m => Whole(B[k + 1]))
    OBVIOUS
  <2>. DEFINE x == extents[k + 1]
              b == B[k]
  <2>1. DOMAIN b = 0..size - 1 /\ (k >= m => Whole(b))
    BY <1>1, <1>4
  <2>2. B[k + 1] = Fill(b, x, offset, size)
    <3>1. k + 1 \in 1..n /\ (k + 1) - 1 = k
      BY <1>1
    <3>. QED BY <1>2, <3>1
  <2>3. x \in Extent
    BY <1>1 DEF n
  <2>4. CASE k + 1 = m
    <3>1. DOMAIN Fill(b, e, offset, size) = 0..size - 1 /\ Whole(Fill(b, e, offset, size))
      <4>. HIDE DEF b
      <4>. QED BY <1>1, <2>1, FillWhole
    <3>. QED BY <2>2, <2>4, <3>1
  <2>5. CASE k + 1 # m
    <3>1. e.len <= x.block \/ x.block + x.len <= 0
      <4>1. k + 1 \in DOMAIN extents /\ m \in DOMAIN extents
        BY <1>1 DEF n
      <4>2. e.block = 0 /\ e.len \in Nat
        BY <1>1 DEF Extent
      <4>3. CASE k + 1 < m
        <5>1. x.block + x.len <= e.block
          BY <4>1, <4>3 DEF InOrder
        <5>. QED BY <4>2, <5>1
      <4>4. CASE m < k + 1
        <5>1. e.block + e.len <= x.block
          BY <4>1, <4>4 DEF InOrder
        <5>. QED BY <4>2, <5>1
      <4>. QED BY <1>1, <2>5, <4>3, <4>4
    <3>2. e.len \in Nat
      BY <1>1 DEF Extent
    <3>3. /\ DOMAIN Fill(b, x, offset, size) = 0..size - 1
          /\ \A i \in 0..size - 1 : Fill(b, x, offset, size)[i] = b[i]
      <4>. HIDE DEF b, x, e
      <4>. QED BY <2>1, <2>3, <3>1, <3>2, FillElsewhere DEF e
    <3>4. k + 1 >= m => k >= m
      BY <1>1, <2>5
    <3>. HIDE DEF b, x
    <3>. QED BY <2>1, <2>2, <3>3, <3>4
  <2>. QED BY <2>4, <2>5
<1>5. n \in S
  <2>1. Nat \subseteq S
    <3>. HIDE DEF S
    <3>. QED BY <1>3, <1>4, SetInduction
  <2>. QED BY <1>1, <2>1
<1>6. DOMAIN B[n] = 0..size - 1 /\ Whole(B[n])
  BY <1>1, <1>5
<1>7. ReadRegion(extents, Unread(size), offset, size) = B[n]
  BY DEF ReadRegion, B, n
<1>. QED BY <1>6, <1>7

-----------------------------------------------------------------------------
(* The bytes of a file *)

ScanStages == {"mbr", "header", "entry", "super", "groups"}

\* What a walk finds is an inode, and a buffer holds a block of entries or junk.
Found ==
  /\ stage \in {"inode", "directory"} => number \in DOMAIN Inodes
  /\ node \in Range(Inodes) \cup {Blank}
  /\ page \in DOMAIN Content \cup {NoPage}
  /\ file.node \in Range(Inodes) \cup {Blank}
  /\ block \in Nat

\* The scan leaves what open and read work on alone.
LEMMA ScanLeaves ==
  ASSUME NEW o, ReadMbr(o) \/ ReadHeader(o) \/ ReadEntry(o) \/ ReadSuper(o) \/ ReadGroups(o)
  PROVE  /\ stage \in ScanStages /\ stage' \in ScanStages \cup {"ready", "undefined"}
         /\ walk' = walk
<1>1. CASE ReadMbr(o)
  BY <1>1 DEF ReadMbr, NextDrive, ScanStages
<1>2. CASE ReadHeader(o)
  BY <1>2 DEF ReadHeader, NextDrive, ScanStages
<1>3. CASE ReadEntry(o)
  <2>1. stage = "entry" /\ walk' = walk
    BY <1>3 DEF ReadEntry
  <2>2. CASE o = "failed"
    BY <1>3, <2>1, <2>2 DEF ReadEntry, ScanStages
  <2>3. CASE o # "failed" /\ slot'.type = "ext4"
    BY <1>3, <2>1, <2>3 DEF ReadEntry, ScanStages
  <2>4. CASE o # "failed" /\ slot'.type # "ext4"
    BY <1>3, <2>1, <2>4 DEF ReadEntry, NextEntry, NextDrive, ScanStages
  <2>. QED BY <2>2, <2>3, <2>4
<1>4. CASE ReadSuper(o)
  BY <1>4 DEF ReadSuper, NextEntry, NextDrive, ScanStages
<1>5. CASE ReadGroups(o)
  BY <1>5 DEF ReadGroups, NextEntry, NextDrive, ScanStages
<1>. QED BY <1>1, <1>2, <1>3, <1>4, <1>5

\* A directory's buffer after a read.
LEMMA PageFacts ==
  ASSUME Found, NEW o \in Outcomes, NEW b \in PageRead(o)
  PROVE  b \in DOMAIN Content \cup {NoPage}
<1>. DEFINE got == ReadRegion(node.extents, Unread(block_size), block * block_size, block_size)[0]
<1>1. CASE o = "done" /\ got # Stale
  BY <1>1 DEF PageRead
<1>2. CASE (o # "done" \/ got = Stale) /\ block = 0
  BY <1>2 DEF PageRead, Found
<1>3. CASE (o # "done" \/ got = Stale) /\ block > 0
  BY <1>3 DEF PageRead, Found
<1>4. block = 0 \/ block > 0
  BY DEF Found
<1>. HIDE DEF got
<1>. QED BY <1>1, <1>2, <1>3, <1>4

\* What a name leads to is an inode.
LEMMA MatchFacts ==
  ASSUME NEW b \in DOMAIN Content, NEW i \in Matches(b)
  PROVE  Content[b][i].inode \in DOMAIN Inodes /\ Content[b][i].name = rest[1]
         /\ Content[b][i] \in Range(Content[b]) /\ Content[b][i].inode # 0
<1>1. i \in DOMAIN Content[b] /\ Content[b][i].inode # 0 /\ Content[b][i].name = rest[1]
  BY DEF Matches
<1>2. Content[b][i] \in Range(Content[b])
  BY <1>1 DEF Range
<1>. QED BY <1>1, <1>2, DirectoryAssumption DEF DirectoryAssumption

\* Before the first open nothing is found, and nothing wrong.
LEMMA FoundStart == FileInit => Found
<1>. SUFFICES ASSUME FileInit PROVE Found
  OBVIOUS
<1>1. stage \in {"ready", "mbr"} /\ node = Blank /\ page = NoPage /\ file = NoFile /\ block = 0
  BY DEF FileInit
<1>. QED BY <1>1 DEF Found, NoFile

\* No step finds what is no inode, and none puts more than blocks in the buffer.
LEMMA FoundStep == Found /\ [FileNext]_fileVars => Found'
<1>. SUFFICES ASSUME Found, [FileNext]_fileVars PROVE Found'
  OBVIOUS
<1>1. CASE UNCHANGED fileVars
  BY <1>1 DEF fileVars, walk, Found
<1>2. ASSUME NEW o \in Outcomes,
             ReadMbr(o) \/ ReadHeader(o) \/ ReadEntry(o) \/ ReadSuper(o) \/ ReadGroups(o)
      PROVE  Found'
  <2>1. stage' \notin {"inode", "directory"} /\ walk' = walk
    BY <1>2, ScanLeaves DEF ScanStages
  <2>. QED BY <2>1 DEF walk, Found
<1>3. ASSUME NEW o \in Outcomes, GetInode(o) PROVE Found'
  <2>1. stage = "inode" /\ number \in DOMAIN Inodes /\ number' = number /\ page' = page
    BY <1>3 DEF GetInode, Found
  <2>2. node' \in Range(Inodes) \cup {Blank}
    <3>1. Inodes[number] \in Range(Inodes)
      BY <2>1 DEF Range
    <3>2. node' \in CASE o # "done" -> {Blank}
                     [] o = "done" /\ mounted[fs].groups -> {Inodes[number]}
                     [] o = "done" /\ ~mounted[fs].groups -> Range(Inodes) \cup {Blank}
      BY <1>3 DEF GetInode
    <3>3. CASE o # "done"
      BY <3>2, <3>3
    <3>4. CASE o = "done" /\ mounted[fs].groups
      BY <3>1, <3>2, <3>4
    <3>5. CASE o = "done" /\ ~mounted[fs].groups
      BY <3>2, <3>5
    <3>. QED BY <3>3, <3>4, <3>5
  <2>3. file'.node \in Range(Inodes) \cup {Blank} /\ block' \in Nat
    <3>0. (CASE rest = <<>> ->
                 stage' = "opened" /\ file' = [number |-> number, node |-> node'] /\ UNCHANGED block
            [] rest # <<>> /\ node'.mode = "directory" ->
                 stage' = "directory" /\ block' = 0 /\ UNCHANGED file
            [] rest # <<>> /\ node'.mode # "directory" ->
                 stage' = "opened" /\ file' = NoFile /\ UNCHANGED block)
      BY <1>3 DEF GetInode
    <3>1. CASE rest = <<>>
      <4>1. file' = [number |-> number, node |-> node'] /\ block' = block
        BY <3>0, <3>1
      <4>2. file'.node = node'
        BY <4>1
      <4>. QED BY <4>1, <4>2, <2>2 DEF Found
    <3>2. CASE rest # <<>> /\ node'.mode = "directory"
      BY <3>0, <3>2 DEF Found
    <3>3. CASE rest # <<>> /\ node'.mode # "directory"
      <4>1. file' = NoFile /\ block' = block
        BY <3>0, <3>3
      <4>2. file'.node = Blank
        BY <4>1 DEF NoFile
      <4>. QED BY <4>1, <4>2 DEF Found
    <3>. QED BY <3>1, <3>2, <3>3
  <2>. QED BY <2>1, <2>2, <2>3 DEF Found
<1>4. ASSUME NEW o \in Outcomes, ReadDirectory(o) PROVE Found'
  <2>1. stage = "directory" /\ number \in DOMAIN Inodes /\ node' = node /\ page' \in PageRead(o)
    BY <1>4 DEF ReadDirectory, Found
  <2>2. page' \in DOMAIN Content \cup {NoPage}
    BY <2>1, PageFacts
  <2>3. /\ number' \in DOMAIN Inodes /\ block' \in Nat
        /\ file'.node \in Range(Inodes) \cup {Blank}
    <3>1. CASE page' = NoPage
      BY <1>4, <2>1, <3>1 DEF ReadDirectory, Found
    <3>2. CASE page' # NoPage /\ Matches(page') # {}
      <4>1. PICK i \in Matches(page') : number' = Content[page'][i].inode
        BY <1>4, <3>2 DEF ReadDirectory
      <4>2. block' = block /\ file' = file
        BY <1>4, <3>2 DEF ReadDirectory
      <4>3. page' \in DOMAIN Content
        BY <2>2, <3>2
      <4>. QED BY <4>1, <4>2, <4>3, MatchFacts DEF Found
    <3>3. CASE page' # NoPage /\ Matches(page') = {} /\ MoreBlocks
      BY <1>4, <2>1, <3>3 DEF ReadDirectory, Found
    <3>4. CASE page' # NoPage /\ Matches(page') = {} /\ ~MoreBlocks
      BY <1>4, <2>1, <3>4 DEF ReadDirectory, Found, NoFile
    <3>. QED BY <3>1, <3>2, <3>3, <3>4
  <2>. QED BY <2>1, <2>2, <2>3 DEF Found
<1>5. ASSUME NEW m, NEW p, Open(m, p) PROVE Found'
  <2>1. RootInode \in DOMAIN Inodes
    BY InodeAssumption DEF InodeAssumption
  <2>. QED BY <1>5, <2>1 DEF Open, Found, NoFile
<1>6. CASE Panic
  BY <1>6 DEF Panic, walk, Found
<1>7. CASE Close
  BY <1>7 DEF Close, Forget, Found, NoFile
<1>8. ASSUME NEW o, NEW offset, NEW size, ReadFile(offset, size, o) PROVE Found'
  BY <1>8 DEF ReadFile, Found
<1>. QED BY <1>1, <1>2, <1>3, <1>4, <1>5, <1>6, <1>7, <1>8 DEF FileNext

\* A buffer keeps its length.
LEMMA RegionDomain ==
  ASSUME NEW extents, Len(extents) \in Nat, NEW offset, NEW size
  PROVE  DOMAIN ReadRegion(extents, Unread(size), offset, size) = 0..size - 1
<1>. DEFINE n == Len(extents)
            B == Filled(extents, Unread(size), offset, size)
            S == {k \in Nat : k <= n => DOMAIN B[k] = 0..size - 1}
<1>1. B[0] = Unread(size) /\ \A k \in 1..n : B[k] = Fill(B[k - 1], extents[k], offset, size)
  BY FilledFacts
<1>2. n \in Nat
  OBVIOUS
<1>. HIDE DEF n, B
<1>3. 0 \in S
  BY <1>1 DEF Unread
<1>4. ASSUME NEW k \in Nat, k \in S PROVE k + 1 \in S
  <2>. SUFFICES ASSUME k + 1 <= n PROVE DOMAIN B[k + 1] = 0..size - 1
    OBVIOUS
  <2>. DEFINE b == B[k]
              x == extents[k + 1]
  <2>1. DOMAIN b = 0..size - 1
    BY <1>2, <1>4
  <2>2. B[k + 1] = Fill(b, x, offset, size)
    <3>1. k + 1 \in 1..n /\ (k + 1) - 1 = k
      BY <1>2
    <3>. QED BY <1>1, <3>1
  <2>. HIDE DEF b, x
  <2>. QED BY <2>1, <2>2 DEF Fill
<1>5. n \in S
  <2>1. Nat \subseteq S
    <3>. HIDE DEF S
    <3>. QED BY <1>3, <1>4, SetInduction
  <2>. QED BY <1>2, <2>1
<1>. QED BY <1>2, <1>5 DEF ReadRegion, B, n

\* An inode has its extents in order.
LEMMA InodeFacts ==
  ASSUME NEW x \in Range(Inodes)
  PROVE  x.extents \in Seq(Extent) /\ InOrder(x.extents) /\ x.size \in Nat
<1>1. PICK n \in DOMAIN Inodes : x = Inodes[n]
  BY DEF Range
<1>. QED BY <1>1, InodeAssumption DEF InodeAssumption

\* Only a read of a file ends in one.
LEMMA OnlyReads ==
  ASSUME Found, FileNext, stage' = "read"
  PROVE  \E o \in Outcomes : \E offset \in 0..2 * block_size, size \in 1..2 * block_size : ReadFile(offset, size, o)
<1>1. ASSUME NEW o \in Outcomes,
             ReadMbr(o) \/ ReadHeader(o) \/ ReadEntry(o) \/ ReadSuper(o) \/ ReadGroups(o)
      PROVE  FALSE
  BY <1>1, ScanLeaves DEF ScanStages
<1>2. ASSUME NEW o \in Outcomes, GetInode(o) PROVE FALSE
  <2>1. (CASE rest = <<>> ->
                stage' = "opened" /\ file' = [number |-> number, node |-> node'] /\ UNCHANGED block
           [] rest # <<>> /\ node'.mode = "directory" ->
                stage' = "directory" /\ block' = 0 /\ UNCHANGED file
           [] rest # <<>> /\ node'.mode # "directory" ->
                stage' = "opened" /\ file' = NoFile /\ UNCHANGED block)
    BY <1>2 DEF GetInode
  <2>2. CASE rest = <<>>
    BY <2>1, <2>2
  <2>3. CASE rest # <<>> /\ node'.mode = "directory"
    BY <2>1, <2>3
  <2>4. CASE rest # <<>> /\ node'.mode # "directory"
    BY <2>1, <2>4
  <2>. QED BY <2>2, <2>3, <2>4
<1>3. ASSUME NEW o \in Outcomes, ReadDirectory(o) PROVE FALSE
  <2>1. CASE page' = NoPage
    BY <1>3, <2>1 DEF ReadDirectory
  <2>2. CASE page' # NoPage /\ Matches(page') # {}
    BY <1>3, <2>2 DEF ReadDirectory
  <2>3. CASE page' # NoPage /\ Matches(page') = {} /\ MoreBlocks
    BY <1>3, <2>3 DEF ReadDirectory
  <2>4. CASE page' # NoPage /\ Matches(page') = {} /\ ~MoreBlocks
    BY <1>3, <2>4 DEF ReadDirectory
  <2>. QED BY <2>1, <2>2, <2>3, <2>4
<1>4. ASSUME NEW m, NEW p, Open(m, p) PROVE FALSE
  BY <1>4 DEF Open
<1>5. ~Panic /\ ~Close
  BY DEF Panic, Close
<1>. QED BY <1>1, <1>2, <1>3, <1>4, <1>5 DEF FileNext

\* What a read of a file returns.
LEMMA ReadExactly ==
  ASSUME Found, NEW o \in Outcomes, NEW offset \in Nat, NEW size \in Nat, ReadFile(offset, size, o)
  PROVE  FileExact'
<1>. SUFFICES ASSUME hurt' = {}, NEW e \in Range(file'.node.extents), e.block = 0,
                     (buffer'.offset) + Cardinality(DOMAIN buffer'.bytes) <= e.len * block_size,
                     NEW i \in DOMAIN buffer'.bytes
              PROVE  buffer'.bytes[i] = (e.start * block_size) + (buffer'.offset) + i
  BY DEF FileExact
<1>1. o = "done"
  <2>1. hurt' = IF o = "done" THEN hurt ELSE hurt \cup {mounted[fs].drive}
    BY DEF ReadFile, Reads
  <2>. QED BY <2>1
<1>. DEFINE extents == file.node.extents
            bytes == ReadRegion(extents, Unread(size), offset, size)
<1>2. file' = file /\ buffer' = [offset |-> offset, bytes |-> bytes]
  BY <1>1 DEF ReadFile
<1>3. extents \in Seq(Extent) /\ InOrder(extents)
  <2>1. file.node # Blank
    <3>1. file.node.map = "flat"
      BY DEF ReadFile
    <3>. QED BY <3>1 DEF Blank
  <2>2. file.node \in Range(Inodes)
    BY <2>1 DEF Found
  <2>. QED BY <2>2, InodeFacts
<1>4. PICK m \in DOMAIN extents : extents[m] = e
  BY <1>2 DEF Range
<1>5. DOMAIN bytes = 0..size - 1
  <2>1. Len(extents) \in Nat
    BY <1>3
  <2>. HIDE DEF extents
  <2>. QED BY <2>1, RegionDomain
<1>6. Cardinality(0..size - 1) = size
  <2>1. Cardinality(0..size - 1) = IF 0 > size - 1 THEN 0 ELSE (size - 1) - 0 + 1
    BY FS_Interval
  <2>. QED BY <2>1
<1>. HIDE DEF extents, bytes
<1>7. buffer'.offset = offset /\ buffer'.bytes = bytes
  BY <1>2
<1>8. offset + size <= extents[m].len * block_size /\ extents[m].block = 0 /\ i \in 0..size - 1
  BY <1>4, <1>5, <1>6, <1>7
<1>9. bytes[i] = (extents[m].start * block_size) + offset + i
  BY <1>3, <1>8, RegionRead DEF bytes
<1>. QED BY <1>4, <1>7, <1>9

\* A read inside the first extent of a file returns the bytes of the range, for
\* every map of the inodes, every directory and every file.
THEOREM FileRead == FileSpec => []FileExact
<1>1. FileInit => Found /\ FileExact
  <2>1. FileInit => stage # "read"
    BY DEF FileInit
  <2>. QED BY <2>1, FoundStart DEF FileExact
<1>2. Found /\ FileExact /\ [FileNext]_fileVars => (Found /\ FileExact)'
  <2>. SUFFICES ASSUME Found, FileExact, [FileNext]_fileVars PROVE FileExact'
    BY FoundStep
  <2>1. CASE UNCHANGED fileVars
    BY <2>1 DEF fileVars, walk, FileExact
  <2>2. CASE FileNext /\ stage' # "read"
    BY <2>2 DEF FileExact
  <2>3. CASE FileNext /\ stage' = "read"
    <3>1. PICK o \in Outcomes : \E offset \in 0..2 * block_size, size \in 1..2 * block_size :
                                  ReadFile(offset, size, o)
      BY <2>3, OnlyReads
    <3>2. PICK offset \in 0..2 * block_size, size \in 1..2 * block_size : ReadFile(offset, size, o)
      BY <3>1
    <3>3. offset \in Nat /\ size \in Nat
      BY InodeAssumption DEF InodeAssumption
    <3>. QED BY <3>2, <3>3, ReadExactly
  <2>. QED BY <2>1, <2>2, <2>3
<1>. QED BY <1>1, <1>2, PTL DEF FileSpec

-----------------------------------------------------------------------------
(* The way to a file *)

\* The directories on the way to a file lie in one extent each.
Smooth == \A n \in Range(Way(path)) \ {0} : Inodes[n].mode = "directory" => Plain(Inodes[n])

\* What OpenExact asks of a walk.
Fair == hurt = {} /\ mounted[fs].groups /\ Smooth

\* k names of the path are behind, and led to the inode.
Behind(k) ==
  /\ Len(rest) = Len(path) - k
  /\ \A i \in 1..Len(rest) : rest[i] = path[k + i]
  /\ number = Way(path)[k]

\* An entry for the next name in a block of a directory.
Answers(b) == \E x \in Range(Content[b]) : x.name = rest[1] /\ x.inode # 0

\* The blocks of the directory that were read have no such entry.
Searched ==
  /\ node = Inodes[number] /\ node.mode = "directory" /\ block < node.size
  /\ \A b \in 0..block - 1 : \A e \in Extents(node, b) : ~Answers(e.start + b - e.block)

Walked ==
  stage \in {"inode", "directory"} =>
    /\ path \in Seq(Range(path)) /\ rest \in Seq(Range(path))
    /\ stage = "directory" => rest # <<>>
    /\ Fair => \E k \in 0..Len(path) : Behind(k)
    /\ Fair /\ stage = "directory" => Searched

\* From nowhere no name leads anywhere.
LEMMA WayLost ==
  ASSUME NEW p, Len(p) \in Nat, NEW k \in 0..Len(p), Way(p)[k] = 0
  PROVE  Resolve(p) = 0
<1>. DEFINE W == Way(p)
            S == {j \in Nat : k + j <= Len(p) => W[k + j] = 0}
<1>1. \A l \in 1..Len(p) : W[l] = Descend(W[l - 1], p[l])
  BY WayFacts
<1>. HIDE DEF W
<1>2. 0 \in S
  <2>1. W[k] = 0 /\ k + 0 = k
    BY DEF W
  <2>. QED BY <2>1
<1>3. ASSUME NEW j \in Nat, j \in S PROVE j + 1 \in S
  <2>. SUFFICES ASSUME k + (j + 1) <= Len(p) PROVE W[k + (j + 1)] = 0
    OBVIOUS
  <2>1. k + (j + 1) \in 1..Len(p) /\ (k + (j + 1)) - 1 = k + j /\ k + j <= Len(p)
    OBVIOUS
  <2>2. W[k + j] = 0
    BY <1>3, <2>1
  <2>3. W[k + (j + 1)] = Descend(0, p[k + (j + 1)])
    BY <1>1, <2>1, <2>2
  <2>4. \A name : Descend(0, name) = 0
    BY DEF Descend
  <2>. QED BY <2>3, <2>4
<1>4. Nat \subseteq S
  <2>. HIDE DEF S
  <2>. QED BY <1>2, <1>3, SetInduction
<1>5. Len(p) - k \in Nat /\ k + (Len(p) - k) = Len(p)
  OBVIOUS
<1>6. Len(p) - k \in S
  BY <1>4, <1>5
<1>7. W[Len(p)] = 0
  BY <1>5, <1>6
<1>. QED BY <1>7 DEF Resolve, W

\* A name leads on to the inode of any entry with it.
LEMMA DescendFound ==
  ASSUME NEW n \in DOMAIN Inodes, Inodes[n].mode = "directory", NEW x \in Entries(Inodes[n]), x.inode # 0
  PROVE  Descend(n, x.name) = x.inode
<1>. DEFINE name == x.name
            found == {e \in Entries(Inodes[n]) : e.name = name /\ e.inode # 0}
<1>1. n # 0
  BY InodeAssumption DEF InodeAssumption
<1>2. x \in found
  OBVIOUS
<1>3. (CHOOSE e \in found : TRUE) \in found
  BY <1>2
<1>4. \A e \in found : e.inode = x.inode
  <2>. SUFFICES ASSUME NEW e \in found PROVE e.inode = x.inode
    OBVIOUS
  <2>1. \A y, z \in Entries(Inodes[n]) :
          y.name = z.name /\ y.inode # 0 /\ z.inode # 0 => y.inode = z.inode
    BY DirectoryAssumption DEF DirectoryAssumption
  <2>2. e \in Entries(Inodes[n]) /\ e.name = x.name /\ e.inode # 0
    OBVIOUS
  <2>. QED BY <2>1, <2>2
<1>5. Descend(n, name) = IF found = {} THEN 0 ELSE (CHOOSE e \in found : TRUE).inode
  BY <1>1 DEF Descend
<1>. HIDE DEF found
<1>. QED BY <1>2, <1>3, <1>4, <1>5

\* Where a name leads nowhere.
LEMMA DescendLost ==
  ASSUME NEW n, NEW name,
         Inodes[n].mode = "directory" => \A x \in Entries(Inodes[n]) : ~(x.name = name /\ x.inode # 0)
  PROVE  Descend(n, name) = 0
<1>1. CASE Inodes[n].mode = "directory"
  <2>1. {e \in Entries(Inodes[n]) : e.name = name /\ e.inode # 0} = {}
    BY <1>1
  <2>. QED BY <2>1 DEF Descend
<1>2. CASE Inodes[n].mode # "directory"
  BY <1>2 DEF Descend
<1>. QED BY <1>1, <1>2

\* A directory in one extent: a block of it is read from where it is.
LEMMA PlainPage ==
  ASSUME NEW n \in DOMAIN Inodes, node = Inodes[n], node.mode = "directory", node.map = "flat",
         Plain(node), block \in Nat, block < node.size
  PROVE  \E e \in Extents(node, block) :
           /\ Extents(node, block) = {e}
           /\ e.start + block - e.block \in Nat \cap DOMAIN Content
           /\ PageRead("done") = {e.start + block - e.block}
<1>1. /\ node.extents \in Seq(Extent) /\ InOrder(node.extents) /\ node.size \in Nat
      /\ block_size \in Nat \ {0}
  BY InodeAssumption DEF InodeAssumption
<1>2. /\ Extents(node, block) # {}
      /\ \A e \in Extents(node, block) : e.start + block - e.block \in DOMAIN Content
  <2>1. block \in 0..node.size - 1
    BY <1>1
  <2>2. \A i \in 0..node.size - 1 :
          /\ Extents(node, i) # {}
          /\ \A e \in Extents(node, i) : e.start + i - e.block \in DOMAIN Content
    BY DirectoryAssumption DEF DirectoryAssumption
  <2>. QED BY <2>1, <2>2
<1>3. PICK e \in Extents(node, block) : TRUE
  BY <1>2
<1>4. PICK m \in DOMAIN node.extents : node.extents[m] = e
  BY <1>3 DEF Extents, Range
<1>. DEFINE xs == node.extents
<1>0. \A j \in DOMAIN xs : xs[j] \in Extent
  <2>1. xs \in Seq(Extent)
    BY <1>1
  <2>. HIDE DEF xs
  <2>. QED BY <2>1
<1>5. e \in Extent /\ e.block \in Nat /\ e.len \in Nat /\ e.start \in Nat
  <2>1. e \in Extent
    BY <1>0, <1>4
  <2>. QED BY <2>1 DEF Extent
<1>6. e.block = 0
  BY <1>3 DEF Plain, Extents
<1>7. block < e.len
  <2>1. block \in e.block..e.block + e.len - 1
    BY <1>3 DEF Extents
  <2>. QED BY <1>5, <1>6, <2>1
<1>8. ASSUME NEW x \in Extents(node, block) PROVE x = e
  <2>1. PICK j \in DOMAIN node.extents : node.extents[j] = x
    BY DEF Extents, Range
  <2>2. x.block \in Nat /\ x.len \in Nat /\ x.block = 0
    <3>1. x \in Extent
      BY <1>0, <2>1
    <3>2. x \in Range(node.extents)
      BY DEF Extents
    <3>. QED BY <3>1, <3>2 DEF Extent, Plain
  <2>3. block < x.len
    <3>1. block \in x.block..x.block + x.len - 1
      BY DEF Extents
    <3>. QED BY <2>2, <3>1
  <2>4. ~(j < m)
    <3>1. j < m => x.block + x.len <= e.block
      BY <1>1, <1>4, <2>1 DEF InOrder
    <3>. QED BY <1>6, <2>2, <2>3, <3>1
  <2>5. ~(m < j)
    <3>1. m < j => e.block + e.len <= x.block
      BY <1>1, <1>4, <2>1 DEF InOrder
    <3>. QED BY <1>5, <1>6, <1>7, <2>2, <3>1
  <2>6. j = m
    <3>1. j \in Nat /\ m \in Nat
      BY <1>1
    <3>. QED BY <2>4, <2>5, <3>1
  <2>. QED BY <1>4, <2>1, <2>6
<1>9. Extents(node, block) = {e}
  BY <1>3, <1>8
<1>. DEFINE got == ReadRegion(node.extents, Unread(block_size), block * block_size, block_size)[0]
            at == e.start + block
<1>10. got = at * block_size
  <2>1. block * block_size \in Nat /\ (block * block_size) + block_size = (block + 1) * block_size
    BY <1>1
  <2>2. (block + 1) * block_size <= e.len * block_size
    <3>1. block + 1 \in Nat /\ block + 1 <= e.len
      BY <1>1, <1>5, <1>7
    <3>. QED BY <1>1, <1>5, <3>1, ProductOrder
  <2>. DEFINE offset == block * block_size
  <2>3. offset \in Nat /\ offset + block_size <= node.extents[m].len * block_size /\ node.extents[m].block = 0
    BY <1>4, <1>6, <2>1, <2>2
  <2>. HIDE DEF offset
  <2>4. \A i \in 0..block_size - 1 :
          ReadRegion(node.extents, Unread(block_size), offset, block_size)[i]
            = (node.extents[m].start * block_size) + offset + i
    BY <1>1, <2>3, RegionRead
  <2>5. got = (e.start * block_size) + offset + 0
    <3>1. 0 \in 0..block_size - 1
      BY <1>1
    <3>. QED BY <1>4, <2>4, <3>1 DEF offset
  <2>6. (e.start * block_size) + (block * block_size) = at * block_size
    BY <1>1, <1>5
  <2>7. (e.start * block_size) \in Nat /\ (block * block_size) \in Nat
    BY <1>1, <1>5
  <2>. HIDE DEF got, at
  <2>. QED BY <2>5, <2>6, <2>7 DEF offset
<1>11. at \in Nat /\ at * block_size \in Nat /\ at = e.start + block - e.block
  <2>1. at \in Nat /\ at = e.start + block - e.block
    BY <1>5, <1>6
  <2>. HIDE DEF at
  <2>2. at * block_size \in Nat
    BY <1>1, <2>1
  <2>. QED BY <2>1, <2>2
<1>12. got # Stale /\ got \div block_size = at
  <2>1. at * block_size = (at * block_size) + 0 /\ 0 \in 0..block_size - 1
    BY <1>1, <1>11
  <2>2. (at * block_size) \div block_size = at
    <3>. HIDE DEF at
    <3>1. at * block_size \in Nat /\ at \in Nat
      BY <1>11
    <3>. DEFINE a == at * block_size
    <3>2. a \in Nat /\ a = (at * block_size) + 0
      BY <2>1, <3>1
    <3>. HIDE DEF a
    <3>3. a \div block_size = at
      BY <1>1, <2>1, <3>1, <3>2, DivisionUnique
    <3>. QED BY <3>3 DEF a
  <2>3. got # Stale
    <3>. HIDE DEF got, at
    <3>. QED BY <1>10, <1>11 DEF Stale
  <2>. QED BY <1>10, <2>2, <2>3
<1>13. at \in DOMAIN Content
  BY <1>2, <1>3, <1>11
<1>14. PageRead("done") = {at}
  <2>. HIDE DEF at
  <2>1. PageRead("done") = (CASE "done" = "done" /\ got # Stale ->
            {IF got \div block_size \in DOMAIN Content THEN got \div block_size ELSE NoPage}
       [] ("done" # "done" \/ got = Stale) /\ block = 0 -> {page, NoPage}
       [] ("done" # "done" \/ got = Stale) /\ block > 0 -> {page})
    BY DEF PageRead
  <2>. HIDE DEF got
  <2>. QED BY <1>12, <1>13, <2>1
<1>. QED BY <1>9, <1>11, <1>13, <1>14

\* A step of a walk is fair only if the walk was, and its read is done.
LEMMA FairBefore ==
  ASSUME NEW o, GetInode(o) \/ ReadDirectory(o), Fair'
  PROVE  Fair /\ o = "done"
<1>1. hurt' = {} /\ mounted[fs]'.groups /\ Smooth'
  BY DEF Fair
<1>2. path' = path /\ mounted' = mounted /\ fs' = fs /\ Reads(mounted[fs].drive, o)
  BY DEF GetInode, ReadDirectory, scan
<1>3. hurt' = IF o = "done" THEN hurt ELSE hurt \cup {mounted[fs].drive}
  BY <1>2 DEF Reads
<1>4. hurt = {} /\ o = "done"
  BY <1>1, <1>3
<1>5. Smooth
  BY <1>1, <1>2 DEF Smooth
<1>. QED BY <1>1, <1>2, <1>4, <1>5 DEF Fair

\* What get_inode of open does to the walk.
LEMMA WalkedGet ==
  ASSUME Found, Walked, NEW o, GetInode(o)
  PROVE  Walked' /\ OpenExact'
<1>1. /\ stage = "inode" /\ number \in DOMAIN Inodes
      /\ path' = path /\ rest' = rest /\ number' = number
  BY DEF GetInode, Found
<1>2. path \in Seq(Range(path)) /\ rest \in Seq(Range(path))
  BY <1>1 DEF Walked
<1>3. (CASE rest = <<>> ->
              stage' = "opened" /\ file' = [number |-> number, node |-> node'] /\ UNCHANGED block
         [] rest # <<>> /\ node'.mode = "directory" ->
              stage' = "directory" /\ block' = 0 /\ UNCHANGED file
         [] rest # <<>> /\ node'.mode # "directory" ->
              stage' = "opened" /\ file' = NoFile /\ UNCHANGED block)
  BY DEF GetInode
<1>4. ASSUME Fair'
      PROVE  node' = Inodes[number] /\ \E k \in 0..Len(path) : Behind(k)
  <2>1. Fair /\ o = "done"
    BY <1>4, FairBefore
  <2>2. node' \in CASE o # "done" -> {Blank}
                    [] o = "done" /\ mounted[fs].groups -> {Inodes[number]}
                    [] o = "done" /\ ~mounted[fs].groups -> Range(Inodes) \cup {Blank}
    BY DEF GetInode
  <2>3. mounted[fs].groups
    BY <2>1 DEF Fair
  <2>4. node' = Inodes[number]
    BY <2>1, <2>2, <2>3
  <2>. QED BY <1>1, <2>1, <2>4 DEF Walked
<1>5. ASSUME NEW k \in 0..Len(path), Behind(k) PROVE Behind(k)'
  BY <1>1, <1>5 DEF Behind
<1>6. CASE rest = <<>>
  <2>1. stage' = "opened" /\ file'.number = number
    BY <1>3, <1>6
  <2>2. Walked'
    BY <2>1 DEF Walked
  <2>3. ASSUME Fair' PROVE file'.number = Resolve(path)
    <3>1. PICK k \in 0..Len(path) : Behind(k)
      BY <1>4, <2>3
    <3>2. k = Len(path)
      BY <1>2, <1>6, <3>1 DEF Behind
    <3>. QED BY <2>1, <3>1, <3>2 DEF Behind, Resolve
  <2>. QED BY <1>1, <2>2, <2>3 DEF OpenExact, Fair, Smooth
<1>7. CASE rest # <<>> /\ node'.mode = "directory"
  <2>1. stage' = "directory" /\ block' = 0
    BY <1>3, <1>7
  <2>2. OpenExact'
    BY <2>1 DEF OpenExact
  <2>3. ASSUME Fair' PROVE Searched'
    <3>1. node' = Inodes[number]
      BY <1>4, <2>3
    <3>2. 0 < node'.size
      BY <1>1, <1>7, <3>1, DirectoryAssumption DEF DirectoryAssumption
    <3>3. 0..block' - 1 = {}
      BY <2>1
    <3>. QED BY <1>1, <1>7, <2>1, <3>1, <3>2, <3>3 DEF Searched
  <2>4. Fair' => \E k \in 0..Len(path) : Behind(k)'
    BY <1>4, <1>5
  <2>5. (path \in Seq(Range(path)) /\ rest \in Seq(Range(path)) /\ rest # <<>>)'
    BY <1>1, <1>2, <1>7
  <2>6. Fair' => (\E k \in 0..Len(path) : Behind(k))'
    BY <1>1, <2>4
  <2>. QED BY <2>2, <2>3, <2>5, <2>6 DEF Walked
<1>8. CASE rest # <<>> /\ node'.mode # "directory"
  <2>1. stage' = "opened" /\ file' = NoFile
    BY <1>3, <1>8
  <2>2. Walked'
    BY <2>1 DEF Walked
  <2>3. file'.number = 0
    BY <2>1 DEF NoFile
  <2>4. ASSUME Fair' PROVE Resolve(path) = 0
    <3>1. PICK k \in 0..Len(path) : Behind(k)
      BY <1>4, <2>4
    <3>2. node' = Inodes[number]
      BY <1>4, <2>4
    <3>3. Len(path) \in Nat /\ k + 1 \in 1..Len(path) /\ (k + 1) - 1 = k /\ k + 1 \in 0..Len(path)
      <4>1. Len(path) \in Nat /\ Len(rest) \in Nat /\ Len(rest) # 0
        BY <1>2, <1>8
      <4>. QED BY <3>1, <4>1 DEF Behind
    <3>4. Way(path)[k + 1] = Descend(number, path[k + 1])
      BY <3>1, <3>3, WayFacts DEF Behind
    <3>5. Descend(number, path[k + 1]) = 0
      BY <1>8, <3>2, DescendLost
    <3>. QED BY <3>3, <3>4, <3>5, WayLost
  <2>. QED BY <1>1, <2>2, <2>3, <2>4 DEF OpenExact, Fair, Smooth
<1>. QED BY <1>6, <1>7, <1>8

\* What a read of a directory of open does to the walk.
LEMMA WalkedRead ==
  ASSUME Found, Walked, NEW o, ReadDirectory(o)
  PROVE  Walked' /\ OpenExact'
<1>1. /\ stage = "directory" /\ number \in DOMAIN Inodes /\ node.map = "flat" /\ block \in Nat
      /\ path' = path /\ node' = node /\ block < node.size
  BY DEF ReadDirectory, Found
<1>2. path \in Seq(Range(path)) /\ rest \in Seq(Range(path)) /\ rest # <<>>
  BY <1>1 DEF Walked
<1>3. ASSUME Fair'
      PROVE  /\ Fair /\ Searched
             /\ \E k \in 0..Len(path) : Behind(k)
             /\ \E e \in Extents(node, block) :
                  /\ Extents(node, block) = {e}
                  /\ e.start + block - e.block \in Nat \cap DOMAIN Content
                  /\ page' = e.start + block - e.block
  <2>1. Fair /\ o = "done"
    BY <1>3, FairBefore
  <2>2. Searched /\ \E k \in 0..Len(path) : Behind(k)
    BY <1>1, <2>1 DEF Walked
  <2>3. node = Inodes[number] /\ node.mode = "directory"
    BY <2>2 DEF Searched
  <2>4. Plain(node)
    <3>1. PICK k \in 0..Len(path) : Behind(k)
      BY <2>2
    <3>2. Len(path) \in Nat
      BY <1>2
    <3>3. number = Way(path)[k] /\ k \in DOMAIN Way(path)
      BY <3>1, <3>2, WayFacts DEF Behind
    <3>4. number \in Range(Way(path)) \ {0}
      BY <1>1, <3>3, InodeAssumption DEF InodeAssumption, Range
    <3>. QED BY <2>1, <2>3, <3>4 DEF Fair, Smooth
  <2>5. PICK e \in Extents(node, block) :
          /\ Extents(node, block) = {e}
          /\ e.start + block - e.block \in Nat \cap DOMAIN Content
          /\ PageRead("done") = {e.start + block - e.block}
    BY <1>1, <2>3, <2>4, PlainPage
  <2>6. page' \in PageRead("done")
    BY <2>1 DEF ReadDirectory
  <2>. QED BY <2>1, <2>2, <2>5, <2>6
<1>4. ASSUME Fair' PROVE page' # NoPage
  <2>1. page' \in Nat
    BY <1>3, <1>4
  <2>. QED BY <2>1 DEF NoPage
<1>5. ASSUME Fair', NEW x \in Range(Content[page']) PROVE x \in Entries(node)
  <2>1. PICK e \in Extents(node, block) : page' = e.start + block - e.block /\ page' \in DOMAIN Content
    BY <1>3, <1>5
  <2>2. block \in 0..node.size - 1
    <3>1. node \in Range(Inodes)
      BY <1>1 DEF Found, Blank
    <3>2. node.size \in Nat
      BY <3>1, InodeFacts
    <3>. QED BY <1>1, <3>2
  <2>3. x \in UNION {Range(Content[b]) : b \in DOMAIN Content}
    BY <1>5, <2>1
  <2>. QED BY <1>5, <2>1, <2>2, <2>3 DEF Entries
<1>6. ASSUME NEW k \in 0..Len(path), Behind(k), rest # <<>>
      PROVE  /\ Len(path) \in Nat /\ k + 1 \in 1..Len(path) /\ k + 1 \in 0..Len(path)
             /\ Way(path)[k + 1] = Descend(number, rest[1])
  <2>1. Len(path) \in Nat /\ Len(rest) \in Nat /\ Len(rest) # 0
    BY <1>2, <1>6
  <2>2. k + 1 \in 1..Len(path) /\ (k + 1) - 1 = k /\ k + 1 \in 0..Len(path) /\ 1 \in 1..Len(rest)
    BY <1>6, <2>1 DEF Behind
  <2>3. rest[1] = path[k + 1]
    BY <1>6, <2>2 DEF Behind
  <2>4. Way(path)[k + 1] = Descend(number, path[k + 1])
    BY <1>6, <2>1, <2>2, WayFacts DEF Behind
  <2>. QED BY <2>1, <2>2, <2>3, <2>4
<1>7. CASE page' = NoPage
  <2>1. stage' = "undefined"
    BY <1>7 DEF ReadDirectory
  <2>. QED BY <2>1 DEF Walked, OpenExact
<1>8. CASE page' # NoPage /\ Matches(page') # {}
  <2>1. /\ \E i \in Matches(page') : number' = Content[page'][i].inode
        /\ rest' = Tail(rest) /\ stage' = "inode"
    BY <1>8 DEF ReadDirectory
  <2>2. PICK i \in Matches(page') : number' = Content[page'][i].inode
    BY <2>1
  <2>3. OpenExact'
    BY <2>1 DEF OpenExact
  <2>4. ASSUME Fair' PROVE \E k \in 0..Len(path) : Behind(k)'
    <3>1. Searched /\ rest # <<>> /\ node = Inodes[number] /\ node.mode = "directory"
      BY <1>2, <1>3, <2>4 DEF Searched
    <3>2. PICK k \in 0..Len(path) : Behind(k)
      BY <1>3, <2>4
    <3>. DEFINE x == Content[page'][i]
    <3>3. page' \in DOMAIN Content
      BY <1>3, <2>4
    <3>4. x.name = rest[1] /\ x \in Range(Content[page']) /\ x.inode # 0
      BY <3>3, MatchFacts
    <3>5. x \in Entries(node)
      BY <1>5, <2>4, <3>4
    <3>. HIDE DEF x
    <3>6. Descend(number, rest[1]) = x.inode
      BY <1>1, <3>1, <3>4, <3>5, DescendFound
    <3>7. Way(path)[k + 1] = number' /\ k + 1 \in 0..Len(path)
      BY <1>6, <2>2, <3>1, <3>2, <3>6 DEF x
    <3>8. Len(Tail(rest)) = Len(path) - (k + 1) /\ \A j \in 1..Len(Tail(rest)) : Tail(rest)[j] = path[(k + 1) + j]
      <4>1. Len(path) \in Nat /\ Len(rest) \in Nat /\ Len(rest) = Len(path) - k
        BY <1>2, <3>2 DEF Behind
      <4>2. Len(Tail(rest)) = Len(rest) - 1 /\ \A j \in 1..Len(rest) - 1 : Tail(rest)[j] = rest[j + 1]
        BY <1>2, <3>1
      <4>3. \A j \in 1..Len(rest) : rest[j] = path[k + j]
        BY <3>2 DEF Behind
      <4>4. \A j \in 1..Len(rest) - 1 : j + 1 \in 1..Len(rest) /\ k + (j + 1) = (k + 1) + j
        BY <4>1
      <4>. QED BY <4>1, <4>2, <4>3, <4>4
    <3>9. Behind(k + 1)'
      BY <1>1, <2>1, <3>7, <3>8 DEF Behind
    <3>. QED BY <3>7, <3>9
  <2>5. rest' \in Seq(Range(path))
    BY <1>2, <2>1
  <2>. QED BY <1>1, <1>2, <2>1, <2>3, <2>4, <2>5 DEF Walked
<1>9. CASE page' # NoPage /\ Matches(page') = {} /\ MoreBlocks
  <2>1. block' = block + 1 /\ stage' = stage /\ number' = number /\ rest' = rest
    BY <1>9 DEF ReadDirectory
  <2>2. OpenExact'
    BY <1>1, <2>1 DEF OpenExact
  <2>3. ASSUME NEW k \in 0..Len(path), Behind(k) PROVE Behind(k)'
    BY <1>1, <2>1, <2>3 DEF Behind
  <2>4. ASSUME Fair' PROVE Searched'
    <3>1. Searched
      BY <1>3, <2>4
    <3>2. PICK e \in Extents(node, block) : Extents(node, block) = {e} /\ page' = e.start + block - e.block
      BY <1>3, <2>4
    <3>3. ~Answers(page')
      BY <1>9 DEF Answers, Matches, Range
    <3>4. \A b \in 0..block : \A y \in Extents(node, b) : ~Answers(y.start + b - y.block)
      <4>1. \A b \in 0..block : b = block \/ b \in 0..block - 1
        BY <1>1
      <4>. QED BY <3>1, <3>2, <3>3, <4>1 DEF Searched
    <3>5. 0..block' - 1 = 0..block
      BY <1>1, <2>1
    <3>6. \A b : Answers(b)' <=> Answers(b)
      BY <2>1 DEF Answers
    <3>. QED BY <1>1, <1>9, <2>1, <3>1, <3>4, <3>5, <3>6 DEF Searched, MoreBlocks
  <2>. QED BY <1>1, <1>2, <1>3, <2>1, <2>2, <2>3, <2>4 DEF Walked
<1>10. CASE page' # NoPage /\ Matches(page') = {} /\ ~MoreBlocks
  <2>1. stage' = "opened" /\ file' = NoFile
    BY <1>10 DEF ReadDirectory
  <2>2. Walked'
    BY <2>1 DEF Walked
  <2>3. file'.number = 0
    BY <2>1 DEF NoFile
  <2>4. ASSUME Fair' PROVE Resolve(path) = 0
    <3>1. Searched /\ rest # <<>> /\ node = Inodes[number]
      BY <1>2, <1>3, <2>4 DEF Searched
    <3>2. PICK k \in 0..Len(path) : Behind(k)
      BY <1>3, <2>4
    <3>3. PICK e \in Extents(node, block) : Extents(node, block) = {e} /\ page' = e.start + block - e.block
      BY <1>3, <2>4
    <3>4. ~Answers(page')
      BY <1>10 DEF Answers, Matches, Range
    <3>5. ASSUME NEW x \in Entries(node) PROVE ~(x.name = rest[1] /\ x.inode # 0)
      <4>1. PICK b \in 0..node.size - 1 : \E y \in Extents(node, b) : x \in Range(Content[y.start + b - y.block])
        BY <3>5 DEF Entries
      <4>2. PICK y \in Extents(node, b) : x \in Range(Content[y.start + b - y.block])
        BY <4>1
      <4>3. node.size \in Nat
        BY <1>1, <3>1, InodeAssumption DEF InodeAssumption
      <4>4. b \in 0..block - 1 \/ b = block
        BY <1>1, <1>10, <4>3 DEF MoreBlocks
      <4>5. ~Answers(y.start + b - y.block)
        BY <3>1, <3>3, <3>4, <4>4 DEF Searched
      <4>. QED BY <4>2, <4>5 DEF Answers
    <3>6. Descend(number, rest[1]) = 0
      BY <3>1, <3>5, DescendLost
    <3>. QED BY <1>6, <3>1, <3>2, <3>6, WayLost
  <2>. QED BY <1>1, <2>2, <2>3, <2>4 DEF OpenExact, Fair, Smooth
<1>. QED BY <1>7, <1>8, <1>9, <1>10

\* Before the first open there is no walk, and no file.
LEMMA WalkedStart == FileInit => Walked /\ OpenExact
<1>. SUFFICES ASSUME FileInit PROVE Walked /\ OpenExact
  OBVIOUS
<1>1. stage \in {"ready", "mbr"}
  BY DEF FileInit
<1>. QED BY <1>1 DEF Walked, OpenExact

\* No step takes a walk off the way.
LEMMA WalkedStep ==
  Found /\ Walked /\ OpenExact /\ [FileNext]_fileVars => (Walked /\ OpenExact)'
<1>. SUFFICES ASSUME Found, Walked, OpenExact, [FileNext]_fileVars PROVE (Walked /\ OpenExact)'
  OBVIOUS
<1>1. CASE UNCHANGED fileVars
  <2>1. /\ stage' = stage /\ path' = path /\ rest' = rest /\ hurt' = hurt /\ mounted' = mounted /\ fs' = fs
        /\ number' = number /\ node' = node /\ block' = block /\ file' = file
    BY <1>1 DEF fileVars, scan, walk
  <2>2. Smooth' = Smooth
    BY <2>1 DEF Smooth
  <2>3. Fair' = Fair
    BY <2>1, <2>2 DEF Fair
  <2>4. \A k : Behind(k)' = Behind(k)
    BY <2>1 DEF Behind
  <2>5. \A b : Answers(b)' = Answers(b)
    BY <2>1 DEF Answers
  <2>6. Searched' = Searched
    BY <2>1, <2>5 DEF Searched
  <2>. QED BY <2>1, <2>2, <2>3, <2>4, <2>6 DEF Walked, OpenExact, Smooth
<1>2. ASSUME NEW o \in Outcomes,
             ReadMbr(o) \/ ReadHeader(o) \/ ReadEntry(o) \/ ReadSuper(o) \/ ReadGroups(o)
      PROVE  (Walked /\ OpenExact)'
  <2>1. stage' \notin {"inode", "directory", "opened"}
    BY <1>2, ScanLeaves DEF ScanStages
  <2>. QED BY <2>1 DEF Walked, OpenExact
<1>3. ASSUME NEW o \in Outcomes, GetInode(o) PROVE (Walked /\ OpenExact)'
  BY <1>3, WalkedGet
<1>4. ASSUME NEW o \in Outcomes, ReadDirectory(o) PROVE (Walked /\ OpenExact)'
  BY <1>4, WalkedRead
<1>5. ASSUME NEW m, NEW p \in Paths, Open(m, p) PROVE (Walked /\ OpenExact)'
  <2>1. path' = p /\ rest' = p /\ number' = RootInode /\ stage' = "inode"
    BY <1>5 DEF Open
  <2>2. p \in Seq(Range(p))
    BY InodeAssumption DEF InodeAssumption, IsList
  <2>3. Len(p) \in Nat /\ 0 \in 0..Len(p)
    BY <2>2
  <2>4. Way(p)[0] = RootInode
    BY <2>3, WayFacts
  <2>5. Behind(0)'
    BY <2>1, <2>3, <2>4 DEF Behind
  <2>. QED BY <2>1, <2>2, <2>3, <2>5 DEF Walked, OpenExact
<1>6. ASSUME NEW o, NEW offset, NEW size, ReadFile(offset, size, o) PROVE (Walked /\ OpenExact)'
  <2>1. stage' = "read"
    BY <1>6 DEF ReadFile
  <2>. QED BY <2>1 DEF Walked, OpenExact
<1>7. CASE Panic
  BY <1>7 DEF Panic, Walked, OpenExact
<1>8. CASE Close
  BY <1>8 DEF Close, Walked, OpenExact
<1>. QED BY <1>1, <1>2, <1>3, <1>4, <1>5, <1>6, <1>7, <1>8 DEF FileNext

\* Whatever the directories hold, open finds the file that a path names, and
\* none where the path names none.
THEOREM FileOpened == FileSpec => []OpenExact
<1>1. FileInit => Found /\ Walked /\ OpenExact
  BY FoundStart, WalkedStart
<1>2. Found /\ Walked /\ OpenExact /\ [FileNext]_fileVars => (Found /\ Walked /\ OpenExact)'
  BY FoundStep, WalkedStep
<1>. QED BY <1>1, <1>2, PTL DEF FileSpec

-----------------------------------------------------------------------------
(* The scan of the drives *)

EntryStages == {"entry", "super", "groups"}
WalkStages == {"inode", "directory", "opened", "read"}

\* The places of a drive in a list of mounts.
MountedOf(list, d) == MountsOf(list, d)[Len(list)]

\* Of the drives that were read, those before this one are done, and those
\* behind it not begun.
Scanning(list, bad, j) ==
  \A d \in DOMAIN drives \ bad : d # j => MountedOf(list, d) = (IF d < j THEN Expected(d) ELSE <<>>)

\* Every drive that was read is done.
Over(list, bad) == \A d \in DOMAIN drives \ bad : MountedOf(list, d) = Expected(d)

\* Where the scan is, and what it holds of its drive there.
Placed ==
  /\ drives \in Machines /\ \E T : mounted \in Seq(T)
  /\ stage \in ScanStages => drive \in DOMAIN drives
  /\ stage \in {"mbr", "header"} => entry = 1
  /\ stage = "header" /\ drive \notin hurt => drives[drive].mbr
  /\ stage \in EntryStages => /\ entry \in DOMAIN drives[drive].entries
                              /\ drive \notin hurt => drives[drive].mbr /\ drives[drive].gpt
  /\ stage \in {"super", "groups"} =>
       slot.type = "ext4" /\ (drive \notin hurt => slot = drives[drive].entries[entry])
  /\ stage = "groups" => GoodSuper(drive, slot.lba)
  /\ stage \in WalkStages => fs # 0

\* Every mount has a good superblock.
Goods == \A i \in DOMAIN mounted : GoodSuper(mounted[i].drive, mounted[i].lba)

\* Every mount of a drive that was read has its groups.
Grouped(list, bad) == \A i \in DOMAIN list : list[i].drive \notin bad => list[i].groups

\* What the scan has mounted so far.
Scanned ==
  fs = 0 =>
    /\ stage \in ScanStages =>
         /\ Scanning(mounted, hurt, drive)
         /\ drive \notin hurt =>
              MountedOf(mounted, drive) = (IF stage \in EntryStages THEN GoodPlaces(drive)[entry - 1] ELSE <<>>)
    /\ stage = "ready" => Over(mounted, hurt)
    /\ stage \in ScanStages \cup {"ready"} => Grouped(mounted, hurt)

\* The invariant of the scan is the property.
LEMMA ScanPromised == Goods /\ Scanned => ScanExact
<1>. SUFFICES ASSUME Goods, Scanned PROVE ScanExact
  OBVIOUS
<1>1. \A i \in DOMAIN mounted :
        LET super == drives[mounted[i].drive].super
        IN mounted[i].lba \in DOMAIN super /\ super[mounted[i].lba] = "good"
  BY DEF Goods, GoodSuper
<1>2. ASSUME stage = "ready", fs = 0
      PROVE  \A d \in DOMAIN drives \ hurt :
               /\ Mounts(d) = Expected(d)
               /\ \A i \in DOMAIN mounted : mounted[i].drive = d => mounted[i].groups
  BY <1>2 DEF Scanned, Over, Grouped, MountedOf, Mounts
<1>. QED BY <1>1, <1>2 DEF ScanExact

\* A mount more is a place more of its drive.
LEMMA MountedAppend ==
  ASSUME NEW T, NEW list \in Seq(T), NEW x, NEW d
  PROVE  MountedOf(Append(list, x), d) = IF x.drive = d THEN Append(MountedOf(list, d), x.lba) ELSE MountedOf(list, d)
<1>. DEFINE n == Len(list)
            more == Append(list, x)
            M == MountsOf(list, d)
            N == MountsOf(more, d)
            S == {k \in Nat : k <= n => N[k] = M[k]}
<1>1. n \in Nat /\ Len(more) = n + 1 /\ more[n + 1] = x /\ \A k \in 1..n : more[k] = list[k]
  <2>1. list \in Seq(T \cup {x})
    OBVIOUS
  <2>. QED BY <2>1
<1>. HIDE DEF more
<1>2. M[0] = <<>> /\ \A k \in 1..n : M[k] = IF list[k].drive = d THEN Append(M[k - 1], list[k].lba) ELSE M[k - 1]
  BY <1>1, MountsFacts
<1>3. N[0] = <<>> /\ \A k \in 1..n + 1 : N[k] = IF more[k].drive = d THEN Append(N[k - 1], more[k].lba) ELSE N[k - 1]
  <2>1. Len(more) \in Nat
    BY <1>1
  <2>2. /\ MountsOf(more, d)[0] = <<>>
        /\ \A l \in 1..Len(more) : MountsOf(more, d)[l] =
             (IF more[l].drive = d
              THEN Append(MountsOf(more, d)[l - 1], more[l].lba)
              ELSE MountsOf(more, d)[l - 1])
    BY <2>1, MountsFacts
  <2>. QED BY <1>1, <2>2
<1>. HIDE DEF M, N, n
<1>4. 0 \in S
  BY <1>2, <1>3
<1>5. ASSUME NEW k \in Nat, k \in S PROVE k + 1 \in S
  <2>. SUFFICES ASSUME k + 1 <= n PROVE N[k + 1] = M[k + 1]
    OBVIOUS
  <2>1. N[k] = M[k]
    BY <1>1, <1>5
  <2>2. k + 1 \in 1..n /\ k + 1 \in 1..n + 1 /\ (k + 1) - 1 = k
    BY <1>1
  <2>. QED BY <1>1, <1>2, <1>3, <2>1, <2>2
<1>6. N[n] = M[n]
  <2>1. Nat \subseteq S
    <3>. HIDE DEF S
    <3>. QED BY <1>4, <1>5, SetInduction
  <2>. QED BY <1>1, <2>1
<1>7. n + 1 \in 1..n + 1 /\ (n + 1) - 1 = n
  BY <1>1
<1>8. N[n + 1] = IF x.drive = d THEN Append(M[n], x.lba) ELSE M[n]
  BY <1>1, <1>3, <1>6, <1>7
<1>9. MountedOf(more, d) = N[n + 1] /\ MountedOf(list, d) = M[n]
  BY <1>1 DEF MountedOf, N, M, n
<1>. QED BY <1>8, <1>9 DEF more

\* A machine has drives, and a drive entries.
LEMMA DriveFacts ==
  ASSUME drives \in Machines
  PROVE  /\ Len(drives) \in Nat /\ DOMAIN drives = 1..Len(drives)
         /\ \A d \in DOMAIN drives : /\ Len(drives[d].entries) \in Nat
                                     /\ DOMAIN drives[d].entries = 1..Len(drives[d].entries)
                                     /\ Len(drives[d].entries) = 0 <=> drives[d].entries = <<>>
<1>1. drives \in Seq(Range(drives))
  BY DriveAssumption DEF DriveAssumption, IsList
<1>2. ASSUME NEW d \in DOMAIN drives
      PROVE  /\ Len(drives[d].entries) \in Nat
             /\ DOMAIN drives[d].entries = 1..Len(drives[d].entries)
             /\ Len(drives[d].entries) = 0 <=> drives[d].entries = <<>>
  <2>. DEFINE entries == drives[d].entries
  <2>1. entries \in Seq(Range(entries))
    BY DriveAssumption DEF DriveAssumption, IsList
  <2>. HIDE DEF entries
  <2>2. /\ Len(entries) \in Nat
        /\ DOMAIN entries = 1..Len(entries)
        /\ Len(entries) = 0 <=> entries = <<>>
    BY <2>1
  <2>. QED BY <2>2 DEF entries
<1>. QED BY <1>1, <1>2

\* Nobody writes to the drives.
LEMMA DrivesStay ==
  ASSUME drives' = drives
  PROVE  /\ \A d : Expected(d)' = Expected(d) /\ GoodPlaces(d)' = GoodPlaces(d)
         /\ \A d, l : GoodSuper(d, l)' = GoodSuper(d, l)
<1>1. \A d, e : IsGood(d, e)' = IsGood(d, e)
  BY DEF IsGood
<1>2. \A d : GoodPlaces(d)' = GoodPlaces(d)
  BY <1>1 DEF GoodPlaces
<1>. QED BY <1>2 DEF Expected, GoodSuper

\* The drive and the outcome of a read that is none the worse.
LEMMA ReadsFacts ==
  ASSUME NEW d, NEW o, Reads(d, o)
  PROVE  drives' = drives /\ hurt \subseteq hurt' /\ (d \notin hurt' => o = "done" /\ d \notin hurt)
BY DEF Reads

\* When a drive is done, the scan goes on to the next.
LEMMA AfterDrive ==
  ASSUME Placed, stage \in ScanStages, drives' = drives, fs' = fs, \E T : mounted' \in Seq(T), NextDrive,
         fs = 0 => /\ Scanning(mounted', hurt', drive) /\ Grouped(mounted', hurt')
                   /\ drive \notin hurt' => MountedOf(mounted', drive) = Expected(drive)
  PROVE  Placed' /\ Scanned'
<1>1. drives \in Machines /\ drive \in DOMAIN drives
  BY DEF Placed
<1>2. Len(drives) \in Nat /\ DOMAIN drives = 1..Len(drives)
  BY <1>1, DriveFacts
<1>3. CASE drive < Len(drives)
  <2>1. drive' = drive + 1 /\ entry' = 1 /\ stage' = "mbr"
    BY <1>3 DEF NextDrive
  <2>2. drive + 1 \in DOMAIN drives
    BY <1>1, <1>2, <1>3
  <2>3. Placed'
    BY <1>1, <2>1, <2>2 DEF Placed, ScanStages, EntryStages, WalkStages
  <2>4. ASSUME fs = 0, NEW d \in DOMAIN drives \ hurt'
        PROVE  MountedOf(mounted', d) = IF d < drive + 1 THEN Expected(d) ELSE <<>>
    <3>1. d # drive => MountedOf(mounted', d) = IF d < drive THEN Expected(d) ELSE <<>>
      BY <2>4 DEF Scanning
    <3>2. d = drive => MountedOf(mounted', d) = Expected(d)
      BY <2>4
    <3>3. d < drive + 1 <=> d < drive \/ d = drive
      BY <1>1, <1>2
    <3>. QED BY <3>1, <3>2, <3>3
  <2>5. ASSUME fs = 0 PROVE Scanning(mounted', hurt', drive + 1)
    BY <2>4, <2>5 DEF Scanning
  <2>6. ASSUME fs = 0 PROVE drive + 1 \notin hurt' => MountedOf(mounted', drive + 1) = <<>>
    <3>1. ~(drive + 1 < drive + 1)
      BY <1>1, <1>2
    <3>. QED BY <2>2, <2>4, <2>6, <3>1
  <2>7. Scanning(mounted', hurt', drive + 1) => Scanning(mounted, hurt, drive)'
    BY <2>1, DrivesStay DEF Scanning, MountedOf
  <2>8. Grouped(mounted', hurt') => Grouped(mounted, hurt)'
    BY DEF Grouped
  <2>. QED BY <2>1, <2>3, <2>5, <2>6, <2>7, <2>8 DEF Scanned, EntryStages, MountedOf
<1>4. CASE ~(drive < Len(drives))
  <2>1. stage' = "ready" /\ drive' = drive /\ entry' = entry
    BY <1>4 DEF NextDrive
  <2>2. drive = Len(drives)
    BY <1>1, <1>2, <1>4
  <2>3. Placed'
    BY <1>1, <2>1 DEF Placed, ScanStages, EntryStages, WalkStages
  <2>4. ASSUME fs = 0, NEW d \in DOMAIN drives \ hurt'
        PROVE  MountedOf(mounted', d) = Expected(d)
    <3>1. d # drive => MountedOf(mounted', d) = IF d < drive THEN Expected(d) ELSE <<>>
      BY <2>4 DEF Scanning
    <3>2. d = drive => MountedOf(mounted', d) = Expected(d)
      BY <2>4
    <3>3. d < drive \/ d = drive
      BY <1>2, <2>2
    <3>. QED BY <3>1, <3>2, <3>3
  <2>5. ASSUME fs = 0 PROVE Over(mounted, hurt)'
    BY <2>4, <2>5, DrivesStay DEF Over, MountedOf
  <2>6. Grouped(mounted', hurt') => Grouped(mounted, hurt)'
    BY DEF Grouped
  <2>. QED BY <2>1, <2>3, <2>5, <2>6 DEF Scanned, ScanStages
<1>. QED BY <1>3, <1>4

\* When an entry is done, the scan goes on to the next, or to the next drive.
LEMMA AfterEntry ==
  ASSUME Placed, stage \in EntryStages, drives' = drives, fs' = fs, \E T : mounted' \in Seq(T), NextEntry,
         hurt \subseteq hurt',
         fs = 0 => /\ Scanning(mounted', hurt', drive) /\ Grouped(mounted', hurt')
                   /\ drive \notin hurt' => MountedOf(mounted', drive) = GoodPlaces(drive)[entry]
  PROVE  Placed' /\ Scanned'
<1>1. drives \in Machines /\ drive \in DOMAIN drives /\ entry \in DOMAIN drives[drive].entries
  BY DEF Placed, ScanStages, EntryStages
<1>2. drive \notin hurt' => drives[drive].mbr /\ drives[drive].gpt
  BY DEF Placed
<1>. DEFINE n == Len(drives[drive].entries)
<1>3. n \in Nat /\ entry \in 1..n /\ DOMAIN drives[drive].entries = 1..n
  BY <1>1, DriveFacts
<1>. HIDE DEF n
<1>4. CASE entry < n
  <2>1. entry' = entry + 1 /\ stage' = "entry" /\ drive' = drive
    BY <1>4 DEF NextEntry, n
  <2>2. entry + 1 \in DOMAIN drives[drive].entries /\ (entry + 1) - 1 = entry
    BY <1>3, <1>4
  <2>3. Placed'
    BY <1>1, <1>2, <2>1, <2>2 DEF Placed, ScanStages, EntryStages, WalkStages
  <2>4. Scanning(mounted', hurt', drive) => Scanning(mounted, hurt, drive)'
    BY <2>1, DrivesStay DEF Scanning, MountedOf
  <2>5. Grouped(mounted', hurt') => Grouped(mounted, hurt)'
    BY DEF Grouped
  <2>6. GoodPlaces(drive)'[entry'-1] = GoodPlaces(drive)[entry]
    BY <2>1, <2>2, DrivesStay
  <2>. QED BY <2>1, <2>3, <2>4, <2>5, <2>6 DEF Scanned, EntryStages, MountedOf
<1>5. CASE ~(entry < n)
  <2>1. NextDrive
    BY <1>5 DEF NextEntry, n
  <2>2. entry = n
    BY <1>3, <1>5
  <2>3. drive \notin hurt' => Expected(drive) = GoodPlaces(drive)[entry]
    BY <1>2, <2>2 DEF Expected, n
  <2>4. stage \in ScanStages
    BY DEF ScanStages, EntryStages
  <2>. QED BY <2>1, <2>3, <2>4, AfterDrive
<1>. QED BY <1>4, <1>5

\* A drive that was read without a fault before was read without one then.
LEMMA HurtGrows ==
  ASSUME NEW list, NEW j, NEW bad, NEW worse, bad \subseteq worse
  PROVE  /\ Scanning(list, bad, j) => Scanning(list, worse, j)
         /\ Grouped(list, bad) => Grouped(list, worse)
BY DEF Scanning, Grouped

\* The boot sector: with its signature the header is next, without one, or
\* without an answer, the next drive.
LEMMA ScannedMbr ==
  ASSUME Placed, Scanned, NEW o, ReadMbr(o)
  PROVE  Placed' /\ Scanned'
<1>1. /\ stage = "mbr" /\ Reads(drive, o) /\ mounted' = mounted /\ fs' = fs /\ slot' = slot
      /\ sector' = IF o # "done" THEN "zero" ELSE IF drives[drive].mbr THEN "mbr" ELSE "other"
  BY DEF ReadMbr, walk
<1>2. drives' = drives /\ hurt \subseteq hurt' /\ (drive \notin hurt' => o = "done" /\ drive \notin hurt)
  BY <1>1, ReadsFacts
<1>3. drive \in DOMAIN drives /\ entry = 1 /\ drives \in Machines /\ \E T : mounted' \in Seq(T)
  BY <1>1 DEF Placed, ScanStages
<1>4. fs = 0 => /\ Scanning(mounted, hurt, drive) /\ Grouped(mounted, hurt)
                /\ drive \notin hurt => MountedOf(mounted, drive) = <<>>
  BY <1>1 DEF Scanned, ScanStages, EntryStages
<1>5. fs = 0 => /\ Scanning(mounted', hurt', drive) /\ Grouped(mounted', hurt')
                /\ drive \notin hurt' => MountedOf(mounted', drive) = <<>>
  BY <1>1, <1>2, <1>4, HurtGrows
<1>6. CASE o # "failed" /\ sector' = "mbr"
  <2>1. stage' = "header" /\ drive' = drive /\ entry' = entry
    BY <1>6 DEF ReadMbr
  <2>2. drives[drive].mbr
    BY <1>1, <1>6
  <2>3. Placed'
    BY <1>2, <1>3, <2>1, <2>2 DEF Placed, ScanStages, EntryStages, WalkStages
  <2>4. Scanning(mounted', hurt', drive) => Scanning(mounted, hurt, drive)'
    BY <1>2, <2>1, DrivesStay DEF Scanning, MountedOf
  <2>. QED BY <1>1, <1>5, <2>1, <2>3, <2>4 DEF Scanned, EntryStages, MountedOf, Grouped
<1>7. CASE ~(o # "failed" /\ sector' = "mbr")
  <2>1. NextDrive
    BY <1>7 DEF ReadMbr
  <2>2. drive \notin hurt' => Expected(drive) = <<>>
    BY <1>1, <1>2, <1>7 DEF Expected
  <2>3. stage \in ScanStages
    BY <1>1 DEF ScanStages
  <2>. QED BY <1>1, <1>2, <1>3, <1>5, <2>1, <2>2, <2>3, AfterDrive
<1>. QED BY <1>6, <1>7

\* The header of the table: where it is good and lists entries, they are next.
LEMMA ScannedHeader ==
  ASSUME Placed, Scanned, NEW o, ReadHeader(o)
  PROVE  Placed' /\ Scanned'
<1>1. /\ stage = "header" /\ Reads(drive, o) /\ mounted' = mounted /\ fs' = fs /\ slot' = slot
      /\ sector' = IF o # "done" THEN sector ELSE IF drives[drive].gpt THEN "gpt" ELSE "other"
  BY DEF ReadHeader, walk
<1>2. drives' = drives /\ hurt \subseteq hurt' /\ (drive \notin hurt' => o = "done" /\ drive \notin hurt)
  BY <1>1, ReadsFacts
<1>3. /\ drive \in DOMAIN drives /\ entry = 1 /\ drives \in Machines /\ \E T : mounted' \in Seq(T)
      /\ drive \notin hurt => drives[drive].mbr
  BY <1>1 DEF Placed, ScanStages
<1>4. fs = 0 => /\ Scanning(mounted, hurt, drive) /\ Grouped(mounted, hurt)
                /\ drive \notin hurt => MountedOf(mounted, drive) = <<>>
  BY <1>1 DEF Scanned, ScanStages, EntryStages
<1>5. fs = 0 => /\ Scanning(mounted', hurt', drive) /\ Grouped(mounted', hurt')
                /\ drive \notin hurt' => MountedOf(mounted', drive) = <<>>
  BY <1>1, <1>2, <1>4, HurtGrows
<1>. DEFINE n == Len(drives[drive].entries)
<1>6. n \in Nat /\ DOMAIN drives[drive].entries = 1..n /\ (n = 0 <=> drives[drive].entries = <<>>)
  BY <1>3, DriveFacts
<1>7. GoodPlaces(drive)[0] = <<>>
  BY <1>6, GoodPlacesFacts
<1>. HIDE DEF n
<1>8. CASE o # "failed" /\ sector' = "gpt" /\ drives[drive].entries # <<>>
  <2>1. stage' = "entry" /\ drive' = drive /\ entry' = entry
    BY <1>8 DEF ReadHeader
  <2>2. drive \notin hurt' => drives[drive].mbr /\ drives[drive].gpt
    BY <1>1, <1>2, <1>3, <1>8
  <2>3. entry \in DOMAIN drives[drive].entries /\ entry - 1 = 0
    BY <1>3, <1>6, <1>8
  <2>4. Placed'
    BY <1>2, <1>3, <2>1, <2>2, <2>3 DEF Placed, ScanStages, EntryStages, WalkStages
  <2>5. Scanning(mounted', hurt', drive) => Scanning(mounted, hurt, drive)'
    BY <1>2, <2>1, DrivesStay DEF Scanning, MountedOf
  <2>6. GoodPlaces(drive)'[entry' - 1] = <<>>
    BY <1>2, <1>7, <2>1, <2>3, DrivesStay
  <2>. QED BY <1>1, <1>5, <2>1, <2>4, <2>5, <2>6 DEF Scanned, EntryStages, MountedOf, Grouped
<1>9. CASE ~(o # "failed" /\ sector' = "gpt" /\ drives[drive].entries # <<>>)
  <2>1. NextDrive
    BY <1>9 DEF ReadHeader
  <2>2. drive \notin hurt' => Expected(drive) = <<>>
    <3>1. drive \notin hurt' => ~drives[drive].gpt \/ n = 0
      BY <1>1, <1>2, <1>6, <1>9
    <3>. QED BY <1>7, <3>1 DEF Expected, n
  <2>3. stage \in ScanStages
    BY <1>1 DEF ScanStages
  <2>. QED BY <1>1, <1>2, <1>3, <1>5, <2>1, <2>2, <2>3, AfterDrive
<1>. QED BY <1>8, <1>9

\* What is known of the entry that the scan is at.
LEMMA EntryFacts ==
  ASSUME Placed, Scanned, stage \in EntryStages
  PROVE  /\ drives \in Machines /\ drive \in DOMAIN drives /\ entry \in DOMAIN drives[drive].entries
         /\ drive \notin hurt => drives[drive].mbr /\ drives[drive].gpt
         /\ fs = 0 => /\ Scanning(mounted, hurt, drive) /\ Grouped(mounted, hurt)
                      /\ drive \notin hurt => MountedOf(mounted, drive) = GoodPlaces(drive)[entry - 1]
         /\ GoodPlaces(drive)[entry] = IF IsGood(drive, drives[drive].entries[entry])
                                   THEN Append(GoodPlaces(drive)[entry - 1], drives[drive].entries[entry].lba)
                                   ELSE GoodPlaces(drive)[entry - 1]
<1>1. /\ drives \in Machines /\ drive \in DOMAIN drives /\ entry \in DOMAIN drives[drive].entries
      /\ drive \notin hurt => drives[drive].mbr /\ drives[drive].gpt
      /\ stage \in ScanStages
  BY DEF Placed, ScanStages, EntryStages
<1>2. /\ Len(drives[drive].entries) \in Nat
      /\ DOMAIN drives[drive].entries = 1..Len(drives[drive].entries)
  BY <1>1, DriveFacts
<1>3. GoodPlaces(drive)[entry] = IF IsGood(drive, drives[drive].entries[entry])
                             THEN Append(GoodPlaces(drive)[entry - 1], drives[drive].entries[entry].lba)
                             ELSE GoodPlaces(drive)[entry - 1]
  BY <1>1, <1>2, GoodPlacesFacts
<1>. QED BY <1>1, <1>3 DEF Scanned

\* A step within an entry.
LEMMA WithinEntry ==
  ASSUME Placed, Scanned, stage \in EntryStages, stage' \in EntryStages,
         drives' = drives, hurt \subseteq hurt', mounted' = mounted, fs' = fs, drive' = drive, entry' = entry,
         stage' \in {"super", "groups"} =>
           slot'.type = "ext4" /\ (drive \notin hurt' => slot' = drives[drive].entries[entry]),
         stage' = "groups" => GoodSuper(drive, slot'.lba)
  PROVE  Placed' /\ Scanned'
<1>1. stage \in ScanStages /\ stage' \notin WalkStages /\ stage' \notin {"mbr", "header", "ready"}
  BY DEF EntryStages, ScanStages, WalkStages
<1>2. GoodSuper(drive, slot'.lba) => GoodSuper(drive, slot.lba)'
  BY DEF GoodSuper
<1>3. Placed'
  BY <1>1, <1>2 DEF Placed
<1>4. fs = 0 => /\ Scanning(mounted, hurt', drive) /\ Grouped(mounted, hurt')
                /\ drive \notin hurt' => MountedOf(mounted, drive) = GoodPlaces(drive)[entry - 1]
  BY EntryFacts, HurtGrows
<1>5. Scanning(mounted, hurt', drive) => Scanning(mounted, hurt, drive)'
  BY DrivesStay DEF Scanning, MountedOf
<1>6. GoodPlaces(drive)' = GoodPlaces(drive)
  BY DrivesStay
<1>. QED BY <1>1, <1>3, <1>4, <1>5, <1>6 DEF Scanned, MountedOf, Grouped

\* An entry of the table: where it is of an ext4 partition, the superblock is next.
LEMMA ScannedEntry ==
  ASSUME Placed, Scanned, NEW o, ReadEntry(o)
  PROVE  Placed' /\ Scanned'
<1>1. /\ stage = "entry" /\ Reads(drive, o) /\ mounted' = mounted /\ fs' = fs
      /\ slot' \in IF o = "done" THEN {drives[drive].entries[entry]} ELSE {slot, Junk}
      /\ (CASE o = "failed" -> stage' = "undefined" /\ UNCHANGED <<drive, entry>>
            [] o # "failed" /\ slot'.type = "ext4" -> stage' = "super" /\ UNCHANGED <<drive, entry>>
            [] o # "failed" /\ slot'.type # "ext4" -> NextEntry)
  BY DEF ReadEntry, walk
<1>2. drives' = drives /\ hurt \subseteq hurt' /\ (drive \notin hurt' => o = "done" /\ drive \notin hurt)
  BY <1>1, ReadsFacts
<1>3. drive \notin hurt' => slot' = drives[drive].entries[entry]
  BY <1>1, <1>2
<1>4. stage \in EntryStages /\ \E T : mounted' \in Seq(T)
  BY <1>1 DEF EntryStages, Placed
<1>5. CASE o = "failed"
  <2>1. stage' = "undefined"
    BY <1>1, <1>5
  <2>. QED BY <1>1, <1>2, <1>4, <2>1 DEF Placed, Scanned, ScanStages, EntryStages, WalkStages
<1>6. CASE o # "failed" /\ slot'.type = "ext4"
  <2>1. stage' = "super" /\ drive' = drive /\ entry' = entry
    BY <1>1, <1>6
  <2>2. stage' \in EntryStages /\ stage' # "groups"
    BY <2>1 DEF EntryStages
  <2>. QED BY <1>1, <1>2, <1>3, <1>4, <1>6, <2>1, <2>2, WithinEntry
<1>7. CASE o # "failed" /\ slot'.type # "ext4"
  <2>1. NextEntry
    BY <1>1, <1>7
  <2>2. drive \notin hurt' => ~IsGood(drive, drives[drive].entries[entry])
    BY <1>3, <1>7 DEF IsGood
  <2>3. fs = 0 => /\ Scanning(mounted', hurt', drive) /\ Grouped(mounted', hurt')
                  /\ drive \notin hurt' => MountedOf(mounted', drive) = GoodPlaces(drive)[entry]
    BY <1>1, <1>2, <1>4, <2>2, EntryFacts, HurtGrows
  <2>. QED BY <1>1, <1>2, <1>4, <2>1, <2>3, AfterEntry
<1>. QED BY <1>5, <1>6, <1>7

\* The superblock: where it is good, the groups are next.
LEMMA ScannedSuper ==
  ASSUME Placed, Scanned, NEW o, ReadSuper(o)
  PROVE  Placed' /\ Scanned'
<1>1. /\ stage = "super" /\ Reads(drive, o) /\ mounted' = mounted /\ fs' = fs /\ slot' = slot
  BY DEF ReadSuper, walk
<1>2. drives' = drives /\ hurt \subseteq hurt' /\ (drive \notin hurt' => o = "done" /\ drive \notin hurt)
  BY <1>1, ReadsFacts
<1>3. slot.type = "ext4" /\ (drive \notin hurt' => slot = drives[drive].entries[entry])
  BY <1>1, <1>2 DEF Placed
<1>4. stage \in EntryStages /\ \E T : mounted' \in Seq(T)
  BY <1>1 DEF EntryStages, Placed
<1>5. CASE o = "done" /\ GoodSuper(drive, slot.lba)
  <2>1. stage' = "groups" /\ drive' = drive /\ entry' = entry
    BY <1>5 DEF ReadSuper
  <2>2. stage' \in EntryStages
    BY <2>1 DEF EntryStages
  <2>. QED BY <1>1, <1>2, <1>3, <1>4, <1>5, <2>1, <2>2, WithinEntry
<1>6. CASE ~(o = "done" /\ GoodSuper(drive, slot.lba))
  <2>1. NextEntry
    BY <1>6 DEF ReadSuper
  <2>2. drive \notin hurt' => ~IsGood(drive, drives[drive].entries[entry])
    BY <1>2, <1>3, <1>6 DEF IsGood, GoodSuper
  <2>3. fs = 0 => /\ Scanning(mounted', hurt', drive) /\ Grouped(mounted', hurt')
                  /\ drive \notin hurt' => MountedOf(mounted', drive) = GoodPlaces(drive)[entry]
    BY <1>1, <1>2, <1>4, <2>2, EntryFacts, HurtGrows
  <2>. QED BY <1>1, <1>2, <1>4, <2>1, <2>3, AfterEntry
<1>. QED BY <1>5, <1>6

\* The groups: the file system is mounted behind those before it.
LEMMA ScannedGroups ==
  ASSUME Placed, Scanned, NEW o, ReadGroups(o)
  PROVE  Placed' /\ Scanned'
<1>. DEFINE x == [drive |-> drive, lba |-> slot.lba, groups |-> o = "done"]
<1>1. /\ stage = "groups" /\ Reads(drive, o) /\ mounted' = Append(mounted, x) /\ fs' = fs /\ NextEntry
  BY DEF ReadGroups, walk
<1>2. drives' = drives /\ hurt \subseteq hurt' /\ (drive \notin hurt' => o = "done" /\ drive \notin hurt)
  BY <1>1, ReadsFacts
<1>3. /\ slot.type = "ext4" /\ (drive \notin hurt' => slot = drives[drive].entries[entry])
      /\ GoodSuper(drive, slot.lba)
  BY <1>1, <1>2 DEF Placed
<1>4. x.drive = drive /\ x.lba = slot.lba /\ (drive \notin hurt' => x.groups)
  BY <1>2
<1>. HIDE DEF x
<1>5. PICK T : mounted \in Seq(T)
  BY DEF Placed
<1>6. mounted' \in Seq(T \cup {x})
  BY <1>1, <1>5
<1>7. stage \in EntryStages
  BY <1>1 DEF EntryStages
<1>8. \A d : MountedOf(mounted', d) =
              IF drive = d THEN Append(MountedOf(mounted, d), slot.lba) ELSE MountedOf(mounted, d)
  BY <1>1, <1>4, <1>5, MountedAppend
<1>9. fs = 0 => Scanning(mounted', hurt', drive)
  <2>1. fs = 0 => Scanning(mounted, hurt', drive)
    BY <1>2, <1>7, EntryFacts, HurtGrows
  <2>. QED BY <1>8, <2>1 DEF Scanning
<1>10. fs = 0 => Grouped(mounted', hurt')
  <2>. SUFFICES ASSUME fs = 0, NEW i \in DOMAIN mounted', mounted'[i].drive \notin hurt'
                PROVE  mounted'[i].groups
    BY DEF Grouped
  <2>1. Grouped(mounted, hurt')
    BY <1>2, <1>7, EntryFacts, HurtGrows
  <2>2. \/ i \in DOMAIN mounted /\ mounted'[i] = mounted[i]
        \/ mounted'[i] = x
    BY <1>1, <1>5
  <2>. QED BY <1>4, <2>1, <2>2 DEF Grouped
<1>11. fs = 0 /\ drive \notin hurt' => MountedOf(mounted', drive) = GoodPlaces(drive)[entry]
  <2>. SUFFICES ASSUME fs = 0, drive \notin hurt' PROVE MountedOf(mounted', drive) = GoodPlaces(drive)[entry]
    OBVIOUS
  <2>1. IsGood(drive, drives[drive].entries[entry]) /\ slot = drives[drive].entries[entry]
    BY <1>3 DEF IsGood, GoodSuper
  <2>2. MountedOf(mounted, drive) = GoodPlaces(drive)[entry - 1]
    BY <1>2, <1>7, EntryFacts
  <2>3. GoodPlaces(drive)[entry] = Append(GoodPlaces(drive)[entry - 1], slot.lba)
    BY <1>7, <2>1, EntryFacts
  <2>. QED BY <1>8, <2>2, <2>3
<1>. QED BY <1>1, <1>2, <1>6, <1>7, <1>9, <1>10, <1>11, AfterEntry

\* A walk leaves what the scan found alone.
LEMMA ScannedWalk ==
  ASSUME Placed, Scanned, drives' = drives, mounted' = mounted,
         stage' \notin ScanStages, stage' = "ready" => fs' # 0, stage' \in WalkStages => fs' # 0
  PROVE  Placed' /\ Scanned'
<1>1. stage' \notin EntryStages /\ stage' \notin {"mbr", "header", "super", "groups"} /\ stage' # "groups"
  BY DEF ScanStages, EntryStages
<1>2. Placed'
  BY <1>1 DEF Placed
<1>. QED BY <1>2 DEF Scanned

\* What is mounted has just had a good superblock, and drives stay as they are.
LEMMA GoodsStep ==
  ASSUME Placed, Goods, [FileNext]_fileVars
  PROVE  Goods'
<1>1. CASE mounted' = mounted /\ drives' = drives
  BY <1>1 DEF Goods, GoodSuper
<1>2. ASSUME NEW o, ReadGroups(o) PROVE Goods'
  <2>. DEFINE x == [drive |-> drive, lba |-> slot.lba, groups |-> o = "done"]
  <2>1. stage = "groups" /\ drives' = drives /\ mounted' = Append(mounted, x)
    BY <1>2 DEF ReadGroups, Reads
  <2>2. GoodSuper(x.drive, x.lba)
    BY <2>1 DEF Placed
  <2>. HIDE DEF x
  <2>3. PICK T : mounted \in Seq(T)
    BY DEF Placed
  <2>4. ASSUME NEW i \in DOMAIN mounted' PROVE GoodSuper(mounted'[i].drive, mounted'[i].lba)
    <3>1. \/ i \in DOMAIN mounted /\ mounted'[i] = mounted[i]
          \/ mounted'[i] = x
      BY <2>1, <2>3
    <3>. QED BY <2>2, <3>1 DEF Goods
  <2>5. \A d, l : GoodSuper(d, l)' = GoodSuper(d, l)
    BY <2>1, DrivesStay
  <2>. QED BY <2>4, <2>5 DEF Goods
<1>3. (mounted' = mounted /\ drives' = drives) \/ \E o \in Outcomes : ReadGroups(o)
  BY DEF FileNext, fileVars, scan, ReadMbr, ReadHeader, ReadEntry, ReadSuper, GetInode, ReadDirectory,
         ReadFile, Open, Panic, Close, Reads
<1>. QED BY <1>1, <1>2, <1>3

\* No step of the scan mounts too much or too little, and open and read leave
\* what it did alone.
LEMMA ScannedStep ==
  ASSUME Found, Placed, Scanned, [FileNext]_fileVars
  PROVE  Placed' /\ Scanned'
<1>1. CASE UNCHANGED fileVars
  <2>1. /\ drives' = drives /\ stage' = stage /\ drive' = drive /\ entry' = entry /\ slot' = slot
        /\ mounted' = mounted /\ hurt' = hurt /\ fs' = fs
    BY <1>1 DEF fileVars, scan, walk
  <2>2. Placed'
    BY <2>1, DrivesStay DEF Placed
  <2>3. Scanning(mounted, hurt, drive)' = Scanning(mounted, hurt, drive) /\ Over(mounted, hurt)' = Over(mounted, hurt)
    BY <2>1, DrivesStay DEF Scanning, Over, MountedOf
  <2>4. Grouped(mounted, hurt)' = Grouped(mounted, hurt) /\ MountedOf(mounted, drive)' = MountedOf(mounted, drive)
    BY <2>1 DEF Grouped, MountedOf
  <2>. QED BY <2>1, <2>2, <2>3, <2>4, DrivesStay DEF Scanned
<1>2. ASSUME NEW o \in Outcomes, GetInode(o) PROVE Placed' /\ Scanned'
  <2>1. /\ stage = "inode" /\ drives' = drives /\ mounted' = mounted /\ fs' = fs
    BY <1>2 DEF GetInode, Reads, scan
  <2>2. (CASE rest = <<>> ->
                stage' = "opened" /\ file' = [number |-> number, node |-> node'] /\ UNCHANGED block
           [] rest # <<>> /\ node'.mode = "directory" ->
                stage' = "directory" /\ block' = 0 /\ UNCHANGED file
           [] rest # <<>> /\ node'.mode # "directory" ->
                stage' = "opened" /\ file' = NoFile /\ UNCHANGED block)
    BY <1>2 DEF GetInode
  <2>3. stage' \in {"opened", "directory"}
    <3>1. CASE rest = <<>>
      BY <2>2, <3>1
    <3>2. CASE rest # <<>> /\ node'.mode = "directory"
      BY <2>2, <3>2
    <3>3. CASE rest # <<>> /\ node'.mode # "directory"
      BY <2>2, <3>3
    <3>. QED BY <3>1, <3>2, <3>3
  <2>4. fs # 0
    BY <2>1 DEF Placed, WalkStages
  <2>5. stage' \notin ScanStages
    BY <2>3 DEF ScanStages
  <2>. QED BY <2>1, <2>4, <2>5, ScannedWalk
<1>3. ASSUME NEW o \in Outcomes, ReadDirectory(o) PROVE Placed' /\ Scanned'
  <2>1. /\ stage = "directory" /\ drives' = drives /\ mounted' = mounted /\ fs' = fs
    BY <1>3 DEF ReadDirectory, Reads, scan
  <2>2. stage' \notin ScanStages
    <3>1. CASE page' = NoPage
      BY <1>3, <3>1 DEF ReadDirectory, ScanStages
    <3>2. CASE page' # NoPage /\ Matches(page') # {}
      BY <1>3, <3>2 DEF ReadDirectory, ScanStages
    <3>3. CASE page' # NoPage /\ Matches(page') = {} /\ MoreBlocks
      BY <1>3, <2>1, <3>3 DEF ReadDirectory, ScanStages
    <3>4. CASE page' # NoPage /\ Matches(page') = {} /\ ~MoreBlocks
      BY <1>3, <3>4 DEF ReadDirectory, ScanStages
    <3>. QED BY <3>1, <3>2, <3>3, <3>4
  <2>3. fs # 0
    BY <2>1 DEF Placed, WalkStages
  <2>. QED BY <2>1, <2>2, <2>3, ScannedWalk
<1>4. ASSUME NEW m \in DOMAIN mounted, NEW p, Open(m, p) PROVE Placed' /\ Scanned'
  <2>1. PICK T : mounted \in Seq(T)
    BY DEF Placed
  <2>2. m # 0
    BY <2>1
  <2>3. drives' = drives /\ mounted' = mounted /\ fs' = m /\ stage' = "inode"
    BY <1>4 DEF Open, scan
  <2>. QED BY <2>2, <2>3, ScannedWalk DEF ScanStages
<1>5. ASSUME NEW o, NEW offset, NEW size, ReadFile(offset, size, o) PROVE Placed' /\ Scanned'
  <2>1. /\ stage = "opened" /\ drives' = drives /\ mounted' = mounted /\ fs' = fs /\ stage' = "read"
    BY <1>5 DEF ReadFile, Reads, scan
  <2>2. fs # 0
    BY <2>1 DEF Placed, WalkStages
  <2>. QED BY <2>1, <2>2, ScannedWalk DEF ScanStages
<1>6. CASE Panic
  <2>1. drives' = drives /\ mounted' = mounted /\ stage' = "halted"
    BY <1>6 DEF Panic, scan
  <2>. QED BY <2>1, ScannedWalk DEF ScanStages, WalkStages
<1>7. CASE Close
  <2>1. /\ stage \in {"opened", "read"} /\ stage' = "ready"
        /\ drives' = drives /\ mounted' = mounted /\ fs' = fs
    BY <1>7 DEF Close, scan
  <2>2. fs # 0
    BY <2>1 DEF Placed, WalkStages
  <2>. QED BY <2>1, <2>2, ScannedWalk DEF ScanStages
<1>8. ASSUME NEW o, ReadMbr(o) \/ ReadHeader(o) \/ ReadEntry(o) \/ ReadSuper(o) \/ ReadGroups(o)
      PROVE  Placed' /\ Scanned'
  BY <1>8, ScannedMbr, ScannedHeader, ScannedEntry, ScannedSuper, ScannedGroups
<1>. QED BY <1>1, <1>2, <1>3, <1>4, <1>5, <1>6, <1>7, <1>8 DEF FileNext

\* At the first read nothing is mounted, and nothing has been passed.
LEMMA ScannedStart == FileInit => Placed /\ Goods /\ Scanned
<1>. SUFFICES ASSUME FileInit PROVE Placed /\ Goods /\ Scanned
  OBVIOUS
<1>1. /\ drives \in Machines /\ drive = 1 /\ entry = 1 /\ mounted = <<>> /\ hurt = {}
      /\ stage = IF drives = <<>> THEN "ready" ELSE "mbr"
  BY DEF FileInit
<1>2. Len(drives) \in Nat /\ DOMAIN drives = 1..Len(drives)
  BY <1>1, DriveFacts
<1>3. mounted \in Seq({}) /\ Len(mounted) = 0 /\ DOMAIN mounted = {}
  BY <1>1
<1>4. \A d : MountedOf(mounted, d) = <<>>
  BY <1>3, MountsFacts DEF MountedOf
<1>5. Goods /\ Grouped(mounted, hurt)
  BY <1>3 DEF Goods, Grouped
<1>6. CASE drives = <<>>
  <2>1. stage = "ready" /\ DOMAIN drives = {}
    BY <1>1, <1>6
  <2>2. Over(mounted, hurt)
    BY <2>1 DEF Over
  <2>3. Placed
    BY <1>1, <1>3, <2>1 DEF Placed, ScanStages, EntryStages, WalkStages
  <2>. QED BY <1>5, <2>1, <2>2, <2>3 DEF Scanned, ScanStages
<1>7. CASE drives # <<>>
  <2>1. stage = "mbr"
    BY <1>1, <1>7
  <2>2. 1 \in DOMAIN drives
    <3>1. drives \in Seq(Range(drives))
      BY <1>1, DriveAssumption DEF DriveAssumption, IsList
    <3>. QED BY <1>7, <3>1
  <2>3. Placed
    BY <1>1, <1>3, <2>1, <2>2 DEF Placed, ScanStages, EntryStages, WalkStages
  <2>4. Scanning(mounted, hurt, drive)
    <3>1. \A d \in DOMAIN drives : ~(d < drive)
      BY <1>1, <1>2
    <3>. QED BY <1>4, <3>1 DEF Scanning
  <2>. QED BY <1>4, <1>5, <2>1, <2>3, <2>4 DEF Scanned, EntryStages
<1>. QED BY <1>6, <1>7

\* Whatever the drives hold and whichever reads fail, the scan mounts every good
\* file system of a drive that was read, in order and once, and no other.
THEOREM DrivesScanned == FileSpec => []ScanExact
<1>1. FileInit => Found /\ Placed /\ Goods /\ Scanned
  BY FoundStart, ScannedStart
<1>2. Found /\ Placed /\ Goods /\ Scanned /\ [FileNext]_fileVars => (Found /\ Placed /\ Goods /\ Scanned)'
  BY FoundStep, ScannedStep, GoodsStep
<1>3. Goods /\ Scanned => ScanExact
  BY ScanPromised
<1>. QED BY <1>1, <1>2, <1>3, PTL DEF FileSpec

=============================================================================
