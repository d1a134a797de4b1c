---------------------------- MODULE Process_proofs ----------------------------
(***************************************************************************)
(* Theorems about Process, for every number of pids and every set of       *)
(* threads: the type invariant; that the ownership lists always form a     *)
(* tree in which every live process but the root has exactly one place;    *)
(* and that both sides of an adoption agree, so that an adopted process    *)
(* outlives its owner's letting go of it.                                  *)
(***************************************************************************)
EXTENDS Process, TLAPS, SequenceTheorems

\* What linked_list::remove leaves: the elements in front keep their place
\* and those behind move up by one.
LEMMA RemoveAtFacts ==
  ASSUME NEW S, NEW s \in Seq(S), NEW i \in DOMAIN s
  PROVE  /\ RemoveAt(s, i) \in Seq(S)
         /\ DOMAIN RemoveAt(s, i) = 1..Len(s) - 1
         /\ \A k \in 1..Len(s) - 1 :
              RemoveAt(s, i)[k] = s[IF k < i THEN k ELSE k + 1]
<1> DEFINE front == SubSeq(s, 1, i - 1)
           back == SubSeq(s, i + 1, Len(s))
<1>1. i \in 1..Len(s) /\ Len(s) \in Nat
  OBVIOUS
<1>2. /\ front \in Seq(S) /\ Len(front) = i - 1
      /\ \A k \in 1..i - 1 : front[k] = s[k]
  BY <1>1
<1>3. /\ back \in Seq(S) /\ Len(back) = Len(s) - i
      /\ \A k \in 1..Len(s) - i : back[k] = s[i + k]
  BY <1>1
<1>4. RemoveAt(s, i) = front \o back
  BY DEF RemoveAt
<1> HIDE DEF front, back
<1>5. /\ front \o back \in Seq(S)
      /\ Len(front \o back) = Len(front) + Len(back)
      /\ \A k \in 1..Len(front) + Len(back) :
           (front \o back)[k] =
             IF k <= Len(front) THEN front[k] ELSE back[k - Len(front)]
  BY <1>2, <1>3, ConcatProperties
<1>6. \A k \in 1..Len(s) - 1 :
        (front \o back)[k] = s[IF k < i THEN k ELSE k + 1]
  <2> SUFFICES ASSUME NEW k \in 1..Len(s) - 1
               PROVE  (front \o back)[k] = s[IF k < i THEN k ELSE k + 1]
    OBVIOUS
  <2>1. CASE k < i
    <3>1. k \in 1..i - 1 /\ k \in 1..Len(front) + Len(back) /\ k <= Len(front)
      BY <1>1, <1>2, <1>3, <2>1
    <3> QED
      BY <1>2, <1>5, <2>1, <3>1
  <2>2. CASE ~(k < i)
    <3>1. /\ k - (i - 1) \in 1..Len(s) - i /\ i + (k - (i - 1)) = k + 1
          /\ k \in 1..Len(front) + Len(back) /\ ~(k <= Len(front))
      BY <1>1, <1>2, <1>3, <2>2, SMTT(30)
    <3>2. (front \o back)[k] = back[k - (i - 1)]
      BY <1>2, <1>5, <3>1
    <3> QED
      BY <1>3, <2>2, <3>1, <3>2
  <2> QED
    BY <2>1, <2>2
<1>7. DOMAIN (front \o back) = 1..Len(s) - 1
  BY <1>1, <1>2, <1>3, <1>5
<1> QED
  BY <1>4, <1>5, <1>6, <1>7

\* Membership in a list, by place.
LEMMA InToSet ==
  ASSUME NEW s
  PROVE  /\ \A k \in DOMAIN s : s[k] \in ToSet(s)
         /\ \A x \in ToSet(s) : \E k \in DOMAIN s : s[k] = x
BY DEF ToSet

\* The entries that cleanup_dead keeps are entries of the list.
LEMMA KeptType ==
  ASSUME NEW S, NEW s \in Seq(S), NEW at \in LivePlaces(s)
  PROVE  Kept(s, at) \in Seq(S)
<1>1. PICK n \in 0..Len(s) : at \in [1..n -> DOMAIN s]
  BY DEF LivePlaces
<1>2. Kept(s, at) \in [1..n -> S]
  BY <1>1 DEF Kept
<1> QED
  BY <1>1, <1>2, SeqDef

\* What is alive has a pid; the first two are always there.
LEMMA PidFacts ==
  /\ Root \in Pid /\ MainPid \in Pid /\ Root # MainPid /\ NoPid \notin Pid
  /\ TypeOK => live \subseteq Pid
  /\ TypeOK /\ nextPid <= MaxPid =>
       nextPid \in Pid /\ nextPid \notin live /\ nextPid # Root
<1> USE ProcessAssumption
    DEF ProcessAssumption, Root, MainPid, NoPid, Pid
<1>1. Root \in Pid /\ MainPid \in Pid /\ Root # MainPid /\ NoPid \notin Pid
  OBVIOUS
<1>2. TypeOK => nextPid \in 2..MaxPid + 1 /\ live \subseteq 0..nextPid - 1
  BY DEF TypeOK
<1> QED
  BY <1>1, <1>2

\* A descriptor that is found names a process.
LEMMA TargetType ==
  ASSUME TypeOK, NEW p \in Pid, NEW d \in Descriptors
  PROVE  Target(p, d) \in Pid
<1>1. CASE d = Self
  BY <1>1 DEF Target, Self
<1>2. CASE d = Parent
  BY <1>2 DEF Target, Parent, TypeOK
<1>3. CASE \E n \in Pid : d = Number(n)
  BY <1>3 DEF Target, Number
<1> QED
  BY <1>1, <1>2, <1>3 DEF Descriptors

-----------------------------------------------------------------------------
\* Every variable keeps its type, whatever the processes call.
THEOREM TypeCorrect == Spec => []TypeOK
<1>1. Init => TypeOK
  <2> SUFFICES ASSUME Init PROVE TypeOK
    OBVIOUS
  <2>1. nextPid \in MainPid + 1..MaxPid + 1 /\ live \in SUBSET (0..nextPid - 1)
    BY ProcessAssumption DEF Init, ProcessAssumption, Root, MainPid
  <2>2. <<>> \in Seq(Pid) /\ <<MainPid>> \in Seq(Pid)
    BY PidFacts
  <2> QED
    BY <2>1, <2>2, PidFacts DEF Init, TypeOK
<1>2. TypeOK /\ [Next]_vars => TypeOK'
  <2> SUFFICES ASSUME TypeOK, [Next]_vars PROVE TypeOK'
    OBVIOUS
  <2>1. ASSUME NEW p \in Threads, Syscall(p) PROVE TypeOK'
    <3>0. p \in Pid /\ p \in live /\ live \subseteq Pid
      BY <2>1, ProcessAssumption, PidFacts DEF ProcessAssumption, Syscall
    <3>1. ASSUME NEW ds, LookupFails(p, ds) PROVE TypeOK'
      BY <3>1 DEF LookupFails, TypeOK
    <3>2. ASSUME NEW n \in Pid, DisownChild(p, n) PROVE TypeOK'
      <4>1. PICK i \in DOMAIN children[p] :
              /\ FirstAt(children[p], n, i)
              /\ IF Adopted(n) THEN HandOver(Without(p, i), adopter[n], n)
                 ELSE Kill(p, Without(p, i), Owned(Without(p, i), n))
              /\ UNCHANGED <<nextPid, miscounted>>
        BY <3>2 DEF DisownChild
      <4>2. Without(p, i) \in [Pid -> Seq(Pid)]
        <5>1. RemoveAt(children[p], i) \in Seq(Pid)
          BY <3>0, RemoveAtFacts DEF TypeOK
        <5> QED
          BY <5>1 DEF Without, TypeOK
      <4>3. CASE Adopted(n)
        <5>1. HandOver(Without(p, i), adopter[n], n) /\ adopter[n] \in Pid
          BY <3>0, <4>1, <4>3 DEF Adopted, TypeOK
        <5>2. children' \in [Pid -> Seq(Pid)]
          <6>1. Append(Without(p, i)[adopter[n]], n) \in Seq(Pid)
            BY <4>2, <5>1, AppendProperties
          <6> QED
            BY <4>2, <5>1, <6>1 DEF HandOver
        <5>3. pending' \in [Pid -> Seq(Pid)]
          <6>1. \A k \in DOMAIN pending[adopter[n]] :
                  RemoveAt(pending[adopter[n]], k) \in Seq(Pid)
            BY <5>1, RemoveAtFacts DEF TypeOK
          <6> QED
            BY <5>1, <6>1 DEF HandOver, TypeOK
        <5> QED
          BY <4>1, <5>1, <5>2, <5>3 DEF HandOver, TypeOK
      <4>4. CASE ~Adopted(n)
        <5>1. Kill(p, Without(p, i), Owned(Without(p, i), n))
          BY <4>1, <4>4
        <5>2. kernel' \in {"running", "halted", "corrupt"}
          BY <5>1 DEF Kill, Outcomes
        <5>3. <<>> \in Seq(Pid) /\ Root \in Pid
          BY PidFacts
        <5>4. /\ children' \in [Pid -> Seq(Pid)] /\ friends' \in [Pid -> Seq(Pid)]
              /\ pending' \in [Pid -> Seq(Pid)] /\ parent' \in [Pid -> Pid]
              /\ adopter' \in [Pid -> Pid \cup {NoPid}]
          BY <4>2, <5>1, <5>3 DEF Kill, TypeOK
        <5> QED
          BY <4>1, <5>1, <5>2, <5>4 DEF Kill, TypeOK
      <4> QED
        BY <4>3, <4>4
    <3>3. ASSUME NEW n \in Pid, DisownFriend(p, n) PROVE TypeOK'
      <4>1. PICK i \in DOMAIN friends[p] :
              /\ friends' = [friends EXCEPT ![p] = RemoveAt(friends[p], i)]
              /\ kernel' \in GivingBack({n})
              /\ UNCHANGED <<nextPid, live, parent, children, pending, adopter,
                             stale, miscounted>>
        BY <3>3 DEF DisownFriend
      <4>2. RemoveAt(friends[p], i) \in Seq(Pid)
        BY <3>0, RemoveAtFacts DEF TypeOK
      <4>3. kernel' \in {"running", "halted"}
        BY <4>1 DEF GivingBack
      <4> QED
        BY <3>0, <4>1, <4>2, <4>3 DEF TypeOK
    <3>4. ASSUME NEW n \in Pid, DisownPending(p, n) PROVE TypeOK'
      <4>1. PICK i \in DOMAIN pending[p] :
              /\ pending[p][i] \in live /\ StopsAt(pending[p], n, i)
              /\ pending' = [pending EXCEPT ![p] = RemoveAt(pending[p], i)]
              /\ stale' = stale \cup {n}
              /\ miscounted' = miscounted \cup ({adopter[n]} \ {NoPid})
              /\ kernel' \in GivingBack({n, adopter[n]})
              /\ UNCHANGED <<nextPid, live, parent, children, friends, adopter>>
        BY <3>4 DEF DisownPending
      <4>2. RemoveAt(pending[p], i) \in Seq(Pid)
        BY <3>0, RemoveAtFacts DEF TypeOK
      <4>3. kernel' \in {"running", "halted"}
        BY <4>1 DEF GivingBack
      <4> QED
        BY <3>0, <4>1, <4>2, <4>3 DEF TypeOK
    <3>5. ASSUME NEW n \in Pid, DisownFaults(p, n) PROVE TypeOK'
      BY <3>5 DEF DisownFaults, lists, TypeOK
    <3>6. ASSUME NEW d \in Descriptors, Adopt(p, d) PROVE TypeOK'
      <4>1. CASE LookupFails(p, {d})
        BY <3>1, <4>1
      <4>2. CASE ~LookupFails(p, {d})
        <5> DEFINE t == Target(p, d)
        <5>1. /\ adopter' = [adopter EXCEPT ![t] = p]
              /\ stale' = stale \ {t}
              /\ pending' = [pending EXCEPT ![p] = Append(pending[p], t)]
              /\ UNCHANGED <<nextPid, live, parent, children, friends,
                             miscounted, kernel>>
          BY <3>6, <4>2 DEF Adopt
        <5>2. t \in Pid
          BY <3>0, TargetType
        <5> HIDE DEF t
        <5>3. Append(pending[p], t) \in Seq(Pid)
          BY <3>0, <5>2, AppendProperties DEF TypeOK
        <5> QED
          BY <3>0, <5>1, <5>2, <5>3 DEF TypeOK
      <4> QED
        BY <4>1, <4>2
    <3>7. ASSUME NEW a \in Descriptors, NEW b \in Descriptors, MakeFriend(p, a, b)
          PROVE TypeOK'
      <4>1. CASE LookupFails(p, {a, b})
        BY <3>1, <4>1
      <4>2. CASE ~LookupFails(p, {a, b})
        <5>1. /\ friends' = [friends EXCEPT ![Target(p, b)] =
                               Append(friends[Target(p, b)], Target(p, a))]
              /\ UNCHANGED <<nextPid, live, parent, children, pending, adopter,
                             stale, miscounted, kernel>>
          BY <3>7, <4>2 DEF MakeFriend
        <5>2. Target(p, a) \in Pid /\ Target(p, b) \in Pid
          BY <3>0, TargetType
        <5>3. Append(friends[Target(p, b)], Target(p, a)) \in Seq(Pid)
          BY <5>2, AppendProperties DEF TypeOK
        <5> QED
          BY <5>1, <5>2, <5>3 DEF TypeOK
      <4> QED
        BY <4>1, <4>2
    <3>8. ASSUME CreateChild(p) PROVE TypeOK'
      <4>1. nextPid' \in MainPid + 1..MaxPid + 1 /\ nextPid \in 0..nextPid' - 1
              /\ 0..nextPid - 1 \subseteq 0..nextPid' - 1
        BY <3>8, ProcessAssumption
        DEF CreateChild, PidAfter, TypeOK, MainPid, ProcessAssumption
      <4>2. nextPid \in Pid
        BY <3>8, PidFacts DEF CreateChild
      <4>3. children' \in [Pid -> Seq(Pid)]
        <5>1. Append(children[p], nextPid) \in Seq(Pid)
          BY <3>0, <4>2, AppendProperties DEF TypeOK
        <5> QED
          BY <3>0, <3>8, <5>1 DEF CreateChild, TypeOK
      <4>4. parent' \in [Pid -> Pid] /\ live' \in SUBSET (0..nextPid' - 1)
        <5>1. \/ /\ live' = live \cup {nextPid}
                 /\ parent' = [parent EXCEPT ![nextPid] = p]
              \/ UNCHANGED <<live, parent>>
          BY <3>8 DEF CreateChild
        <5>2. live \in SUBSET (0..nextPid - 1) /\ parent \in [Pid -> Pid]
          BY DEF TypeOK
        <5>3. live \in SUBSET (0..nextPid' - 1)
          BY <4>1, <5>2
        <5> QED
          BY <3>0, <4>1, <4>2, <5>1, <5>2, <5>3
      <4> QED
        BY <3>8, <4>1, <4>3, <4>4 DEF CreateChild, TypeOK
    <3>9. ASSUME NEW d \in Descriptors, ListProcesses(p, d) PROVE TypeOK'
      <4>1. CASE LookupFails(p, {d})
        BY <3>1, <4>1
      <4>2. CASE ~LookupFails(p, {d})
        <5>1. friends' \in [Pid -> Seq(Pid)] /\ pending' \in [Pid -> Seq(Pid)]
          <6>1. Target(p, d) \in Pid
            BY <3>0, TargetType
          <6>2. \A at \in LivePlaces(friends[Target(p, d)]) :
                  Kept(friends[Target(p, d)], at) \in Seq(Pid)
            BY <6>1, KeptType DEF TypeOK
          <6>3. \A at \in LivePlaces(pending[Target(p, d)]) :
                  Kept(pending[Target(p, d)], at) \in Seq(Pid)
            BY <6>1, KeptType DEF TypeOK
          <6>4. /\ \E at \in LivePlaces(friends[Target(p, d)]) :
                     friends' = [friends EXCEPT ![Target(p, d)] =
                                   Kept(friends[Target(p, d)], at)]
                /\ \E at \in LivePlaces(pending[Target(p, d)]) :
                     pending' = [pending EXCEPT ![Target(p, d)] =
                                   Kept(pending[Target(p, d)], at)]
            BY <3>9, <4>2 DEF ListProcesses
          <6> QED
            BY <6>1, <6>2, <6>3, <6>4 DEF TypeOK
        <5> QED
          BY <3>9, <4>2, <5>1 DEF ListProcesses, TypeOK
      <4> QED
        BY <4>1, <4>2
    <3> QED
      BY <2>1, <3>2, <3>3, <3>4, <3>5, <3>6, <3>7, <3>8, <3>9
      DEF Syscall, Disown
  <2>2. CASE UNCHANGED vars
    BY <2>2 DEF vars, TypeOK
  <2> QED
    BY <2>1, <2>2 DEF Next, Stopped
<1> QED
  BY <1>1, <1>2, PTL DEF Spec

-----------------------------------------------------------------------------
(* The ownership tree *)

\* Owned is the least set: it is closed, and inside every closed set.
LEMMA OwnedFacts ==
  ASSUME NEW kids \in [Pid -> Seq(Pid)], NEW n \in Pid
  PROVE  /\ n \in Owned(kids, n) /\ Owned(kids, n) \subseteq Pid
         /\ \A r \in Owned(kids, n) : ToSet(kids[r]) \subseteq Owned(kids, n)
         /\ \A S \in SUBSET Pid :
              n \in S /\ (\A r \in S : ToSet(kids[r]) \subseteq S)
              => Owned(kids, n) \subseteq S
<1>1. \A r \in Pid : ToSet(kids[r]) \subseteq Pid
  BY ElementOfSeq DEF ToSet
<1>2. n \in Owned(kids, n) /\ Owned(kids, n) \subseteq Pid
  BY DEF Owned
<1>3. ASSUME NEW S \in SUBSET Pid, n \in S, \A r \in S : ToSet(kids[r]) \subseteq S
      PROVE  Owned(kids, n) \subseteq S
  BY <1>3 DEF Owned
<1>4. ASSUME NEW r \in Owned(kids, n), NEW q \in ToSet(kids[r])
      PROVE  q \in Owned(kids, n)
  <2>1. q \in Pid
    BY <1>1, <1>2, <1>4
  <2>2. ASSUME NEW S \in SUBSET Pid, n \in S,
               \A x \in S : ToSet(kids[x]) \subseteq S
        PROVE  q \in S
    BY <1>3, <1>4, <2>2
  <2> QED
    BY <2>1, <2>2 DEF Owned
<1> QED
  BY <1>2, <1>3, <1>4

\* What is left when p lets go of its entry i: everybody else stands where it
\* stood, once, and n stands nowhere.
LEMMA WithoutFacts ==
  ASSUME TypeOK, Running, SoleOwner,
         NEW p \in live, NEW i \in DOMAIN children[p]
  PROVE  LET W == Without(p, i)
             n == children[p][i]
         IN /\ n \in live \ {Root}
            /\ W \in [Pid -> Seq(Pid)]
            /\ \A q \in Pid : ToSet(W[q]) \subseteq ToSet(children[q]) \ {n}
            /\ \A q \in Pid : ToSet(children[q]) \ {n} \subseteq ToSet(W[q])
            /\ \A q, r \in Pid : \A k \in DOMAIN W[q], l \in DOMAIN W[r] :
                 W[q][k] = W[r][l] => q = r /\ k = l
<1> DEFINE W == Without(p, i)
           n == children[p][i]
<1>1. p \in Pid /\ live \subseteq Pid /\ children \in [Pid -> Seq(Pid)]
  BY PidFacts DEF TypeOK
<1>2. n \in live \ {Root}
  BY DEF SoleOwner, OwnedLive, ToSet
<1>3. \A q, r \in Pid : \A k \in DOMAIN children[q], l \in DOMAIN children[r] :
        children[q][k] = children[r][l] => q = r /\ k = l
  <2>1. \A q \in Pid \ live : DOMAIN children[q] = {}
    BY DEF SoleOwner, DeadOwnNothing
  <2> QED
    BY <2>1 DEF SoleOwner, OwnedOnce
<1>4. /\ RemoveAt(children[p], i) \in Seq(Pid)
      /\ DOMAIN RemoveAt(children[p], i) = 1..Len(children[p]) - 1
      /\ \A k \in 1..Len(children[p]) - 1 :
           RemoveAt(children[p], i)[k] = children[p][IF k < i THEN k ELSE k + 1]
  BY <1>1, RemoveAtFacts
<1>5. /\ W \in [Pid -> Seq(Pid)] /\ W[p] = RemoveAt(children[p], i)
      /\ \A q \in Pid \ {p} : W[q] = children[q]
  BY <1>1, <1>4 DEF Without
<1>6. Len(children[p]) \in Nat /\ DOMAIN children[p] = 1..Len(children[p])
        /\ i \in 1..Len(children[p])
  BY <1>1
<1> HIDE DEF W
<1>7. \A q \in Pid : \A k \in DOMAIN W[q] :
        \E l \in DOMAIN children[q] :
          /\ W[q][k] = children[q][l] /\ (q = p => l # i)
          /\ l = IF q = p /\ k >= i THEN k + 1 ELSE k
  <2> SUFFICES ASSUME NEW q \in Pid, NEW k \in DOMAIN W[q]
               PROVE  \E l \in DOMAIN children[q] :
                        /\ W[q][k] = children[q][l] /\ (q = p => l # i)
                        /\ l = IF q = p /\ k >= i THEN k + 1 ELSE k
    OBVIOUS
  <2>1. CASE q = p
    <3>1. k \in 1..Len(children[p]) - 1
      BY <1>4, <1>5, <2>1
    <3>2. (IF k < i THEN k ELSE k + 1) \in DOMAIN children[p]
      BY <1>6, <3>1
    <3> DEFINE l == IF k < i THEN k ELSE k + 1
    <3>3. /\ W[q][k] = children[q][l] /\ l \in DOMAIN children[q]
      BY <1>4, <1>5, <2>1, <3>1, <3>2
    <3>4. l # i /\ l = IF q = p /\ k >= i THEN k + 1 ELSE k
      BY <1>6, <2>1, <3>1
    <3> QED
      BY <3>3, <3>4
  <2>2. CASE q # p
    <3>1. W[q] = children[q] /\ k \in Nat
      BY <1>1, <1>5, <2>2
    <3> QED
      BY <2>2, <3>1
  <2> QED
    BY <2>1, <2>2
<1>8. \A q \in Pid : ToSet(W[q]) \subseteq ToSet(children[q]) \ {n}
  BY <1>1, <1>3, <1>7 DEF ToSet
<1>9. \A q \in Pid : ToSet(children[q]) \ {n} \subseteq ToSet(W[q])
  <2> SUFFICES ASSUME NEW q \in Pid, NEW l \in DOMAIN children[q], children[q][l] # n
               PROVE  children[q][l] \in ToSet(W[q])
    BY DEF ToSet
  <2>1. CASE q # p
    BY <1>5, <2>1 DEF ToSet
  <2>2. CASE q = p
    <3>1. l # i /\ l \in 1..Len(children[p])
      BY <1>6, <2>2
    <3> DEFINE k == IF l < i THEN l ELSE l - 1
    <3>2. k \in 1..Len(children[p]) - 1 /\ l = (IF k < i THEN k ELSE k + 1)
      BY <1>6, <3>1
    <3> QED
      BY <1>4, <1>5, <2>2, <3>2 DEF ToSet
  <2> QED
    BY <2>1, <2>2
<1>10. \A q, r \in Pid : \A k \in DOMAIN W[q], l \in DOMAIN W[r] :
         W[q][k] = W[r][l] => q = r /\ k = l
  <2> SUFFICES ASSUME NEW q \in Pid, NEW r \in Pid,
                      NEW k \in DOMAIN W[q], NEW l \in DOMAIN W[r],
                      W[q][k] = W[r][l]
               PROVE  q = r /\ k = l
    OBVIOUS
  <2>1. PICK a \in DOMAIN children[q] :
          W[q][k] = children[q][a] /\ a = IF q = p /\ k >= i THEN k + 1 ELSE k
    BY <1>7
  <2>2. PICK b \in DOMAIN children[r] :
          W[r][l] = children[r][b] /\ b = IF r = p /\ l >= i THEN l + 1 ELSE l
    BY <1>7
  <2>3. q = r /\ a = b
    <3>1. children[q][a] = children[r][b]
      BY <2>1, <2>2
    <3> QED
      BY <1>3, <3>1
  <2>4. k \in Nat /\ l \in Nat /\ i \in Nat
    BY <1>5, <1>6
  <2> QED
    BY <2>1, <2>2, <2>3, <2>4
<1> QED
  BY <1>2, <1>5, <1>8, <1>9, <1>10 DEF W

\* The tree with the two links that handle_disown leaves alone.
TreeInv == TypeOK /\ SoleOwner /\ OwnerIsParentOrAdopter

\* A survivor owns no dead process: the dead without it would be a smaller set
\* with all it owns.
LEMMA SurvivorsOwn ==
  ASSUME TreeInv, Running, NEW p \in live, NEW i \in DOMAIN children[p]
  PROVE  LET W == Without(p, i)
             dead == Owned(W, children[p][i])
         IN \A q \in Pid \ dead : \A r \in ToSet(W[q]) : r \notin dead
<1> DEFINE W == Without(p, i)
           n == children[p][i]
           dead == Owned(W, n)
<1>1. TypeOK /\ SoleOwner /\ live \subseteq Pid
  BY PidFacts DEF TreeInv
<1>2. /\ n \in live \ {Root}
      /\ W \in [Pid -> Seq(Pid)]
      /\ \A q \in Pid : ToSet(W[q]) \subseteq ToSet(children[q]) \ {n}
      /\ \A q, r \in Pid : \A k \in DOMAIN W[q], l \in DOMAIN W[r] :
           W[q][k] = W[r][l] => q = r /\ k = l
  BY <1>1, WithoutFacts
<1> HIDE DEF n, W
<1>3. /\ n \in dead /\ dead \subseteq Pid
      /\ \A r \in dead : ToSet(W[r]) \subseteq dead
      /\ \A S \in SUBSET Pid :
           n \in S /\ (\A r \in S : ToSet(W[r]) \subseteq S) => dead \subseteq S
  BY <1>1, <1>2, OwnedFacts
<1> HIDE DEF dead
<1>4. ASSUME NEW q \in Pid \ dead, NEW r \in ToSet(W[q]), r \in dead PROVE FALSE
  <2>1. r # n
    BY <1>2, <1>4
  <2>2. PICK s \in dead \ {r} : r \in ToSet(W[s])
    <3>1. n \in dead \ {r} /\ dead \ {r} \in SUBSET Pid
      BY <1>3, <2>1
    <3>2. ~(dead \subseteq dead \ {r})
      BY <1>4
    <3>3. PICK s \in dead \ {r} : ~(ToSet(W[s]) \subseteq dead \ {r})
      BY <1>3, <3>1, <3>2
    <3> QED
      BY <1>3, <3>3
  <2>3. PICK k \in DOMAIN W[q] : W[q][k] = r
    BY <1>4 DEF ToSet
  <2>4. PICK l \in DOMAIN W[s] : W[s][l] = r
    BY <2>2 DEF ToSet
  <2>5. q = s
    BY <1>2, <1>3, <2>2, <2>3, <2>4
  <2> QED
    BY <1>4, <2>2, <2>5
<1> QED
  BY <1>4 DEF W, n, dead

\* Deleting a process with all it owns leaves a tree: no survivor is owned
\* from below, and none loses its owner.
LEMMA KillKeepsTree ==
  ASSUME TreeInv, Running, NEW p \in live, NEW i \in DOMAIN children[p],
         Kill(p, Without(p, i), Owned(Without(p, i), children[p][i]))
  PROVE  SoleOwner' /\ OwnerIsParentOrAdopter'
<1> DEFINE W == Without(p, i)
           n == children[p][i]
           dead == Owned(W, n)
<1>1. TypeOK /\ SoleOwner /\ live \subseteq Pid
  BY PidFacts DEF TreeInv
<1>2. /\ n \in live \ {Root}
      /\ W \in [Pid -> Seq(Pid)]
      /\ \A q \in Pid : ToSet(W[q]) \subseteq ToSet(children[q]) \ {n}
      /\ \A q \in Pid : ToSet(children[q]) \ {n} \subseteq ToSet(W[q])
      /\ \A q, r \in Pid : \A k \in DOMAIN W[q], l \in DOMAIN W[r] :
           W[q][k] = W[r][l] => q = r /\ k = l
  BY <1>1, WithoutFacts
<1> HIDE DEF n, W
<1>3. /\ n \in dead /\ dead \subseteq Pid
      /\ \A r \in dead : ToSet(W[r]) \subseteq dead
      /\ \A S \in SUBSET Pid :
           n \in S /\ (\A r \in S : ToSet(W[r]) \subseteq S) => dead \subseteq S
  BY <1>1, <1>2, OwnedFacts
<1>4. /\ live' = live \ dead
      /\ children' = [q \in Pid |-> IF q \in dead THEN <<>> ELSE W[q]]
      /\ parent' = [q \in Pid |-> IF q \in dead THEN Root ELSE parent[q]]
      /\ adopter' = [q \in Pid |-> IF q \in dead THEN NoPid ELSE adopter[q]]
  BY DEF Kill, W, n
<1> HIDE DEF dead
\* Lists hold live processes only, and never the root.
<1>5. \A q \in Pid : ToSet(children[q]) \subseteq live \ {Root}
  BY <1>1 DEF SoleOwner, OwnedLive, DeadOwnNothing, ToSet, Running
<1>6. dead \subseteq live \ {Root}
  BY <1>1, <1>2, <1>3, <1>5
<1>7. \A q \in Pid \ dead : \A r \in ToSet(W[q]) : r \notin dead
  BY SurvivorsOwn DEF W, n, dead
<1>8. \A q \in live' : q \in Pid \ dead /\ children'[q] = W[q]
  BY <1>1, <1>4
<1>9. OwnedLive'
  BY <1>2, <1>4, <1>5, <1>7, <1>8 DEF OwnedLive
<1>10. OwnedOnce'
  BY <1>2, <1>8 DEF OwnedOnce
<1>11. DeadOwnNothing'
  <2> SUFFICES ASSUME NEW q \in Pid \ live' PROVE children'[q] = <<>>
    BY DEF DeadOwnNothing
  <2>1. CASE q \in dead
    BY <1>4, <2>1
  <2>2. CASE q \notin dead
    <3>1. children[q] = <<>> /\ q \in Pid \ live
      BY <1>1, <1>4, <2>2 DEF SoleOwner, DeadOwnNothing
    <3>2. p \in Pid /\ q # p
      BY <1>1, <3>1
    <3> QED
      BY <1>1, <1>4, <2>2, <3>1, <3>2 DEF W, Without, TypeOK
  <2> QED
    BY <2>1, <2>2
<1>12. HasOwner'
  <2> SUFFICES ASSUME NEW q \in live' \ {Root}
               PROVE  \E o \in live' : q \in ToSet(children'[o])
    BY DEF HasOwner
  <2>1. q \in live \ {Root} /\ q \notin dead /\ q # n
    BY <1>3, <1>4
  <2>2. PICK o \in live : q \in ToSet(children[o])
    BY <1>1, <2>1 DEF SoleOwner, HasOwner
  <2>3. q \in ToSet(W[o]) /\ o \in Pid
    BY <1>1, <1>2, <2>1, <2>2
  <2>4. o \notin dead
    BY <1>3, <2>1, <2>3
  <2> QED
    BY <1>4, <1>8, <2>2, <2>3, <2>4
<1>13. Root \in live'
  BY <1>1, <1>4, <1>6 DEF SoleOwner
<1>14. OwnerIsParentOrAdopter'
  <2> SUFFICES ASSUME NEW o \in live', NEW k \in DOMAIN children'[o]
               PROVE  o \in {parent'[children'[o][k]], adopter'[children'[o][k]]}
    BY DEF OwnerIsParentOrAdopter
  <2> DEFINE c == children'[o][k]
  <2>1. c \in ToSet(W[o]) /\ o \in Pid \ dead /\ o \in live
    BY <1>4, <1>8 DEF ToSet
  <2>2. c \in Pid \ dead
    BY <1>1, <1>2, <1>5, <1>7, <2>1
  <2>3. c \in ToSet(children[o])
    BY <1>2, <2>1
  <2>4. o \in {parent[c], adopter[c]}
    BY <2>1, <2>3 DEF TreeInv, OwnerIsParentOrAdopter, ToSet
  <2> QED
    BY <1>4, <2>2, <2>4
<1> QED
  BY <1>9, <1>10, <1>11, <1>12, <1>13, <1>14 DEF SoleOwner

\* V is W with x behind the list of h; everybody else keeps their place.
Grown(V, W, h, x) ==
  /\ V \in [Pid -> Seq(Pid)]
  /\ \A q \in Pid : ToSet(W[q]) \subseteq ToSet(V[q])
  /\ x \in ToSet(V[h])
  /\ \A q \in Pid : \A k \in DOMAIN V[q] :
       \/ k \in DOMAIN W[q] /\ V[q][k] = W[q][k]
       \/ q = h /\ k = Len(W[h]) + 1 /\ V[q][k] = x

Added(W, h, x) == [W EXCEPT ![h] = Append(W[h], x)]

\* What linked_list::push_back does to the lists.
LEMMA AppendFacts ==
  ASSUME NEW W \in [Pid -> Seq(Pid)], NEW h \in Pid, NEW x \in Pid
  PROVE  Grown(Added(W, h, x), W, h, x)
<1> DEFINE V == Added(W, h, x)
<1>1. /\ Append(W[h], x) \in Seq(Pid) /\ Len(W[h]) \in Nat
      /\ DOMAIN Append(W[h], x) = 1..Len(W[h]) + 1
      /\ DOMAIN W[h] = 1..Len(W[h])
      /\ \A k \in 1..Len(W[h]) : Append(W[h], x)[k] = W[h][k]
      /\ Append(W[h], x)[Len(W[h]) + 1] = x
  BY AppendProperties
<1>2. /\ V \in [Pid -> Seq(Pid)] /\ V[h] = Append(W[h], x)
      /\ \A q \in Pid \ {h} : V[q] = W[q]
  BY <1>1 DEF Added
<1> HIDE DEF V
<1>3. ASSUME NEW q \in Pid, NEW k \in DOMAIN V[q]
      PROVE  \/ k \in DOMAIN W[q] /\ V[q][k] = W[q][k]
             \/ q = h /\ k = Len(W[h]) + 1 /\ V[q][k] = x
  <2>1. CASE q # h
    BY <1>2, <2>1
  <2>2. CASE q = h
    <3>1. k \in 1..Len(W[h]) \/ k = Len(W[h]) + 1
      BY <1>1, <1>2, <2>2
    <3> QED
      BY <1>1, <1>2, <2>2, <3>1
  <2> QED
    BY <2>1, <2>2
<1>4. x \in ToSet(V[h])
  <2> DEFINE k == Len(W[h]) + 1
  <2>1. k \in DOMAIN V[h] /\ V[h][k] = x
    BY <1>1, <1>2
  <2> HIDE DEF k
  <2> QED
    BY <2>1, InToSet
<1>5. ASSUME NEW q \in Pid PROVE ToSet(W[q]) \subseteq ToSet(V[q])
  <2>1. CASE q # h
    BY <1>2, <2>1
  <2>2. CASE q = h
    <3>1. \A k \in DOMAIN W[h] : k \in DOMAIN V[h] /\ V[h][k] = W[h][k]
      BY <1>1, <1>2
    <3> QED
      BY <2>2, <3>1 DEF ToSet
  <2> QED
    BY <2>1, <2>2
<1> QED
  BY <1>2, <1>3, <1>4, <1>5 DEF V, Grown

\* A hand-over moves one entry from the caller's list to the heir's.
LEMMA HandOverKeepsTree ==
  ASSUME TreeInv, Running, NEW p \in live, NEW i \in DOMAIN children[p],
         Adopted(children[p][i]),
         HandOver(Without(p, i), adopter[children[p][i]], children[p][i])
  PROVE  SoleOwner' /\ OwnerIsParentOrAdopter'
<1> DEFINE W == Without(p, i)
           n == children[p][i]
           heir == adopter[n]
<1>1. TypeOK /\ SoleOwner /\ live \subseteq Pid
  BY PidFacts DEF TreeInv
<1>2. /\ n \in live \ {Root}
      /\ W \in [Pid -> Seq(Pid)]
      /\ \A q \in Pid : ToSet(W[q]) \subseteq ToSet(children[q]) \ {n}
      /\ \A q \in Pid : ToSet(children[q]) \ {n} \subseteq ToSet(W[q])
      /\ \A q, r \in Pid : \A k \in DOMAIN W[q], l \in DOMAIN W[r] :
           W[q][k] = W[r][l] => q = r /\ k = l
  BY <1>1, WithoutFacts
<1>3. heir \in live
  BY DEF Adopted
<1>4. /\ children' = [W EXCEPT ![heir] = Append(W[heir], n)]
      /\ UNCHANGED <<live, parent, adopter>>
  BY DEF HandOver
<1> HIDE DEF W, n, heir
<1>5. /\ children' \in [Pid -> Seq(Pid)]
      /\ \A q \in Pid : ToSet(W[q]) \subseteq ToSet(children'[q])
      /\ n \in ToSet(children'[heir])
      /\ \A q \in Pid : \A k \in DOMAIN children'[q] :
           \/ k \in DOMAIN W[q] /\ children'[q][k] = W[q][k]
           \/ q = heir /\ k = Len(W[heir]) + 1 /\ children'[q][k] = n
  <2>1. heir \in Pid /\ n \in Pid
    BY <1>1, <1>2, <1>3
  <2>2. children' = Added(W, heir, n)
    BY <1>4 DEF Added
  <2>3. Grown(Added(W, heir, n), W, heir, n)
    BY <1>2, <2>1, AppendFacts
  <2> QED
    BY <2>2, <2>3 DEF Grown
<1>6. \A q \in Pid : \A k \in DOMAIN W[q] : W[q][k] # n
  BY <1>2, InToSet
<1>7. HasOwner'
  <2> SUFFICES ASSUME NEW q \in live \ {Root}
               PROVE  \E o \in live : q \in ToSet(children'[o])
    BY <1>4 DEF HasOwner
  <2>1. CASE q = n
    BY <1>3, <1>5, <2>1
  <2>2. CASE q # n
    <3>1. PICK o \in live : q \in ToSet(children[o])
      BY <1>1 DEF SoleOwner, HasOwner
    <3> QED
      BY <1>1, <1>2, <1>5, <2>2, <3>1
  <2> QED
    BY <2>1, <2>2
<1>8. OwnedOnce'
  BY <1>1, <1>2, <1>4, <1>5, <1>6 DEF OwnedOnce
<1>9. OwnedLive'
  <2> SUFFICES ASSUME NEW q \in live, NEW k \in DOMAIN children'[q]
               PROVE  children'[q][k] \in live \ {Root}
    BY <1>4 DEF OwnedLive, ToSet
  <2>1. CASE k \in DOMAIN W[q] /\ children'[q][k] = W[q][k]
    <3>1. W[q][k] \in ToSet(children[q])
      BY <1>1, <1>2, <2>1, InToSet
    <3> QED
      BY <1>1, <2>1, <3>1 DEF SoleOwner, OwnedLive
  <2> QED
    BY <1>1, <1>2, <1>5, <2>1
<1>10. DeadOwnNothing'
  <2> SUFFICES ASSUME NEW q \in Pid \ live PROVE children'[q] = <<>>
    BY <1>4 DEF DeadOwnNothing
  <2>1. q # heir /\ q # p
    BY <1>3
  <2>2. W[q] = children[q]
    BY <1>1, <2>1 DEF W, Without, TypeOK
  <2> QED
    BY <1>1, <1>4, <1>2, <2>1, <2>2 DEF SoleOwner, DeadOwnNothing
<1>11. OwnerIsParentOrAdopter'
  <2> SUFFICES ASSUME NEW o \in live, NEW k \in DOMAIN children'[o]
               PROVE  o \in {parent[children'[o][k]], adopter[children'[o][k]]}
    BY <1>4 DEF OwnerIsParentOrAdopter
  <2>1. CASE k \in DOMAIN W[o] /\ children'[o][k] = W[o][k]
    <3>1. W[o][k] \in ToSet(children[o])
      BY <1>1, <1>2, <2>1, InToSet
    <3> QED
      BY <2>1, <3>1, InToSet DEF TreeInv, OwnerIsParentOrAdopter
  <2>2. CASE o = heir /\ children'[o][k] = n
    BY <2>2 DEF heir
  <2> QED
    BY <1>1, <1>5, <2>1, <2>2
<1> QED
  BY <1>1, <1>4, <1>7, <1>8, <1>9, <1>10, <1>11 DEF SoleOwner

\* A new child hangs under its creator, and owns nothing yet.
LEMMA CreateKeepsTree ==
  ASSUME TreeInv, Running, NEW p \in live, CreateChild(p), kernel' = "running"
  PROVE  SoleOwner' /\ OwnerIsParentOrAdopter'
<1>1. TypeOK /\ SoleOwner /\ live \subseteq Pid /\ p \in Pid
  BY PidFacts DEF TreeInv
<1>2. nextPid \in Pid /\ nextPid \notin live /\ nextPid # Root
  BY <1>1, PidFacts DEF CreateChild
<1>3. /\ live' = live \cup {nextPid}
      /\ parent' = [parent EXCEPT ![nextPid] = p]
      /\ children' = [children EXCEPT ![p] = Append(children[p], nextPid)]
      /\ adopter' = adopter
  BY DEF CreateChild, Running
<1>4. /\ \A q \in Pid : ToSet(children[q]) \subseteq ToSet(children'[q])
      /\ nextPid \in ToSet(children'[p])
      /\ \A q \in Pid : \A k \in DOMAIN children'[q] :
           \/ k \in DOMAIN children[q] /\ children'[q][k] = children[q][k]
           \/ q = p /\ k = Len(children[p]) + 1 /\ children'[q][k] = nextPid
  <2>1. children \in [Pid -> Seq(Pid)] /\ p \in Pid /\ nextPid \in Pid
    BY <1>1, <1>2 DEF TypeOK
  <2>2. children' = Added(children, p, nextPid)
    BY <1>3 DEF Added
  <2>3. Grown(Added(children, p, nextPid), children, p, nextPid)
    BY <2>1, AppendFacts
  <2> QED
    BY <2>2, <2>3 DEF Grown
<1>5. children[nextPid] = <<>> /\ children'[nextPid] = <<>> /\ nextPid # p
  BY <1>1, <1>2, <1>3 DEF SoleOwner, DeadOwnNothing, TypeOK
<1>6. \A q \in live : \A k \in DOMAIN children[q] : children[q][k] \in live \ {Root}
  BY <1>1 DEF SoleOwner, OwnedLive, ToSet
<1>7. HasOwner'
  BY <1>1, <1>3, <1>4 DEF SoleOwner, HasOwner
<1>8. OwnedOnce'
  BY <1>1, <1>2, <1>3, <1>4, <1>5, <1>6 DEF SoleOwner, OwnedOnce
<1>9. OwnedLive'
  BY <1>1, <1>2, <1>3, <1>4, <1>5, <1>6 DEF OwnedLive, ToSet
<1>10. DeadOwnNothing'
  BY <1>1, <1>3, <1>5 DEF SoleOwner, DeadOwnNothing, TypeOK
<1>11. OwnerIsParentOrAdopter'
  <2> SUFFICES ASSUME NEW o \in live', NEW k \in DOMAIN children'[o]
               PROVE  o \in {parent'[children'[o][k]], adopter'[children'[o][k]]}
    BY DEF OwnerIsParentOrAdopter
  <2>1. o \in live
    BY <1>3, <1>5
  <2>2. CASE k \in DOMAIN children[o] /\ children'[o][k] = children[o][k]
    <3>1. children[o][k] # nextPid /\ children[o][k] \in Pid
      BY <1>1, <1>2, <1>6, <2>1, <2>2
    <3>2. o \in {parent[children[o][k]], adopter[children[o][k]]}
      BY <2>1, <2>2 DEF TreeInv, OwnerIsParentOrAdopter
    <3> QED
      BY <1>1, <1>3, <2>2, <3>1, <3>2 DEF TypeOK
  <2>3. CASE o = p /\ children'[o][k] = nextPid
    BY <1>1, <1>2, <1>3, <2>3 DEF TypeOK
  <2> QED
    BY <1>1, <1>4, <2>1, <2>2, <2>3
<1> QED
  BY <1>1, <1>3, <1>7, <1>8, <1>9, <1>10, <1>11 DEF SoleOwner

\* An adoption is refused while the last adopter lives, so it never rewrites
\* the link of a process to an owner that is not its parent.
LEMMA AdoptKeepsTree ==
  ASSUME TreeInv, Running, NEW p \in live, NEW d \in Descriptors,
         Adopt(p, d), kernel' = "running"
  PROVE  SoleOwner' /\ OwnerIsParentOrAdopter'
<1> DEFINE t == Target(p, d)
<1>1. ~LookupFails(p, {d})
  BY DEF LookupFails
<1>2. /\ adopter[t] \notin live
      /\ adopter' = [adopter EXCEPT ![t] = p]
      /\ UNCHANGED <<live, parent, children>>
  BY <1>1 DEF Adopt, HasAdopter
<1> HIDE DEF t
<1>3. TypeOK /\ SoleOwner /\ live \subseteq Pid
  BY PidFacts DEF TreeInv
<1>4. SoleOwner'
  BY <1>2, <1>3 DEF SoleOwner, HasOwner, OwnedOnce, OwnedLive, DeadOwnNothing
<1>5. OwnerIsParentOrAdopter'
  <2> SUFFICES ASSUME NEW o \in live, NEW k \in DOMAIN children[o]
               PROVE  o \in {parent[children[o][k]], adopter'[children[o][k]]}
    BY <1>2 DEF OwnerIsParentOrAdopter
  <2>1. o \in {parent[children[o][k]], adopter[children[o][k]]}
    BY DEF TreeInv, OwnerIsParentOrAdopter
  <2>2. children[o][k] \in Pid
    BY <1>3 DEF SoleOwner, OwnedLive, ToSet
  <2> QED
    BY <1>2, <1>3, <2>1, <2>2 DEF TypeOK
<1> QED
  BY <1>4, <1>5

\* Whatever the processes call, every live process but the root is owned by
\* exactly one live process, and no list owns a dead one; the owner is the
\* process that made it or the one that last asked to adopt it.
THEOREM TreeCorrect == Spec => [](SoleOwner /\ OwnerIsParentOrAdopter)
<1>1. Init => SoleOwner /\ OwnerIsParentOrAdopter
  <2> SUFFICES ASSUME Init PROVE SoleOwner /\ OwnerIsParentOrAdopter
    OBVIOUS
  <2>1. /\ live = {Root, MainPid} /\ Root # MainPid /\ Root \in Pid /\ MainPid \in Pid
        /\ children[Root] = <<MainPid>> /\ parent[MainPid] = Root
        /\ \A q \in Pid \ {Root} : children[q] = <<>>
    BY PidFacts DEF Init
  <2>2. DOMAIN children[Root] = {1} /\ children[Root][1] = MainPid
    BY <2>1
  <2> QED
    BY <2>1, <2>2 DEF SoleOwner, HasOwner, OwnedOnce, OwnedLive,
                      DeadOwnNothing, OwnerIsParentOrAdopter, ToSet
<1>2. TreeInv /\ TypeOK' /\ [Next]_vars => (SoleOwner /\ OwnerIsParentOrAdopter)'
  <2> SUFFICES ASSUME TreeInv, [Next]_vars
               PROVE  SoleOwner' /\ OwnerIsParentOrAdopter'
    OBVIOUS
  <2>1. CASE kernel' # "running"
    BY <2>1 DEF SoleOwner, OwnerIsParentOrAdopter, Running
  <2>2. CASE kernel' = "running" /\ UNCHANGED <<live, children, parent, adopter, kernel>>
    BY <2>2 DEF TreeInv, SoleOwner, HasOwner, OwnedOnce, OwnedLive,
                DeadOwnNothing, OwnerIsParentOrAdopter, Running
  <2>3. ASSUME NEW p \in live, Syscall(p), kernel' = "running"
        PROVE  SoleOwner' /\ OwnerIsParentOrAdopter'
    <3>1. Running
      BY <2>3 DEF Syscall, Running
    <3>2. ASSUME NEW ds PROVE ~LookupFails(p, ds)
      BY <2>3 DEF LookupFails
    <3>3. ASSUME NEW n \in Pid, DisownChild(p, n)
          PROVE  SoleOwner' /\ OwnerIsParentOrAdopter'
      <4>1. PICK i \in DOMAIN children[p] :
              /\ FirstAt(children[p], n, i)
              /\ IF Adopted(n) THEN HandOver(Without(p, i), adopter[n], n)
                 ELSE Kill(p, Without(p, i), Owned(Without(p, i), n))
        BY <3>3 DEF DisownChild
      <4>2. n = children[p][i]
        BY <4>1 DEF FirstAt
      <4>3. CASE Adopted(n)
        BY <3>1, <4>1, <4>2, <4>3, HandOverKeepsTree
      <4>4. CASE ~Adopted(n)
        BY <3>1, <4>1, <4>2, <4>4, KillKeepsTree
      <4> QED
        BY <4>3, <4>4
    <3>4. ASSUME NEW n \in Pid,
                 DisownFriend(p, n) \/ DisownPending(p, n) \/ DisownFaults(p, n)
          PROVE  SoleOwner' /\ OwnerIsParentOrAdopter'
      BY <2>2, <2>3, <3>1, <3>4
      DEF DisownFriend, DisownPending, DisownFaults, lists, Running
    <3>5. ASSUME NEW d \in Descriptors, Adopt(p, d)
          PROVE  SoleOwner' /\ OwnerIsParentOrAdopter'
      BY <2>3, <3>1, <3>5, AdoptKeepsTree
    <3>6. ASSUME NEW a, NEW b, MakeFriend(p, a, b)
          PROVE  SoleOwner' /\ OwnerIsParentOrAdopter'
      BY <2>2, <2>3, <3>2, <3>6 DEF MakeFriend
    <3>7. ASSUME CreateChild(p) PROVE SoleOwner' /\ OwnerIsParentOrAdopter'
      BY <2>3, <3>1, <3>7, CreateKeepsTree
    <3>8. ASSUME NEW d, ListProcesses(p, d)
          PROVE  SoleOwner' /\ OwnerIsParentOrAdopter'
      BY <2>2, <2>3, <3>2, <3>8 DEF ListProcesses
    <3> QED
      BY <2>3, <3>3, <3>4, <3>5, <3>6, <3>7, <3>8 DEF Syscall, Disown
  <2>4. ASSUME NEW p \in Threads, Syscall(p) PROVE p \in live
    BY <2>4 DEF Syscall
  <2> QED
    BY <2>1, <2>2, <2>3, <2>4 DEF Next, Stopped, vars
<1> QED
  BY <1>1, <1>2, TypeCorrect, PTL DEF Spec, TreeInv

-----------------------------------------------------------------------------
(* Adoption *)

\* DisownChild takes the child away from p, and hands it over or deletes it.
LEMMA DisownKeepsAdopted ==
  ASSUME TreeInv, Running, NEW p \in live, NEW n \in Pid, DisownChild(p, n),
         NEW o \in live, NEW c \in ToSet(children[o]), Waits(c), o \in live'
  PROVE  c \in live' /\ \E q \in {o, adopter[c]} : c \in ToSet(children'[q])
<1>1. PICK i \in DOMAIN children[p] :
        /\ FirstAt(children[p], n, i)
        /\ IF Adopted(n) THEN HandOver(Without(p, i), adopter[n], n)
           ELSE Kill(p, Without(p, i), Owned(Without(p, i), n))
  BY DEF DisownChild
<1> DEFINE W == Without(p, i)
<1>2. n = children[p][i]
  BY <1>1 DEF FirstAt
<1>3. TypeOK /\ SoleOwner /\ live \subseteq Pid /\ c \in live
  BY PidFacts DEF TreeInv, SoleOwner, OwnedLive
<1>4. /\ W \in [Pid -> Seq(Pid)]
      /\ \A q \in Pid : ToSet(children[q]) \ {n} \subseteq ToSet(W[q])
  BY <1>2, <1>3, WithoutFacts
<1>5. CASE Adopted(n)
  <2>1. /\ children' = [W EXCEPT ![adopter[n]] = Append(W[adopter[n]], n)]
        /\ live' = live /\ adopter[n] \in Pid
    BY <1>1, <1>3, <1>5 DEF HandOver, Adopted
  <2> HIDE DEF W
  <2>2. /\ \A q \in Pid : ToSet(W[q]) \subseteq ToSet(children'[q])
        /\ n \in ToSet(children'[adopter[n]])
    <3>1. Grown(Added(W, adopter[n], n), W, adopter[n], n)
      BY <1>4, <2>1, AppendFacts
    <3> QED
      BY <2>1, <3>1 DEF Grown, Added
  <2>3. CASE c = n
    BY <1>3, <2>1, <2>2, <2>3
  <2>4. CASE c # n
    BY <1>3, <1>4, <2>1, <2>2, <2>4
  <2> QED
    BY <2>3, <2>4
<1>6. CASE ~Adopted(n)
  <2> DEFINE dead == Owned(W, n)
  <2>1. /\ live' = live \ dead
        /\ children' = [q \in Pid |-> IF q \in dead THEN <<>> ELSE W[q]]
    BY <1>1, <1>6 DEF Kill
  <2>2. \A q \in Pid \ dead : \A r \in ToSet(W[q]) : r \notin dead
    BY <1>2, SurvivorsOwn
  <2> HIDE DEF W, dead
  <2>3. c # n
    BY <1>6 DEF Waits, Adopted
  <2>4. o \in Pid \ dead /\ c \in ToSet(W[o])
    BY <1>3, <1>4, <2>1, <2>3
  <2>5. c \in live' /\ children'[o] = W[o]
    BY <1>3, <2>1, <2>2, <2>4
  <2> QED
    BY <2>4, <2>5
<1> QED
  BY <1>5, <1>6

\* AdoptionHolds: for any number of processes and any calls, a process that
\* waits to be adopted outlives its owner's letting go of it, in the list of
\* its adopter.
THEOREM AdoptionHolds == Spec => AdoptedSurvives
<1>1. TreeInv /\ [Next]_vars =>
        [\A o \in live : \A i \in DOMAIN children[o] :
           LET c == children[o][i]
           IN Waits(c) /\ o \in live' /\ kernel' = "running" =>
                /\ c \in live'
                /\ \E q \in {o, adopter[c]} : c \in ToSet(children'[q])]_vars
  <2> SUFFICES ASSUME TreeInv, Next, NEW o \in live, NEW i \in DOMAIN children[o],
                      Waits(children[o][i]), o \in live', kernel' = "running"
               PROVE  /\ children[o][i] \in live'
                      /\ \E q \in {o, adopter[children[o][i]]} :
                           children[o][i] \in ToSet(children'[q])
    OBVIOUS
  <2> DEFINE c == children[o][i]
  <2>1. c \in ToSet(children[o])
    BY DEF ToSet
  <2>2. PICK p \in live : Syscall(p) /\ kernel = "running"
    BY DEF Next, Stopped, vars, Syscall
  <2>3. TypeOK /\ SoleOwner /\ live \subseteq Pid /\ c \in live
    BY <2>1, <2>2, PidFacts DEF TreeInv, SoleOwner, OwnedLive, Running
  <2> HIDE DEF c
  <2>4. ASSUME live \subseteq live', ToSet(children[o]) \subseteq ToSet(children'[o])
        PROVE  c \in live' /\ \E q \in {o, adopter[c]} : c \in ToSet(children'[q])
    BY <2>1, <2>3, <2>4
  <2>5. ASSUME NEW ds PROVE ~LookupFails(p, ds)
    BY DEF LookupFails
  <2>6. ASSUME NEW n \in Pid, DisownChild(p, n)
        PROVE  c \in live' /\ \E q \in {o, adopter[c]} : c \in ToSet(children'[q])
    BY <2>1, <2>2, <2>6, DisownKeepsAdopted DEF Running, c
  <2>7. ASSUME UNCHANGED <<live, children>>
        PROVE  c \in live' /\ \E q \in {o, adopter[c]} : c \in ToSet(children'[q])
    BY <2>4, <2>7
  <2>8. ASSUME CreateChild(p)
        PROVE  c \in live' /\ \E q \in {o, adopter[c]} : c \in ToSet(children'[q])
    <3>1. nextPid \in Pid /\ p \in Pid /\ children \in [Pid -> Seq(Pid)]
      BY <2>3, <2>8, PidFacts DEF CreateChild, TypeOK
    <3>2. \/ UNCHANGED children
          \/ children' = Added(children, p, nextPid)
      BY <2>8 DEF CreateChild, Added
    <3>3. Grown(Added(children, p, nextPid), children, p, nextPid)
      BY <3>1, AppendFacts
    <3>4. ToSet(children[o]) \subseteq ToSet(children'[o]) /\ live \subseteq live'
      BY <2>3, <2>8, <3>2, <3>3 DEF Grown, CreateChild
    <3> QED
      BY <2>4, <3>4
  <2>9. ASSUME NEW n \in Pid, DisownFriend(p, n) \/ DisownPending(p, n) \/ DisownFaults(p, n)
        PROVE  UNCHANGED <<live, children>>
    BY <2>9 DEF DisownFriend, DisownPending, DisownFaults, lists
  <2>10. ASSUME NEW d \in Descriptors, Adopt(p, d) PROVE UNCHANGED <<live, children>>
    BY <2>5, <2>10 DEF Adopt
  <2>11. ASSUME NEW a, NEW b, MakeFriend(p, a, b) PROVE UNCHANGED <<live, children>>
    BY <2>5, <2>11 DEF MakeFriend
  <2>12. ASSUME NEW d, ListProcesses(p, d) PROVE UNCHANGED <<live, children>>
    BY <2>5, <2>12 DEF ListProcesses
  <2> QED
    BY <2>2, <2>6, <2>7, <2>8, <2>9, <2>10, <2>11, <2>12 DEF Syscall, Disown, c
<1>2. Spec => []TreeInv
  BY TreeCorrect, TypeCorrect, PTL DEF TreeInv
<1> QED
  BY <1>1, <1>2, PTL DEF Spec, AdoptedSurvives

-----------------------------------------------------------------------------
(* Both sides of an adoption that waits *)

\* Lists of weak references are thinned in three ways (linked_list::remove in
\* disown and handle_disown, cleanup_dead); each entry that stays is another
\* entry of the list before.
Thins(new, old) ==
  \E from \in [DOMAIN new -> DOMAIN old] :
    /\ \A k \in DOMAIN new : new[k] = old[from[k]]
    /\ \A k, l \in DOMAIN new : from[k] = from[l] => k = l

\* The lists name processes that have a pid, and only the living have lists.
PendingKnown ==
  Running =>
    /\ \A p \in live : \A i \in DOMAIN pending[p] : pending[p][i] \in 0..nextPid - 1
    /\ \A p \in Pid \ live : pending[p] = <<>>

LEMMA RemoveAtThins ==
  ASSUME NEW s \in Seq(Pid), NEW i \in DOMAIN s
  PROVE  /\ Thins(RemoveAt(s, i), s)
         /\ \A k \in DOMAIN RemoveAt(s, i) :
              \E l \in DOMAIN s \ {i} : RemoveAt(s, i)[k] = s[l]
<1> DEFINE from == [k \in DOMAIN RemoveAt(s, i) |-> IF k < i THEN k ELSE k + 1]
<1>1. /\ DOMAIN RemoveAt(s, i) = 1..Len(s) - 1
      /\ \A k \in 1..Len(s) - 1 :
           RemoveAt(s, i)[k] = s[IF k < i THEN k ELSE k + 1]
  BY RemoveAtFacts
<1>2. i \in 1..Len(s) /\ Len(s) \in Nat /\ DOMAIN s = 1..Len(s)
  OBVIOUS
<1>3. /\ from \in [DOMAIN RemoveAt(s, i) -> DOMAIN s \ {i}]
      /\ \A k \in DOMAIN RemoveAt(s, i) : RemoveAt(s, i)[k] = s[from[k]]
      /\ \A k, l \in DOMAIN RemoveAt(s, i) : from[k] = from[l] => k = l
  BY <1>1, <1>2
<1>4. from \in [DOMAIN RemoveAt(s, i) -> DOMAIN s]
  BY <1>3
<1> HIDE DEF from
<1> QED
  BY <1>3, <1>4 DEF Thins

LEMMA KeptThins ==
  ASSUME NEW s \in Seq(Pid), NEW at \in LivePlaces(s)
  PROVE  Thins(Kept(s, at), s)
<1>1. PICK n \in 0..Len(s) : at \in [1..n -> DOMAIN s]
  BY DEF LivePlaces
<1>2. DOMAIN Kept(s, at) = 1..n /\ \A k \in 1..n : Kept(s, at)[k] = s[at[k]]
  BY <1>1 DEF Kept
<1>3. \A k, l \in 1..n : at[k] = at[l] => k = l
  <2>1. \A k, l \in 1..n : k < l => at[k] < at[l]
    BY <1>1 DEF LivePlaces
  <2>2. DOMAIN s \subseteq Nat /\ \A k \in 1..n : at[k] \in Nat
    BY <1>1
  <2> QED
    BY <2>1, <2>2
<1> QED
  BY <1>1, <1>2, <1>3 DEF Thins

\* One list of a living process is thinned, and nothing else changes of what
\* the two sides say.
LEMMA ThinningKeeps ==
  ASSUME TypeOK, Running, PendingMatchesAdopter, PendingKnown,
         NEW h \in live, NEW s, Thins(s, pending[h]),
         pending' = [pending EXCEPT ![h] = s],
         UNCHANGED <<live, adopter, stale, nextPid>>
  PROVE  PendingMatchesAdopter' /\ PendingKnown'
<1>1. /\ \A q \in Pid \ {h} : pending'[q] = pending[q]
      /\ pending'[h] = s /\ h \in Pid /\ live \subseteq Pid
  BY PidFacts DEF TypeOK
<1>2. PICK from \in [DOMAIN s -> DOMAIN pending[h]] :
        /\ \A k \in DOMAIN s : s[k] = pending[h][from[k]]
        /\ \A k, l \in DOMAIN s : from[k] = from[l] => k = l
  BY DEF Thins
<1>3. PendingMatchesAdopter'
  <2> SUFFICES ASSUME NEW p \in live, NEW i \in DOMAIN pending'[p], pending'[p][i] \in live
               PROVE  /\ adopter[pending'[p][i]] = p /\ pending'[p][i] \notin stale
                      /\ \A j \in DOMAIN pending'[p] : pending'[p][j] = pending'[p][i] => j = i
    BY DEF PendingMatchesAdopter
  <2>1. CASE p # h
    BY <1>1, <2>1 DEF PendingMatchesAdopter
  <2>2. CASE p = h
    <3>1. from[i] \in DOMAIN pending[h] /\ pending[h][from[i]] = s[i]
      BY <1>1, <1>2, <2>2
    <3>2. /\ adopter[s[i]] = h /\ s[i] \notin stale
          /\ \A j \in DOMAIN pending[h] : pending[h][j] = s[i] => j = from[i]
      BY <1>1, <2>2, <3>1 DEF PendingMatchesAdopter
    <3> QED
      BY <1>1, <1>2, <2>2, <3>2
  <2> QED
    BY <2>1, <2>2
<1>4. PendingKnown'
  <2>1. ASSUME NEW p \in live, NEW i \in DOMAIN pending'[p]
        PROVE  pending'[p][i] \in 0..nextPid - 1
    BY <1>1, <1>2 DEF PendingKnown
  <2>2. \A p \in Pid \ live : pending'[p] = <<>>
    BY <1>1 DEF PendingKnown
  <2> QED
    BY <2>1, <2>2 DEF PendingKnown
<1> QED
  BY <1>3, <1>4

\* adopt: nobody who lives waits for a process without a living adopter.
LEMMA AdoptKeepsPending ==
  ASSUME TypeOK, Running, PendingMatchesAdopter, PendingKnown,
         NEW p \in live, NEW d \in Descriptors, Adopt(p, d), kernel' = "running"
  PROVE  PendingMatchesAdopter' /\ PendingKnown'
<1> DEFINE t == Target(p, d)
<1>1. ~LookupFails(p, {d})
  BY DEF LookupFails
<1>2. /\ Lookup(p, d) = "found" /\ t # p /\ adopter[t] \notin live
      /\ adopter' = [adopter EXCEPT ![t] = p] /\ stale' = stale \ {t}
      /\ pending' = [pending EXCEPT ![p] = Append(pending[p], t)]
      /\ UNCHANGED <<live, nextPid>>
  BY <1>1 DEF Adopt, HasAdopter
<1>3. t \in live
  <2>1. CASE d = Self
    BY <1>2, <2>1 DEF Target, Self
  <2>2. CASE d = Parent
    BY <1>2, <2>2 DEF Target, Lookup, Parent
  <2>3. CASE \E n \in Pid : d = Number(n)
    BY <1>2, <2>3 DEF Lookup, Number
  <2> QED
    BY <2>1, <2>2, <2>3 DEF Descriptors
<1> HIDE DEF t
<1>4. live \subseteq Pid /\ live \subseteq 0..nextPid - 1 /\ t \in Pid /\ p \in Pid
  BY <1>3, PidFacts DEF TypeOK
<1>5. /\ \A q \in Pid \ {p} : pending'[q] = pending[q]
      /\ DOMAIN pending[p] = 1..Len(pending[p]) /\ Len(pending[p]) \in Nat
      /\ DOMAIN pending'[p] = 1..Len(pending[p]) + 1
      /\ \A k \in 1..Len(pending[p]) : pending'[p][k] = pending[p][k]
      /\ pending'[p][Len(pending[p]) + 1] = t
  BY <1>2, <1>4, AppendProperties DEF TypeOK
<1>6. \A q \in live : \A i \in DOMAIN pending[q] : pending[q][i] # t
  BY <1>2, <1>3 DEF PendingMatchesAdopter
<1>7. \A q \in live : \A i \in DOMAIN pending'[q] :
        \/ i \in DOMAIN pending[q] /\ pending'[q][i] = pending[q][i] /\ pending[q][i] # t
        \/ q = p /\ i = Len(pending[p]) + 1 /\ pending'[q][i] = t
  <2> SUFFICES ASSUME NEW q \in live, NEW i \in DOMAIN pending'[q]
               PROVE  \/ i \in DOMAIN pending[q] /\ pending'[q][i] = pending[q][i]
                         /\ pending[q][i] # t
                      \/ q = p /\ i = Len(pending[p]) + 1 /\ pending'[q][i] = t
    OBVIOUS
  <2>1. CASE q # p
    BY <1>4, <1>5, <1>6, <2>1
  <2>2. CASE q = p
    <3>1. i \in 1..Len(pending[p]) \/ i = Len(pending[p]) + 1
      BY <1>5, <2>2
    <3> QED
      BY <1>5, <1>6, <2>2, <3>1
  <2> QED
    BY <2>1, <2>2
<1>8. PendingMatchesAdopter'
  <2> SUFFICES ASSUME NEW q \in live, NEW i \in DOMAIN pending'[q], pending'[q][i] \in live
               PROVE  /\ adopter'[pending'[q][i]] = q /\ pending'[q][i] \notin stale'
                      /\ \A j \in DOMAIN pending'[q] : pending'[q][j] = pending'[q][i] => j = i
    BY <1>2 DEF PendingMatchesAdopter
  <2>1. CASE i \in DOMAIN pending[q] /\ pending'[q][i] = pending[q][i] /\ pending[q][i] # t
    <3> DEFINE c == pending[q][i]
    <3>1. /\ adopter[c] = q /\ c \notin stale
          /\ \A j \in DOMAIN pending[q] : pending[q][j] = c => j = i
      BY <2>1 DEF PendingMatchesAdopter
    <3>2. adopter'[c] = q /\ c \notin stale'
      BY <1>2, <1>4, <2>1, <3>1 DEF TypeOK
    <3>3. \A j \in DOMAIN pending'[q] : pending'[q][j] = c => j = i
      BY <1>7, <2>1, <3>1
    <3> QED
      BY <2>1, <3>2, <3>3
  <2>2. CASE q = p /\ i = Len(pending[p]) + 1 /\ pending'[q][i] = t
    BY <1>2, <1>4, <1>7, <2>2 DEF TypeOK
  <2> QED
    BY <1>7, <2>1, <2>2
<1>9. PendingKnown'
  <2>1. ASSUME NEW q \in live, NEW i \in DOMAIN pending'[q]
        PROVE  pending'[q][i] \in 0..nextPid - 1
    BY <1>3, <1>4, <1>7 DEF PendingKnown
  <2>2. \A q \in Pid \ live : pending'[q] = <<>>
    BY <1>5 DEF PendingKnown
  <2> QED
    BY <1>2, <2>1, <2>2 DEF PendingKnown
<1> QED
  BY <1>8, <1>9

\* disown calls off an adoption: the entry it takes away is the only one.
LEMMA DisownPendingKeeps ==
  ASSUME TypeOK, Running, PendingMatchesAdopter, PendingKnown,
         NEW p \in live, NEW n \in Pid, DisownPending(p, n)
  PROVE  PendingMatchesAdopter' /\ PendingKnown'
<1>1. PICK i \in DOMAIN pending[p] :
        /\ StopsAt(pending[p], n, i) /\ pending[p][i] \in live
        /\ pending' = [pending EXCEPT ![p] = RemoveAt(pending[p], i)]
        /\ stale' = stale \cup {n}
        /\ UNCHANGED <<nextPid, live, adopter>>
  BY DEF DisownPending
<1>2. pending[p][i] = n /\ n \in live
  BY <1>1 DEF StopsAt
<1>3. live \subseteq Pid /\ p \in Pid /\ pending[p] \in Seq(Pid)
  BY PidFacts DEF TypeOK
<1>4. /\ Thins(RemoveAt(pending[p], i), pending[p])
      /\ \A k \in DOMAIN RemoveAt(pending[p], i) :
           \E l \in DOMAIN pending[p] \ {i} : RemoveAt(pending[p], i)[k] = pending[p][l]
  BY <1>3, RemoveAtThins
<1>5. adopter[n] = p /\ \A j \in DOMAIN pending[p] : pending[p][j] = n => j = i
  BY <1>2 DEF PendingMatchesAdopter
<1> DEFINE s == RemoveAt(pending[p], i)
<1>6. pending'[p] = s /\ \A q \in Pid \ {p} : pending'[q] = pending[q]
  BY <1>1, <1>3 DEF TypeOK
<1> HIDE DEF s
<1>7. \A q \in live : \A k \in DOMAIN pending'[q] : pending'[q][k] # n
  <2> SUFFICES ASSUME NEW q \in live, NEW k \in DOMAIN pending'[q] PROVE pending'[q][k] # n
    OBVIOUS
  <2>1. CASE q = p
    BY <1>4, <1>5, <1>6, <2>1 DEF s
  <2>2. CASE q # p
    BY <1>2, <1>3, <1>5, <1>6, <2>2 DEF PendingMatchesAdopter
  <2> QED
    BY <2>1, <2>2
<1>8. PICK from \in [DOMAIN s -> DOMAIN pending[p]] :
        /\ \A k \in DOMAIN s : s[k] = pending[p][from[k]]
        /\ \A k, l \in DOMAIN s : from[k] = from[l] => k = l
  BY <1>4 DEF Thins, s
<1>9. PendingMatchesAdopter'
  <2> SUFFICES ASSUME NEW q \in live, NEW k \in DOMAIN pending'[q], pending'[q][k] \in live
               PROVE  /\ adopter[pending'[q][k]] = q /\ pending'[q][k] \notin stale'
                      /\ \A j \in DOMAIN pending'[q] : pending'[q][j] = pending'[q][k] => j = k
    BY <1>1 DEF PendingMatchesAdopter
  <2>1. CASE q # p
    BY <1>1, <1>3, <1>6, <1>7, <2>1 DEF PendingMatchesAdopter
  <2>2. CASE q = p
    <3>1. from[k] \in DOMAIN pending[p] /\ pending[p][from[k]] = s[k]
      BY <1>6, <1>8, <2>2
    <3>2. /\ adopter[s[k]] = p /\ s[k] \notin stale
          /\ \A j \in DOMAIN pending[p] : pending[p][j] = s[k] => j = from[k]
      BY <1>6, <2>2, <3>1 DEF PendingMatchesAdopter
    <3> QED
      BY <1>1, <1>6, <1>7, <1>8, <2>2, <3>2
  <2> QED
    BY <2>1, <2>2
<1>10. PendingKnown'
  <2>1. ASSUME NEW q \in live, NEW k \in DOMAIN pending'[q]
        PROVE  pending'[q][k] \in 0..nextPid - 1
    BY <1>3, <1>6, <1>8 DEF PendingKnown
  <2>2. \A q \in Pid \ live : pending'[q] = <<>>
    BY <1>6 DEF PendingKnown
  <2> QED
    BY <1>1, <2>1, <2>2 DEF PendingKnown
<1> QED
  BY <1>9, <1>10

\* A new process has no list and stands in none; the dead lose their lists.
LEMMA CreateKeepsPending ==
  ASSUME TypeOK, Running, PendingMatchesAdopter, PendingKnown,
         NEW p \in live, CreateChild(p), kernel' = "running"
  PROVE  PendingMatchesAdopter' /\ PendingKnown'
<1>1. /\ live' = live \cup {nextPid} /\ nextPid' = nextPid + 1
      /\ UNCHANGED <<pending, adopter, stale>>
  BY DEF CreateChild, PidAfter, Running
<1>2. nextPid \in Pid /\ nextPid \notin live /\ nextPid \in Nat
  BY PidFacts, ProcessAssumption DEF CreateChild, TypeOK, MainPid, Pid, ProcessAssumption
<1>3. pending[nextPid] = <<>> /\ \A q \in live : \A i \in DOMAIN pending[q] :
                                    pending[q][i] \in 0..nextPid - 1 /\ pending[q][i] # nextPid
  BY <1>2 DEF PendingKnown
<1>4. DOMAIN pending[nextPid] = {}
  BY <1>3
<1>5. PendingMatchesAdopter'
  BY <1>1, <1>3, <1>4 DEF PendingMatchesAdopter
<1>6. PendingKnown'
  <2>1. 0..nextPid - 1 \subseteq 0..nextPid' - 1
    BY <1>1, <1>2
  <2> QED
    BY <1>1, <1>3, <1>4, <2>1 DEF PendingKnown
<1> QED
  BY <1>5, <1>6

LEMMA KillKeepsPending ==
  ASSUME TypeOK, Running, PendingMatchesAdopter, PendingKnown,
         NEW p, NEW left, NEW dead, Kill(p, left, dead), UNCHANGED nextPid
  PROVE  PendingMatchesAdopter' /\ PendingKnown'
<1>1. live' = live \ dead /\ stale' = stale \ dead /\ live \subseteq Pid
  BY PidFacts DEF Kill
<1>2. \A q \in Pid : /\ pending'[q] = IF q \in dead THEN <<>> ELSE pending[q]
                     /\ adopter'[q] = IF q \in dead THEN NoPid ELSE adopter[q]
  BY DEF Kill
<1>3. PendingMatchesAdopter'
  BY <1>1, <1>2 DEF PendingMatchesAdopter
<1>4. PendingKnown'
  <2>1. \A q \in Pid \ live' : pending'[q] = <<>>
    BY <1>1, <1>2 DEF PendingKnown
  <2>2. \A q \in live' : pending'[q] = pending[q] /\ q \in live
    BY <1>1, <1>2
  <2> QED
    BY <2>1, <2>2 DEF PendingKnown
<1> QED
  BY <1>3, <1>4

\* AdoptionsAgree: for any number of processes and any calls, the waiting
\* list of a process and the adopter of each living process in it agree, and
\* none stands in it twice.
THEOREM AdoptionsAgree == Spec => []PendingMatchesAdopter
<1> DEFINE Agree == PendingMatchesAdopter /\ PendingKnown
<1>1. Init => Agree
  <2> SUFFICES ASSUME Init PROVE Agree
    OBVIOUS
  <2>1. live \subseteq Pid /\ \A q \in Pid : pending[q] = <<>>
    BY PidFacts DEF Init
  <2>2. \A q \in Pid : DOMAIN pending[q] = {}
    BY <2>1
  <2>3. PendingMatchesAdopter
    BY <2>1, <2>2 DEF PendingMatchesAdopter
  <2>4. PendingKnown
    BY <2>1, <2>2 DEF PendingKnown
  <2> QED
    BY <2>3, <2>4
<1>2. TypeOK /\ Agree /\ [Next]_vars => Agree'
  <2> SUFFICES ASSUME TypeOK, Agree, [Next]_vars PROVE Agree'
    OBVIOUS
  <2>1. CASE kernel' # "running"
    BY <2>1 DEF PendingMatchesAdopter, PendingKnown, Running
  <2>2. CASE UNCHANGED <<nextPid, live, pending, adopter, stale, kernel>>
    BY <2>2 DEF PendingMatchesAdopter, PendingKnown, Running
  <2>3. ASSUME NEW p \in live, Syscall(p), kernel' = "running" PROVE Agree'
    <3>1. Running
      BY <2>3 DEF Syscall, Running
    <3>2. ASSUME NEW ds PROVE ~LookupFails(p, ds)
      BY <2>3 DEF LookupFails
    <3>3. ASSUME NEW n \in Pid, DisownChild(p, n) PROVE Agree'
      <4>1. CASE Adopted(n)
        <5>1. PICK k \in DOMAIN pending[adopter[n]] :
                /\ pending' = [pending EXCEPT ![adopter[n]] = RemoveAt(pending[adopter[n]], k)]
                /\ UNCHANGED <<live, adopter, stale, nextPid>>
          BY <3>3, <4>1 DEF DisownChild, HandOver
        <5>2. adopter[n] \in live /\ pending[adopter[n]] \in Seq(Pid)
          BY <4>1, PidFacts DEF Adopted, TypeOK
        <5>3. Thins(RemoveAt(pending[adopter[n]], k), pending[adopter[n]])
          BY <5>2, RemoveAtThins
        <5> QED
          BY <3>1, <5>1, <5>2, <5>3, ThinningKeeps
      <4>2. CASE ~Adopted(n)
        BY <3>1, <3>3, <4>2, KillKeepsPending DEF DisownChild
      <4> QED
        BY <4>1, <4>2
    <3>4. ASSUME NEW n \in Pid, DisownFriend(p, n) \/ DisownFaults(p, n) PROVE Agree'
      BY <2>2, <2>3, <3>1, <3>4 DEF DisownFriend, DisownFaults, lists, Running
    <3>5. ASSUME NEW n \in Pid, DisownPending(p, n) PROVE Agree'
      BY <3>1, <3>5, DisownPendingKeeps
    <3>6. ASSUME NEW d \in Descriptors, Adopt(p, d) PROVE Agree'
      BY <2>3, <3>1, <3>6, AdoptKeepsPending
    <3>7. ASSUME NEW a, NEW b, MakeFriend(p, a, b) PROVE Agree'
      BY <2>2, <3>2, <3>7 DEF MakeFriend
    <3>8. ASSUME CreateChild(p) PROVE Agree'
      BY <2>3, <3>1, <3>8, CreateKeepsPending
    <3>9. ASSUME NEW d \in Descriptors, ListProcesses(p, d) PROVE Agree'
      <4> DEFINE t == Target(p, d)
      <4>1. /\ Lookup(p, d) = "found"
            /\ \E at \in LivePlaces(pending[t]) :
                 pending' = [pending EXCEPT ![t] = Kept(pending[t], at)]
            /\ UNCHANGED <<nextPid, live, adopter, stale>>
        BY <3>2, <3>9 DEF ListProcesses
      <4>2. t \in live
        <5>1. CASE d = Self
          BY <5>1 DEF Target, Self
        <5>2. CASE d = Parent
          BY <4>1, <5>2 DEF Target, Lookup, Parent
        <5>3. CASE \E n \in Pid : d = Number(n)
          BY <4>1, <5>3 DEF Lookup, Number
        <5> QED
          BY <5>1, <5>2, <5>3 DEF Descriptors
      <4> HIDE DEF t
      <4>3. PICK at \in LivePlaces(pending[t]) :
              pending' = [pending EXCEPT ![t] = Kept(pending[t], at)]
        BY <4>1
      <4>4. pending[t] \in Seq(Pid)
        BY <4>2, PidFacts DEF TypeOK
      <4>5. Thins(Kept(pending[t], at), pending[t])
        BY <4>4, KeptThins
      <4> QED
        BY <3>1, <4>1, <4>2, <4>3, <4>5, ThinningKeeps
    <3> QED
      BY <2>3, <3>3, <3>4, <3>5, <3>6, <3>7, <3>8, <3>9 DEF Syscall, Disown
  <2>4. ASSUME NEW p \in Threads, Syscall(p) PROVE p \in live
    BY <2>4 DEF Syscall
  <2> QED
    BY <2>1, <2>2, <2>3, <2>4 DEF Next, Stopped, vars
<1> QED
  BY <1>1, <1>2, TypeCorrect, PTL DEF Spec
==============================================================================
