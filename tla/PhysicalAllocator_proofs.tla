----------------------- MODULE PhysicalAllocator_proofs -----------------------
(***************************************************************************)
(* The bitmap of PhysicalAllocator is exact and blocks are disjoint, for   *)
(* every memory map that is sound and every bound on the count.            *)
(***************************************************************************)
EXTENDS PhysicalAllocator, FiniteSetTheorems, SequenceTheorems, WellFoundedInduction, TLAPS

\* A set of numbers has a least one.
LEMMA Least ==
  ASSUME NEW S \in SUBSET Nat, S # {}
  PROVE  \E m \in S : \A n \in S : m <= n
<1>. DEFINE R == StrictSubsetOrdering(Nat)
            F == FiniteSubsetsOf(Nat)
            T == {0..n : n \in S}
<1>1. IsWellFoundedOn(R, F)
  BY FS_StrictSubsetOrderingWellFounded
<1>2. T \subseteq F
  <2>1. \A n \in S : 0..n \in SUBSET Nat /\ IsFiniteSet(0..n)
    BY FS_Interval
  <2>. QED BY <2>1 DEF FiniteSubsetsOf
<1>3. T # {}
  OBVIOUS
<1>4. PICK x \in T : \A y \in T : <<y, x>> \notin R
  <2>. HIDE DEF R, F, T
  <2>. QED BY <1>1, <1>2, <1>3, WFMin
<1>5. PICK m \in S : x = 0..m
  OBVIOUS
<1>6. ASSUME NEW n \in S, n < m PROVE FALSE
  <2>1. 0..n \in T
    OBVIOUS
  <2>2. m \in 0..m /\ m \notin 0..n /\ 0..n \subseteq 0..m
    BY <1>6
  <2>3. 0..n \in F /\ 0..m \in F
    BY <1>2, <1>5, <2>1
  <2>4. <<0..n, x>> \in R
    BY <1>5, <2>2, <2>3 DEF StrictSubsetOrdering, FiniteSubsetsOf
  <2>. QED BY <1>4, <2>1, <2>4
<1>. QED BY <1>6

\* Induction, over a set.
LEMMA SetInduction ==
  ASSUME NEW S, 0 \in S, \A n \in Nat : n \in S => n + 1 \in S
  PROVE  Nat \subseteq S
<1>. SUFFICES ASSUME Nat \ S # {} PROVE FALSE
  OBVIOUS
<1>1. PICK m \in Nat \ S : \A n \in Nat \ S : m <= n
  BY Least
<1>2. m # 0 /\ m - 1 \in Nat
  BY <1>1
<1>3. m - 1 \in S
  BY <1>1, <1>2
<1>. QED BY <1>2, <1>3

\* The turn of a search starts at a number of the bitmap.
LEMMA StartType ==
  ASSUME cursor \in Indices
  PROVE  Start \in Indices
<1>1. Size \in Nat /\ Size > 0
  BY AllocatorAssumption
<1>2. cursor \in Nat
  BY <1>1 DEF Indices
<1>3. (cursor + 1) % Size \in 0..Size - 1
  BY <1>1, <1>2
<1> QED BY <1>3 DEF Start, Indices

\* Wherever a run leads that begins inside the bitmap, it stays inside.
LEMMA WrapType ==
  ASSUME NEW i \in Nat, cursor \in Indices
  PROVE  (Start + i) % Size \in Indices
<1>1. Size \in Nat /\ Size > 0
  BY AllocatorAssumption
<1>2. Start \in Nat
  BY StartType, <1>1 DEF Indices
<1>3. (Start + i) % Size \in 0..Size - 1
  BY <1>1, <1>2
<1> QED BY <1>3 DEF Indices

\* The bits of a block that starts at a number the search arrived at are
\* among those the search has looked at.
LEMMA TakenWereFree ==
  ASSUME NEW n \in 1..MaxCount, cursor \in Indices
  PROVE  LET b == [start |-> FrameOf(Start), count |-> n]
         IN /\ b.start # None
            /\ b \in Blocks
            /\ Start \in BlockBits(b)
            /\ BlockBits(b) \subseteq Indices
            /\ BlockBits(b) \subseteq LookedAt(n)
<1> DEFINE b == [start |-> FrameOf(Start), count |-> n]
<1>1. Start \in Indices
  BY StartType
<1>2. BlockBits(b) = Bits(FrameOf(Start), n * PageSize)
  BY DEF BlockBits
<1>3. /\ FrameOf(Start) # None
      /\ Start \in Bits(FrameOf(Start), n * PageSize)
      /\ Bits(FrameOf(Start), n * PageSize) \subseteq (Start..Start + n - 1) \cap Indices
  BY <1>1, AllocatorAssumption DEF MapIsSound
<1>4. ASSUME NEW k \in (Start..Start + n - 1) \cap Indices
      PROVE  k \in LookedAt(n)
  <2>1. /\ Size \in Nat /\ Size > 0 /\ MaxCount \in Nat
        /\ Start \in 0..Size - 1 /\ k \in 0..Size - 1
    BY <1>1, AllocatorAssumption DEF Indices
  <2>2. k - Start \in 0..n - 1
    BY <2>1
  <2>3. Start + (k - Start) = k
    BY <2>1
  <2>4. k % Size = k
    BY <2>1
  <2> QED BY <2>2, <2>3, <2>4 DEF LookedAt
<1>5. b \in Blocks
  BY <1>1 DEF Blocks
<1> QED BY <1>2, <1>3, <1>4, <1>5

-----------------------------------------------------------------------------
\* No step takes the cursor or a bit outside the bitmap.
LEMMA TypeStep ==
  ASSUME TypeOK, [Next]_vars
  PROVE  TypeOK'
<1> USE DEF TypeOK
<1>0. /\ MaxCount \in Nat /\ MaxCount > 0 /\ Size \in Nat /\ Size > 0
      /\ 0 \in Indices
  BY AllocatorAssumption DEF Indices
<1>1. ASSUME NEW count \in 1..MaxCount, AllocCall(count)
      PROVE  TypeOK'
  BY <1>0, <1>1 DEF AllocCall, Stop
<1>2. CASE AllocSkip
  <2>1. call.count \in 1..MaxCount
    BY <1>2 DEF AllocSkip
  <2>2. PICK i \in 0..call.count - 1 : cursor' = (Start + i) % Size
    BY <1>2 DEF AllocSkip
  <2>3. cursor' \in Indices
    BY <2>1, <2>2, <1>0, WrapType
  <2>4. /\ call' = NoCall \/ call' = call
        /\ failed' \in 0..MaxCount
    BY <1>2, <2>1, <1>0 DEF AllocSkip
  <2> QED BY <1>2, <2>3, <2>4 DEF AllocSkip
<1>3. CASE AllocTake
  <2> DEFINE b == [start |-> FrameOf(Start), count |-> call.count]
  <2>1. call.count \in 1..MaxCount
    BY <1>3 DEF AllocTake
  <2>2. /\ b.start # None /\ b \in Blocks /\ BlockBits(b) \subseteq Indices
    BY <2>1, TakenWereFree
  <2>3. /\ busy' = busy \cup BlockBits(b)
        /\ blocks' = blocks \cup {b} /\ failed' = failed
        /\ cursor' = Start /\ call' = NoCall
    BY <1>3, <2>2 DEF AllocTake
  <2> QED BY <2>2, <2>3, StartType
<1>4. ASSUME NEW b \in blocks, Free(b)
      PROVE  TypeOK'
  BY <1>0, <1>4 DEF Free
<1>5. CASE UNCHANGED vars
  BY <1>5 DEF vars
<1> QED BY <1>1, <1>2, <1>3, <1>4, <1>5 DEF Next

\* Every variable of the allocator keeps its type (PhysicalAllocator::alloc
\* and ::free): the cursor and every bit stay inside the bitmap.
THEOREM FramesTypeCorrect == Spec => []TypeOK
<1>1. Init => TypeOK
  <2>1. MaxCount \in Nat /\ 0 \in Indices /\ ReservedBits \subseteq Indices
    BY AllocatorAssumption DEF Indices
  <2> QED BY <2>1 DEF Init, TypeOK
<1>2. TypeOK /\ [Next]_vars => TypeOK'
  BY TypeStep
<1> QED BY <1>1, <1>2, PTL DEF Spec

-----------------------------------------------------------------------------
\* Neither property is inductive alone.  Clearing the bits of a block keeps
\* the bitmap exact because no other block has them, and a new block is
\* disjoint from the others because the bitmap shows theirs as busy.
Exact == TypeOK /\ BitmapExact /\ NoSharedFrame

LEMMA ExactStep ==
  ASSUME Exact, [Next]_vars
  PROVE  (BitmapExact /\ NoSharedFrame)'
<1> USE DEF Exact, BitmapExact, NoSharedFrame
<1>1. CASE busy' = busy /\ blocks' = blocks
  BY <1>1
<1>2. CASE AllocTake
  <2> DEFINE b == [start |-> FrameOf(Start), count |-> call.count]
  <2>1. call.count \in 1..MaxCount /\ cursor \in Indices
    BY <1>2 DEF AllocTake, TypeOK
  <2>2. /\ b.start # None /\ Start \in BlockBits(b)
        /\ BlockBits(b) \subseteq LookedAt(call.count)
    BY <2>1, TakenWereFree
  <2>3. /\ busy' = busy \cup BlockBits(b)
        /\ blocks' = blocks \cup {b}
    BY <1>2, <2>2 DEF AllocTake
  <2>4. BlockBits(b) \cap busy = {}
    BY <1>2, <2>2 DEF AllocTake
  <2>5. BitmapExact'
    BY <2>3
  <2>6. NoSharedFrame'
    BY <2>3, <2>4
  <2> QED BY <2>5, <2>6
<1>3. ASSUME NEW b \in blocks, Free(b)
      PROVE  (BitmapExact /\ NoSharedFrame)'
  <2>1. /\ busy' = busy \ BlockBits(b)
        /\ blocks' = blocks \ {b}
    BY <1>3 DEF Free, Cleared
  <2>2. NoSharedFrame'
    BY <2>1
  <2>3. BitmapExact'
    BY <2>1
  <2> QED BY <2>2, <2>3
<1>4. ASSUME NEW count \in 1..MaxCount, AllocCall(count)
      PROVE  (BitmapExact /\ NoSharedFrame)'
  BY <1>1, <1>4 DEF AllocCall
<1>5. CASE AllocSkip
  BY <1>1, <1>5 DEF AllocSkip
<1>6. CASE UNCHANGED vars
  BY <1>1, <1>6 DEF vars
<1> QED BY <1>2, <1>3, <1>4, <1>5, <1>6 DEF Next

\* After any sequence of calls the bitmap is exactly what is reserved or
\* held, and no page has two holders (reserveMemory, alloc and free).
THEOREM FramesExact == Spec => [](BitmapExact /\ NoSharedFrame)
<1>1. Init => BitmapExact /\ NoSharedFrame
  BY DEF Init, BitmapExact, NoSharedFrame
<1>2. TypeOK /\ (BitmapExact /\ NoSharedFrame) /\ [Next]_vars
        => (BitmapExact /\ NoSharedFrame)'
  BY ExactStep DEF Exact
<1> QED BY <1>1, <1>2, FramesTypeCorrect, PTL DEF Spec
-----------------------------------------------------------------------------
\* The bits that a search begun at stop has passed when it is at c: those
\* behind stop up to c, round the end of the bitmap.
Passed(stop, c) ==
  IF stop <= c THEN stop + 1..c ELSE (stop + 1..Size - 1) \cup (0..c)

\* A search for one page leaves only busy bits behind it; and it has not
\* failed while it runs.
Walk ==
  /\ call # NoCall => failed = 0
  /\ call # NoCall /\ call.count = 1 => Passed(call.stop, cursor) \subseteq busy

\* One turn passes one bit; coming back to where it began it has passed all.
LEMMA PassedGrows ==
  ASSUME NEW stop \in Indices, cursor \in Indices
  PROVE  /\ Start # stop =>
              Passed(stop, Start) \subseteq Passed(stop, cursor) \cup {Start}
         /\ Start = stop => Indices \subseteq Passed(stop, cursor) \cup {Start}
<1>1. /\ Size \in Nat /\ Size > 0
      /\ stop \in 0..Size - 1 /\ cursor \in 0..Size - 1
  BY AllocatorAssumption DEF Indices
<1>2. CASE cursor + 1 < Size
  <2>1. Start = cursor + 1
    BY <1>1, <1>2 DEF Start
  <2> QED BY <1>1, <1>2, <2>1 DEF Passed, Indices
<1>3. CASE cursor + 1 = Size
  <2>1. Start = 0
    BY <1>1, <1>3 DEF Start
  <2> QED BY <1>1, <1>3, <2>1 DEF Passed, Indices
<1> QED BY <1>1, <1>2, <1>3

LEMMA WalkStep ==
  ASSUME TypeOK, Walk, FailsOnlyWhenFull, [Next]_vars
  PROVE  Walk' /\ FailsOnlyWhenFull'
<1> USE DEF Walk, FailsOnlyWhenFull
<1>0. MaxCount \in Nat /\ Size \in Nat /\ Size > 0
  BY AllocatorAssumption
<1>1. ASSUME NEW count \in 1..MaxCount, AllocCall(count)
      PROVE  Walk' /\ FailsOnlyWhenFull'
  <2>1. /\ call' = [count |-> count, stop |-> cursor]
        /\ failed' = 0 /\ busy' = busy /\ cursor' = cursor
    BY <1>1 DEF AllocCall, Stop
  <2>2. Passed(cursor, cursor) = {}
    BY <1>0 DEF TypeOK, Indices, Passed
  <2> QED BY <2>1, <2>2
<1>2. CASE AllocSkip
  <2>1. /\ call # NoCall /\ call.count \in 1..MaxCount /\ call.stop \in Indices
        /\ cursor \in Indices /\ failed = 0 /\ busy' = busy
        /\ busy \subseteq Indices
    BY <1>2 DEF AllocSkip, TypeOK
  <2>2. CASE call.count # 1
    BY <1>2, <2>1, <2>2 DEF AllocSkip
  <2>3. CASE call.count = 1
    <3>1. PICK i \in 0..call.count - 1 :
            (Start + i) % Size \in busy /\ cursor' = (Start + i) % Size
      BY <1>2 DEF AllocSkip
    <3>2. /\ Start \in 0..Size - 1 /\ i = 0
      BY <2>1, <2>3, <3>1, StartType DEF Indices
    <3>3. (Start + i) % Size = Start
      BY <1>0, <3>2
    <3>4. cursor' = Start /\ Start \in busy
      BY <3>1, <3>3
    <3>5. CASE Start = call.stop
      <4>1. call' = NoCall
        BY <1>2, <3>4, <3>5 DEF AllocSkip
      <4>2. Indices \subseteq busy
        BY <2>1, <2>3, <3>4, <3>5, PassedGrows
      <4> QED BY <2>1, <4>1, <4>2 DEF Indices
    <3>6. CASE Start # call.stop
      <4>1. call' = call /\ failed' = failed
        BY <1>2, <3>4, <3>6 DEF AllocSkip
      <4>2. Passed(call.stop, Start) \subseteq busy
        BY <2>1, <2>3, <3>4, <3>6, PassedGrows
      <4> QED BY <2>1, <3>4, <4>1, <4>2
    <3> QED BY <3>5, <3>6
  <2> QED BY <2>2, <2>3
<1>3. CASE AllocTake
  <2>1. call.count \in 1..MaxCount /\ cursor \in Indices /\ failed = 0
    BY <1>3 DEF AllocTake, TypeOK
  <2>2. FrameOf(Start) # None
    BY <2>1, TakenWereFree
  <2>3. call' = NoCall /\ failed' = failed
    BY <1>3, <2>2 DEF AllocTake
  <2> QED BY <2>1, <2>3
<1>4. ASSUME NEW b \in blocks, Free(b)
      PROVE  Walk' /\ FailsOnlyWhenFull'
  BY <1>4 DEF Free
<1>5. CASE UNCHANGED vars
  <2>1. call' = call /\ failed' = failed /\ busy' = busy /\ cursor' = cursor
    BY <1>5 DEF vars
  <2> QED BY <2>1 DEF Indices
<1> QED BY <1>1, <1>2, <1>3, <1>4, <1>5 DEF Next

\* alloc(1) fails only when every page of the bitmap is taken, wherever the
\* calls before it left the cursor.
THEOREM FramesFail == Spec => []FailsOnlyWhenFull
<1>1. Init => Walk /\ FailsOnlyWhenFull
  BY DEF Init, Walk, FailsOnlyWhenFull
<1>2. TypeOK /\ (Walk /\ FailsOnlyWhenFull) /\ [Next]_vars
        => (Walk /\ FailsOnlyWhenFull)'
  BY WalkStep
<1>3. Spec => [](Walk /\ FailsOnlyWhenFull)
  BY <1>1, <1>2, FramesTypeCorrect, PTL DEF Spec
<1> QED BY <1>3, PTL
-----------------------------------------------------------------------------
(* Numbers and pages *)

\* Pages of area i that the numbering counts.
Pages(i) == IF MemoryMap[i].ram THEN MemoryMap[i].length \div PageSize ELSE 0

\* Quotient and rest.
LEMMA Division ==
  ASSUME NEW n \in Nat, NEW p \in Nat \ {0}
  PROVE  /\ n \div p \in Nat /\ n % p \in Nat
         /\ n = p * (n \div p) + (n % p)
         /\ n % p < p
  OBVIOUS

\* What an area of the map is.
LEMMA MapTypes ==
  /\ Len(MemoryMap) \in Nat /\ DOMAIN MemoryMap = 1..Len(MemoryMap)
  /\ \A i \in DOMAIN MemoryMap :
       /\ MemoryMap[i].base \in Nat /\ MemoryMap[i].length \in Nat
       /\ MemoryMap[i].ram \in BOOLEAN
       /\ Pages(i) \in Nat
<1>1. /\ Len(MemoryMap) \in Nat /\ DOMAIN MemoryMap = 1..Len(MemoryMap)
      /\ \A i \in DOMAIN MemoryMap :
           MemoryMap[i] \in [base : Nat, length : Nat, ram : BOOLEAN]
  <2>. DEFINE R == [base : Nat, length : Nat, ram : BOOLEAN]
  <2>1. MemoryMap \in Seq(R)
    BY AllocatorAssumption
  <2>. HIDE DEF R
  <2>2. Len(MemoryMap) \in Nat /\ DOMAIN MemoryMap = 1..Len(MemoryMap)
    BY <2>1, LenProperties
  <2>3. \A i \in 1..Len(MemoryMap) : MemoryMap[i] \in R
    BY <2>1, ElementOfSeq
  <2>. QED BY <2>2, <2>3 DEF R
<1>2. \A i \in DOMAIN MemoryMap :
       /\ MemoryMap[i].base \in Nat /\ MemoryMap[i].length \in Nat
       /\ MemoryMap[i].ram \in BOOLEAN
  BY <1>1
<1>3. \A i \in DOMAIN MemoryMap : MemoryMap[i].length \div PageSize \in Nat
  BY <1>2, Division, AllocatorAssumption
<1>. QED BY <1>1, <1>2, <1>3 DEF Pages

\* The sums that Before is made of exist.
LEMMA SumsExist ==
  \E g \in [0..Len(MemoryMap) -> Nat] :
     \A i \in 0..Len(MemoryMap) : g[i] = IF i = 0 THEN 0 ELSE g[i - 1] + Pages(i)
<1>. DEFINE L == Len(MemoryMap)
            Sums(g, n) == \A i \in 0..n : g[i] = IF i = 0 THEN 0 ELSE g[i - 1] + Pages(i)
            S == {n \in Nat : n <= L => \E g \in [0..n -> Nat] : Sums(g, n)}
<1>0. L \in Nat /\ \A i \in 1..L : Pages(i) \in Nat
  BY MapTypes
<1>. HIDE DEF L
<1>1. 0 \in S
  <2>. DEFINE g == [i \in 0..0 |-> 0]
  <2>1. g \in [0..0 -> Nat] /\ Sums(g, 0)
    OBVIOUS
  <2>. QED BY <2>1
<1>2. ASSUME NEW n \in Nat, n \in S PROVE n + 1 \in S
  <2>. SUFFICES ASSUME n + 1 <= L PROVE \E g \in [0..n + 1 -> Nat] : Sums(g, n + 1)
    <3>. HIDE DEF Sums
    <3>. QED OBVIOUS
  <2>0. \E h \in [0..n -> Nat] : Sums(h, n)
    <3>. HIDE DEF Sums
    <3>. QED BY <1>0, <1>2
  <2>1. PICK h \in [0..n -> Nat] : Sums(h, n)
    BY <2>0
  <2>. DEFINE g == [i \in 0..n + 1 |-> IF i <= n THEN h[i] ELSE h[n] + Pages(n + 1)]
  <2>2. Pages(n + 1) \in Nat
    BY <1>0
  <2>3. g \in [0..n + 1 -> Nat]
    BY <2>1, <2>2
  <2>4. ASSUME NEW i \in 0..n + 1
        PROVE  g[i] = IF i = 0 THEN 0 ELSE g[i - 1] + Pages(i)
    <3>1. CASE i <= n
      BY <2>1, <3>1
    <3>2. CASE i = n + 1
      BY <2>1, <3>2
    <3>. QED BY <3>1, <3>2
  <2>. QED BY <2>3, <2>4
<1>3. Nat \subseteq S
  <2>. HIDE DEF S
  <2>. QED BY <1>1, <1>2, SetInduction
<1>4. \E g \in [0..L -> Nat] : Sums(g, L)
  <2>. HIDE DEF Sums
  <2>. QED BY <1>0, <1>3
<1>. QED BY <1>4 DEF L

\* The numbers of an area are behind those of the area before it.
LEMMA Numbering ==
  /\ \A i \in DOMAIN MemoryMap : Before[i] \in Nat
  /\ 1 \in DOMAIN MemoryMap => Before[1] = 0
  /\ \A i \in DOMAIN MemoryMap : i + 1 \in DOMAIN MemoryMap =>
       Before[i + 1] = Before[i] + Pages(i)
<1>. DEFINE L == Len(MemoryMap)
            F(b) == [i \in 0..L |-> IF i = 0 THEN 0
                       ELSE b[i - 1] + IF MemoryMap[i].ram
                                       THEN MemoryMap[i].length \div PageSize ELSE 0]
            b == CHOOSE f : f = F(f)
<1>1. Before = [i \in 1..L |-> b[i - 1]]
  BY DEF Before
<1>2. PICK g \in [0..L -> Nat] : \A i \in 0..L : g[i] = IF i = 0 THEN 0 ELSE g[i - 1] + Pages(i)
  BY SumsExist
<1>3. g = F(g)
  BY <1>2 DEF Pages
<1>4. b = F(b)
  <2>. HIDE DEF F
  <2>. QED BY <1>3
<1>5. \A i \in 0..L : b[i] = IF i = 0 THEN 0 ELSE b[i - 1] + Pages(i)
  <2>. HIDE DEF b
  <2>. QED BY <1>4 DEF Pages
<1>. HIDE DEF b
<1>6. L \in Nat /\ DOMAIN MemoryMap = 1..L /\ \A i \in 1..L : Pages(i) \in Nat
  BY MapTypes
<1>. HIDE DEF L
<1>7. \A i \in 0..L : b[i] \in Nat
  <2>. DEFINE S == {n \in Nat : n <= L => b[n] \in Nat}
  <2>1. 0 \in S
    BY <1>5, <1>6
  <2>2. ASSUME NEW n \in Nat, n \in S PROVE n + 1 \in S
    <3>. SUFFICES ASSUME n + 1 <= L PROVE b[n + 1] \in Nat
      OBVIOUS
    <3>1. n + 1 \in 1..L /\ (n + 1) - 1 = n /\ b[n] \in Nat
      BY <1>6, <2>2
    <3>2. b[n + 1] = b[n] + Pages(n + 1)
      BY <1>5, <1>6, <3>1
    <3>. QED BY <1>6, <3>1, <3>2
  <2>3. Nat \subseteq S
    <3>. HIDE DEF S
    <3>. QED BY <2>1, <2>2, SetInduction
  <2>. QED BY <1>6, <2>3
<1>8. ASSUME NEW i \in 1..L, i + 1 \in 1..L PROVE Before[i + 1] = Before[i] + Pages(i)
  <2>1. Before[i + 1] = b[i] /\ Before[i] = b[i - 1]
    BY <1>1, <1>6, <1>8
  <2>2. b[i] = b[i - 1] + Pages(i)
    BY <1>5, <1>6
  <2>. QED BY <2>1, <2>2
<1>9. 1 \in 1..L => Before[1] = 0
  BY <1>1, <1>5, <1>6
<1>10. ASSUME NEW i \in 1..L PROVE Before[i] \in Nat
  <2>1. Before[i] = b[i - 1] /\ i - 1 \in 0..L
    BY <1>1, <1>6
  <2>. QED BY <1>7, <2>1
<1>. QED BY <1>6, <1>8, <1>9, <1>10

\* The look-up never settles on an area behind the one that has the number.
LEMMA NumberReached ==
  ASSUME NEW k \in Nat, NEW i \in DOMAIN MemoryMap,
         \A j \in 1..i - 1 : ~(MemoryMap[j].ram /\ (k - Before[j]) * PageSize < MemoryMap[j].length)
  PROVE  Before[i] <= k
<1>. SUFFICES ASSUME Before[i] > k PROVE FALSE
  BY Numbering
<1>. DEFINE S == {n \in Nat : n \in 1..i /\ Before[n] > k}
<1>1. DOMAIN MemoryMap = 1..Len(MemoryMap) /\ Len(MemoryMap) \in Nat
  BY MapTypes
<1>2. i \in S
  BY <1>1
<1>3. PICK m \in S : \A n \in S : m <= n
  BY <1>2, Least
<1>4. m # 1
  BY <1>1, <1>3, Numbering
<1>. DEFINE j == m - 1
<1>5. j \in 1..i - 1 /\ j \in DOMAIN MemoryMap /\ j + 1 = m /\ j + 1 \in DOMAIN MemoryMap
  BY <1>1, <1>3, <1>4
<1>6. j \notin S
  BY <1>3, <1>5
<1>7. Before[j] <= k /\ Before[j] \in Nat
  BY <1>1, <1>5, <1>6, Numbering
<1>8. Before[j] + Pages(j) > k
  BY <1>3, <1>5, Numbering
<1>9. MemoryMap[j].ram /\ Pages(j) = MemoryMap[j].length \div PageSize
  BY <1>7, <1>8, <1>5, MapTypes DEF Pages
<1>10. (k - Before[j]) * PageSize < MemoryMap[j].length
  <2>. DEFINE d == k - Before[j]
              q == MemoryMap[j].length \div PageSize
  <2>1. d \in Nat /\ q \in Nat /\ d + 1 <= q
    <3>1. q \in Nat /\ Before[j] \in Nat /\ Before[j] <= k /\ Before[j] + q > k
      BY <1>5, <1>7, <1>8, <1>9, MapTypes
    <3>. HIDE DEF q
    <3>. QED BY <3>1
  <2>2. /\ PageSize \in Nat \ {0} /\ MemoryMap[j].length \in Nat
        /\ MemoryMap[j].length >= PageSize * q
    <3>1. PageSize \in Nat \ {0} /\ MemoryMap[j].length \in Nat
      BY <1>5, MapTypes, AllocatorAssumption
    <3>. DEFINE r == MemoryMap[j].length % PageSize
    <3>2. r \in Nat /\ MemoryMap[j].length = PageSize * q + r
      BY <3>1, Division
    <3>. HIDE DEF q, r
    <3>3. PageSize * q \in Nat
      BY <2>1, <3>1
    <3>. QED BY <3>1, <3>2, <3>3
  <2>. HIDE DEF d, q
  <2>3. PageSize * (d + 1) <= PageSize * q
    BY <2>1, <2>2
  <2>4. PageSize * (d + 1) = PageSize * d + PageSize /\ PageSize * d = d * PageSize
    BY <2>1, <2>2
  <2>5. PageSize * d \in Nat /\ PageSize * q \in Nat
    BY <2>1, <2>2
  <2>6. d * PageSize < MemoryMap[j].length
    <3>. DEFINE a == PageSize * d
                c == PageSize * q
                e == PageSize * (d + 1)
    <3>1. a \in Nat /\ c \in Nat /\ e <= c /\ e = a + PageSize /\ d * PageSize = a /\ c <= MemoryMap[j].length
      BY <2>2, <2>3, <2>4, <2>5
    <3>. HIDE DEF a, c, e
    <3>. QED BY <2>2, <3>1
  <2>. QED BY <2>6 DEF d
<1>. QED BY <1>5, <1>9, <1>10

\* Where the page with a number lies, and that the whole of it is RAM when
\* the number is not one behind the whole pages of an area.
LEMMA PageIsRam ==
  ASSUME NEW k \in Indices, EndsReserved, k \notin ReservedBits,
         NEW u \in FrameOf(k)..FrameOf(k) + PageSize - 1
  PROVE  \E i \in DOMAIN MemoryMap :
           /\ MemoryMap[i].ram
           /\ u \in MemoryMap[i].base..MemoryMap[i].base + MemoryMap[i].length - 1
<1>. DEFINE Hit(i) == MemoryMap[i].ram /\ (k - Before[i]) * PageSize < MemoryMap[i].length
            At(i) == MemoryMap[i].base + (k - Before[i]) * PageSize
<1>0. k \in Nat /\ PageSize \in Nat \ {0}
  BY AllocatorAssumption DEF Indices
<1>1. FrameOf(k) # None
  BY AllocatorAssumption DEF MapIsSound
<1>2. /\ \E i \in DOMAIN MemoryMap : Hit(i)
      /\ FrameOf(k) = At(CHOOSE i \in DOMAIN MemoryMap : IsFirst(i, Hit))
  BY <1>1 DEF FrameOf
<1>3. \E i \in DOMAIN MemoryMap : Hit(i) /\ \A j \in 1..i - 1 : ~Hit(j)
  <2>. DEFINE S == {n \in Nat : n \in DOMAIN MemoryMap /\ Hit(n)}
  <2>0. DOMAIN MemoryMap = 1..Len(MemoryMap) /\ Len(MemoryMap) \in Nat
    BY MapTypes
  <2>. HIDE DEF Hit
  <2>1. S # {}
    BY <1>2, <2>0
  <2>2. PICK m \in S : \A n \in S : m <= n
    BY <2>1, Least
  <2>. QED BY <2>0, <2>2
<1>4. PICK i \in DOMAIN MemoryMap :
        FrameOf(k) = At(i) /\ Hit(i) /\ \A j \in 1..i - 1 : ~Hit(j)
  <2>1. \E i \in DOMAIN MemoryMap : IsFirst(i, Hit)
    BY <1>3 DEF IsFirst
  <2>. DEFINE f == CHOOSE i \in DOMAIN MemoryMap : IsFirst(i, Hit)
  <2>2. f \in DOMAIN MemoryMap /\ IsFirst(f, Hit)
    BY <2>1
  <2>3. Hit(f) /\ \A j \in 1..f - 1 : ~Hit(j)
    BY <2>2 DEF IsFirst
  <2>4. FrameOf(k) = At(f)
    BY <1>2
  <2>. QED BY <2>2, <2>3, <2>4
<1>5. Before[i] \in Nat /\ Before[i] <= k
  BY <1>0, <1>4, NumberReached, Numbering
<1>. DEFINE d == k - Before[i]
            n == MemoryMap[i].length
            q == n \div PageSize
            r == n % PageSize
<1>6. d \in Nat /\ d * PageSize < n /\ n \in Nat /\ MemoryMap[i].base \in Nat /\ MemoryMap[i].ram
  BY <1>0, <1>4, <1>5, MapTypes
<1>7. q \in Nat /\ r \in Nat /\ n = PageSize * q + r /\ r < PageSize
  BY <1>0, <1>6, Division
<1>8. r # 0 => d # q
  <2>. SUFFICES ASSUME r # 0, d = q PROVE FALSE
    OBVIOUS
  <2>1. Before[i] + q \in ReservedBits \cup (Nat \ Indices)
    BY <1>6 DEF EndsReserved
  <2>2. Before[i] + d = k
    BY <1>0, <1>5
  <2>. QED BY <2>1, <2>2
<1>9. FrameOf(k) = MemoryMap[i].base + d * PageSize
  BY <1>4
<1>. HIDE DEF d, n, q, r
<1>10. d + 1 <= q
  <2>. SUFFICES ASSUME q <= d PROVE FALSE
    BY <1>6, <1>7
  <2>1. PageSize * q <= PageSize * d /\ PageSize * d = d * PageSize
    BY <1>0, <1>6, <1>7
  <2>2. PageSize * q \in Nat /\ PageSize * d \in Nat
    BY <1>0, <1>6, <1>7
  <2>. DEFINE a == PageSize * q
              e == PageSize * d
  <2>3. a \in Nat /\ e \in Nat /\ a <= e /\ e < n /\ n = a + r
    BY <1>6, <1>7, <2>1, <2>2
  <2>4. r # 0 /\ e < a + r
    <3>. HIDE DEF a, e
    <3>. QED BY <1>6, <1>7, <2>3
  <2>5. q < d
    BY <1>6, <1>7, <1>8, <2>4
  <2>6. PageSize * (q + 1) <= PageSize * d
    BY <1>0, <1>6, <1>7, <2>5
  <2>7. PageSize * (q + 1) = a + PageSize
    BY <1>0, <1>7
  <2>8. a + PageSize <= e
    BY <2>6, <2>7
  <2>. HIDE DEF a, e
  <2>. QED BY <1>0, <1>7, <2>3, <2>4, <2>8
<1>11. d * PageSize + PageSize <= n
  <2>1. PageSize * (d + 1) <= PageSize * q
    BY <1>0, <1>6, <1>7, <1>10
  <2>2. PageSize * (d + 1) = d * PageSize + PageSize
    BY <1>0, <1>6
  <2>3. PageSize * q \in Nat /\ d * PageSize \in Nat
    BY <1>0, <1>6, <1>7
  <2>. DEFINE a == PageSize * q
              e == d * PageSize
              c == PageSize * (d + 1)
  <2>4. a \in Nat /\ e \in Nat /\ c = e + PageSize /\ c <= a /\ n = a + r
    BY <1>7, <2>1, <2>2, <2>3
  <2>5. e + PageSize <= n
    <3>. HIDE DEF a, e, c
    <3>. QED BY <1>0, <1>6, <1>7, <2>4
  <2>. QED BY <2>5
<1>12. u \in MemoryMap[i].base..MemoryMap[i].base + n - 1
  <2>. DEFINE e == d * PageSize
  <2>1. e \in Nat /\ e + PageSize <= n /\ FrameOf(k) = MemoryMap[i].base + e
    BY <1>0, <1>6, <1>9, <1>11
  <2>. HIDE DEF e
  <2>2. u \in (MemoryMap[i].base + e)..((MemoryMap[i].base + e) + PageSize - 1)
    BY <2>1
  <2>. QED BY <1>0, <1>6, <2>1, <2>2
<1>. QED BY <1>6, <1>12 DEF n

\* Every unit of a single page that alloc hands out is RAM of the firmware's
\* map (memoryBitmapIndexToPhysical), provided that the number which the rest
\* of an area shares with the next area is reserved.
THEOREM FramesAreRam ==
  ASSUME EndsReserved
  PROVE  Spec => []OnlyRam
<1>1. TypeOK /\ BitmapExact /\ NoSharedFrame => OnlyRam
  <2>. SUFFICES ASSUME TypeOK, NoSharedFrame,
                       NEW b \in blocks, b.count = 1,
                       NEW u \in b.start..b.start + b.count * PageSize - 1
                PROVE  \E i \in DOMAIN MemoryMap :
                         /\ MemoryMap[i].ram
                         /\ u \in MemoryMap[i].base..MemoryMap[i].base + MemoryMap[i].length - 1
    BY DEF OnlyRam
  <2>1. PICK k \in Indices : b.start = FrameOf(k)
    BY DEF TypeOK, Blocks
  <2>2. PageSize \in Nat /\ 1 * PageSize = PageSize /\ 1 \in 1..MaxCount
    BY AllocatorAssumption
  <2>3. k \in BlockBits(b)
    BY <2>1, <2>2, AllocatorAssumption DEF MapIsSound, BlockBits
  <2>4. k \notin ReservedBits
    BY <2>3 DEF NoSharedFrame
  <2>. QED BY <2>1, <2>2, <2>4, PageIsRam
<1>. QED BY <1>1, FramesTypeCorrect, FramesExact, PTL
==============================================================================
