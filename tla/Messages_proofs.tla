--------------------------- MODULE Messages_proofs ---------------------------
(***************************************************************************)
(* Proofs about Messages for every page size, every layout of the sender's *)
(* memory and every table of methods that take at most one string:         *)
(* arguments are placed inside the window, a string that is not empty      *)
(* arrives whole, what the creation of a child clears beyond its own       *)
(* frames, and that an answer fits.                                        *)
(***************************************************************************)
EXTENDS Messages, FiniteSetTheorems, SequenceTheorems, WellFoundedInduction, TLAPS

\* A set of numbers has a least one.
LEMMA Least ==
  ASSUME NEW S \in SUBSET Nat, S # {}
  PROVE  \E m \in S : \A n \in S : m <= n
<1>. DEFINE R == StrictSubsetOrdering(Nat)
            F == FiniteSubsetsOf(Nat)
            T == {0..n : n \in S}
<1>1. IsWellFoundedOn(R, F)
  BY FS_StrictSubsetOrderingWellFounded
<1>2. T \subseteq F
  <2>1. \A n \in S : 0..n \in SUBSET Nat /\ IsFiniteSet(0..n)
    BY FS_Interval
  <2>. QED BY <2>1 DEF FiniteSubsetsOf
<1>3. T # {}
  OBVIOUS
<1>4. PICK x \in T : \A y \in T : <<y, x>> \notin R
  <2>. HIDE DEF R, F, T
  <2>. QED BY <1>1, <1>2, <1>3, WFMin
<1>5. PICK m \in S : x = 0..m
  OBVIOUS
<1>6. ASSUME NEW n \in S, n < m PROVE FALSE
  <2>1. 0..n \in T
    OBVIOUS
  <2>2. m \in 0..m /\ m \notin 0..n /\ 0..n \subseteq 0..m
    BY <1>6
  <2>3. 0..n \in F /\ 0..m \in F
    BY <1>2, <1>5, <2>1
  <2>4. <<0..n, x>> \in R
    BY <1>5, <2>2, <2>3 DEF StrictSubsetOrdering, FiniteSubsetsOf
  <2>. QED BY <1>4, <2>1, <2>4
<1>. QED BY <1>6

\* Induction, over a set.
LEMMA SetInduction ==
  ASSUME NEW S, 0 \in S, \A n \in Nat : n \in S => n + 1 \in S
  PROVE  Nat \subseteq S
<1>. SUFFICES ASSUME Nat \ S # {} PROVE FALSE
  OBVIOUS
<1>1. PICK m \in Nat \ S : \A n \in Nat \ S : m <= n
  BY Least
<1>2. m # 0 /\ m - 1 \in Nat
  BY <1>1
<1>3. m - 1 \in S
  BY <1>1, <1>2
<1>. QED BY <1>2, <1>3

-----------------------------------------------------------------------------
(* One message at a time *)

\* A message under way is the only one: its sender is the only one who works
\* for somebody, and cleanup knows each of its areas.
OneMessage ==
  /\ phase \in {"idle", "placing", "calling", "halted"}
  /\ keys = {a.page : a \in areas}
  /\ IF phase = "idle" THEN areas = {} /\ working = <<>>
     ELSE working = <<"kernel">>

\* Cleanup takes the areas of the message and its entry in working_in.
LEMMA CleanupEmpties ==
  ASSUME OneMessage, phase # "idle", Cleanup
  PROVE  areas' = {} /\ working' = <<>>
<1>1. areas' = {} BY DEF Cleanup, OneMessage
<1>2. working = <<"kernel">> BY DEF OneMessage
<1>3. working' = SubSeq(working, 1, Len(working) - 1) BY DEF Cleanup, Front
<1>. QED BY <1>1, <1>2, <1>3

LEMMA OneMessageKept ==
  ASSUME OneMessage, [Next]_vars
  PROVE  OneMessage'
<1>1. CASE Send
  <2>1. CASE SendToSelf BY <2>1 DEF SendToSelf, Refused, OneMessage
  <2>2. ASSUME NEW m, NEW v, SendToParent(m, v) PROVE OneMessage'
    <3>1. CASE m \notin DOMAIN Methods
      BY <2>2, <3>1 DEF SendToParent, Refused, OneMessage
    <3>2. CASE m \in DOMAIN Methods
      <4>1. working' = Append(<<>>, "kernel") /\ phase' = "placing"
            /\ UNCHANGED <<areas, keys>>
        BY <2>2, <3>2 DEF SendToParent, OneMessage
      <4>. QED BY <4>1 DEF OneMessage
    <3>. QED BY <3>1, <3>2
  <2>3. CASE Place
    <3>1. CASE UNCHANGED <<phase, working, areas, keys>> BY <3>1 DEF OneMessage
    <3>2. ASSUME NEW s, areas' = areas \cup PagesFor(s),
                 keys' = keys \cup {a.page : a \in PagesFor(s)},
                 UNCHANGED <<phase, working>>
          PROVE  OneMessage'
      <4>1. phase # "idle" BY <2>3 DEF Place
      <4>2. keys' = {a.page : a \in areas'} BY <3>2 DEF OneMessage
      <4>. QED BY <3>2, <4>1, <4>2 DEF OneMessage
    <3>3. CASE Cleanup /\ Forget /\ phase' = "idle"
      <4>1. phase # "idle" BY <2>3 DEF Place
      <4>2. areas' = {} /\ working' = <<>> BY <3>3, <4>1, CleanupEmpties
      <4>3. keys' = {} BY <3>3 DEF Forget
      <4>. QED BY <3>3, <4>2, <4>3 DEF OneMessage
    <3>. QED BY <2>3, <3>1, <3>2, <3>3 DEF Place
  <2>4. CASE Call BY <2>4 DEF Call, OneMessage
  <2>5. CASE Return
    <3>1. areas' = {} /\ working' = <<>> BY <2>5, CleanupEmpties DEF Return
    <3>2. keys' = {} /\ phase' = "idle" BY <2>5 DEF Return, Forget
    <3>. QED BY <3>1, <3>2 DEF OneMessage
  <2>. QED BY <1>1, <2>1, <2>2, <2>3, <2>4, <2>5 DEF Send
<1>2. ASSUME NEW n, AskParent(n) PROVE OneMessage'
  BY <1>2 DEF AskParent, message, OneMessage
<1>3. ASSUME NEW d, CreateChild(d) PROVE OneMessage'
  BY <1>3 DEF CreateChild, message, OneMessage
<1>4. CASE UNCHANGED vars BY <1>4 DEF vars, message, OneMessage
<1>. QED BY <1>1, <1>2, <1>3, <1>4 DEF Next

-----------------------------------------------------------------------------
(* What is cleared for a child *)

\* Each frame has the number of a child there is, or none, and each child's
\* clearing covers its frames and at most one behind them.
Cleared ==
  /\ owner \in [Frames -> Int] /\ cleared \in Seq(SUBSET Int)
  /\ \A f \in Frames : owner[f] <= Len(cleared)
  /\ ClearsOneTooMany

\* Rounding up twice gives one page too many, or none.
LEMMA RoundedTwice ==
  ASSUME NEW d \in [size : Nat, offset : 0..PageSize - 1], d.size + d.offset > 0
  PROVE  /\ PagesOf(d) \in Nat \ {0}
         /\ ClearedPages(d) \in {PagesOf(d), PagesOf(d) + 1}
<1>. DEFINE n == d.size + d.offset
            P == PageSize
            q == (n + P - 1) \div P
<1>1. P \in Nat \ {0} BY MessagesAssumption DEF MessagesAssumption
<1>2. n \in Nat \ {0} BY <1>1
<1>. HIDE DEF n, P
<1>3. q \in Nat \ {0} /\ (n + P - 1 + P - 1) \div P \in {q, q + 1} BY <1>1, <1>2
<1>. QED BY <1>1, <1>2, <1>3 DEF PagesOf, ClearedPages, Up, n, P

LEMMA CreateClears ==
  ASSUME Cleared, NEW d \in ChildSizes, d.size + d.offset > 0, CreateChild(d)
  PROVE  Cleared'
<1>. DEFINE child == Len(cleared) + 1
            own(f) == f..f + PagesOf(d) - 1
<1>1. d \in [size : Nat, offset : 0..PageSize - 1] /\ Frames \subseteq Nat
  BY MessagesAssumption DEF MessagesAssumption
<1>2. /\ PagesOf(d) \in Nat \ {0}
      /\ ClearedPages(d) \in {PagesOf(d), PagesOf(d) + 1}
  BY <1>1, RoundedTwice
<1>3. child \in Nat \ {0} /\ Len(cleared) \in Nat BY DEF Cleared
<1>4. PICK f \in Frames :
        /\ \A g \in own(f) : g \in Frames /\ owner[g] = None
        /\ owner' = [g \in Frames |-> IF g \in own(f) THEN child ELSE owner[g]]
        /\ cleared' = Append(cleared, f..f + ClearedPages(d) - 1)
  BY DEF CreateChild
<1>5. f \in Nat BY <1>1
<1>. HIDE DEF child, own
<1>6. owner' \in [Frames -> Int] /\ cleared' \in Seq(SUBSET Int)
  BY <1>2, <1>3, <1>4, <1>5 DEF Cleared
<1>7. Len(cleared') = child /\ \A c \in 1..Len(cleared) : cleared'[c] = cleared[c]
  BY <1>4 DEF Cleared, child
<1>8. cleared'[child] = f..f + ClearedPages(d) - 1 BY <1>4 DEF Cleared, child
<1>9. \A g \in Frames : owner'[g] <= child
  BY <1>3, <1>4 DEF Cleared, child
<1>10. ASSUME NEW c \in 1..child
       PROVE  LET mine == {g \in Frames : owner'[g] = c}
              IN mine \subseteq cleared'[c] /\ cleared'[c] \subseteq mine \cup {g + 1 : g \in mine}
  <2>1. CASE c = child
    <3>1. {g \in Frames : owner'[g] = c} = own(f)
      BY <1>3, <1>4, <2>1 DEF Cleared, child
    <3>2. own(f) \subseteq cleared'[c] BY <1>2, <1>5, <1>8, <2>1 DEF own
    <3>3. cleared'[c] \subseteq own(f) \cup {g + 1 : g \in own(f)}
      <4>. SUFFICES ASSUME NEW g \in cleared'[c], g \notin own(f)
                    PROVE  g - 1 \in own(f) /\ g = (g - 1) + 1
        OBVIOUS
      <4>. QED BY <1>2, <1>5, <1>8, <2>1 DEF own
    <3>. QED BY <3>1, <3>2, <3>3
  <2>2. CASE c # child
    <3>1. c \in 1..Len(cleared) BY <1>3, <2>2 DEF child
    <3>2. None # c BY <3>1 DEF None
    <3>3. {g \in Frames : owner'[g] = c} = {g \in Frames : owner[g] = c}
      BY <1>4, <2>2, <3>2
    <3>4. DOMAIN cleared = 1..Len(cleared) BY DEF Cleared
    <3>. QED BY <1>7, <3>1, <3>3, <3>4 DEF Cleared, ClearsOneTooMany
  <2>. QED BY <2>1, <2>2
<1>11. DOMAIN cleared' = 1..child BY <1>6, <1>7
<1>12. ClearsOneTooMany' BY <1>10, <1>11 DEF ClearsOneTooMany
<1>. QED BY <1>6, <1>7, <1>9, <1>12 DEF Cleared

\* CreationClears: for any page size, any frames and any sizes and offsets of
\* children's memory that are not empty, the creation of a child clears every
\* frame the child has and at most the one frame behind them.
THEOREM CreationClears ==
  ASSUME \A d \in ChildSizes : d.size + d.offset > 0
  PROVE  Spec => []ClearsOneTooMany
<1>1. Init => Cleared
  <2>. SUFFICES ASSUME Init PROVE Cleared OBVIOUS
  <2>1. cleared = <<>> /\ owner = [f \in Frames |-> None] BY DEF Init
  <2>2. Len(cleared) = 0 /\ DOMAIN cleared = {} /\ cleared \in Seq(SUBSET Int) BY <2>1
  <2>. QED BY <2>1, <2>2 DEF Cleared, ClearsOneTooMany, None
<1>2. Cleared /\ [Next]_vars => Cleared'
  <2>. SUFFICES ASSUME Cleared, [Next]_vars PROVE Cleared' OBVIOUS
  <2>1. ASSUME NEW d \in ChildSizes, CreateChild(d) PROVE Cleared'
    BY <2>1, CreateClears
  <2>2. CASE UNCHANGED <<owner, cleared>> BY <2>2 DEF Cleared, ClearsOneTooMany
  <2>3. ASSUME NEW n, AskParent(n) PROVE UNCHANGED <<owner, cleared>>
    BY <2>3 DEF AskParent
  <2>. QED BY <2>1, <2>2, <2>3 DEF Next, Send, vars
<1>3. Cleared => ClearsOneTooMany BY DEF Cleared
<1>. QED BY <1>1, <1>2, <1>3, PTL DEF Spec

-----------------------------------------------------------------------------
(* A string arrives whole *)

\* The window pages of a message's only string, from the window's start.
WindowOf(s) == {[page |-> k, frame |-> SourceFrame[Page(s.ptr) + k]] :
                  k \in 0..PageCount(s) - 1}

IsString(i) == Methods[method][i] = "string"

\* The arguments that were placed are those in front of `next': the areas are
\* the pages of the string among them.  None is there before the string is, so
\* the search for a place always ends at the start of the window.
Placed ==
  /\ phase \in {"placing", "calling"} =>
       /\ method \in DOMAIN Methods /\ given \in Arguments(method)
       /\ next \in 0..Len(Methods[method])
  /\ phase = "placing" =>
       /\ areas # {} => \E i \in 1..next : IsString(i)
       /\ \A i \in 1..next : IsString(i) /\ given[i].length # 0 => areas = WindowOf(given[i])
  /\ PlacedInWindow
  /\ ArgumentsReach

\* The bytes of a string and its final 0 lie in as many pages, one after the
\* other, as Rounded has.
LEMMA RoundedCovers ==
  ASSUME NEW ptr \in Nat, NEW length \in Nat \ {0}, NEW b \in ptr..ptr + length
  PROVE  LET s == [ptr |-> ptr, length |-> length]
         IN Page(b) - Page(ptr) \in 0..PageCount(s) - 1
<1>. DEFINE P == PageSize
            q == ptr \div P
            u == (length + ptr) \div P
            r == ptr % P
            v == (length + ptr) % P
            c == b \div P
<1>1. P \in Nat \ {0} BY MessagesAssumption DEF MessagesAssumption
<1>2. b \in Nat /\ b <= length + ptr /\ ptr <= b OBVIOUS
<1>. HIDE DEF P
<1>3. q \in Nat /\ r \in 0..P - 1 /\ ptr = P * q + r BY <1>1
<1>4. u \in Nat /\ v \in 0..P - 1 /\ length + ptr = P * u + v BY <1>1
<1>5. c \in Nat /\ c <= u /\ q <= c BY <1>1, <1>2
<1>6. length + r + (P - v) = P * (u - q + 1)
  <2>. HIDE DEF q, r, u, v
  <2>1. P * (u - q + 1) = P * u - P * q + P BY <1>1, <1>3, <1>4
  <2>. QED BY <1>1, <1>3, <1>4, <2>1
<1>7. (P * (u - q + 1)) \div P = u - q + 1
  <2>. HIDE DEF q, u
  <2>1. \A n \in Int : (P * n) \div P = n BY <1>1
  <2>. QED BY <1>3, <1>4, <2>1
<1>8. Rounded([ptr |-> ptr, length |-> length]) = length + r + (P - v)
  BY DEF Rounded, P
<1>9. PageCount([ptr |-> ptr, length |-> length]) = u - q + 1
  BY <1>6, <1>7, <1>8 DEF PageCount, P
<1>10. c - q \in 0..(u - q + 1) - 1
  <2>. HIDE DEF c, u, q
  <2>. QED BY <1>3, <1>4, <1>5
<1>. QED BY <1>9, <1>10 DEF Page, P

\* Every string has an address and a length.
LEMMA StringTypes == \A s \in Strings : s.ptr \in Nat /\ s.length \in Nat
                                        /\ s = [ptr |-> s.ptr, length |-> s.length]
<1>1. Cardinality(SourcePages) \in Nat
  BY MessagesAssumption, FS_CardinalityType DEF MessagesAssumption
<1>2. PageSize \in Nat BY MessagesAssumption DEF MessagesAssumption
<1>. DEFINE c == Cardinality(SourcePages)
<1>3. PageSize * c \in Nat /\ PageSize * (c + 1) \in Nat BY <1>1, <1>2
<1>. HIDE DEF c
<1>4. \A s \in Strings : s \in [ptr : 0..PageSize * (c + 1), length : 0..PageSize * c]
  BY DEF Strings, c
<1>. QED BY <1>3, <1>4

\* What the caller gives for the arguments of a method.
LEMMA ArgumentTypes ==
  ASSUME NEW m \in DOMAIN Methods, NEW v \in Arguments(m)
  PROVE  /\ DOMAIN v = DOMAIN Methods[m] /\ DOMAIN Methods[m] = 1..Len(Methods[m])
         /\ Len(Methods[m]) \in Nat
         /\ \A i \in DOMAIN Methods[m] :
              /\ Methods[m][i] = "string" => v[i] \in Strings
              /\ Methods[m][i] # "string" => v[i] = Number
<1>1. PICK s \in Strings : v = [i \in DOMAIN Methods[m] |->
                                  IF Methods[m][i] = "string" THEN s ELSE Number]
  BY DEF Arguments
<1>2. Methods[m] \in Seq({"number", "string"})
  <2>1. Methods \in Seq(Seq({"number", "string"})) BY MessagesAssumption DEF MessagesAssumption
  <2>2. m \in 1..Len(Methods) BY <2>1
  <2>. QED BY <2>1, <2>2
<1>. QED BY <1>1, <1>2

\* An argument that is placed leaves the others where they are.
LEMMA PlaceKeeps ==
  ASSUME OneMessage, Placed, Place
  PROVE  Placed'
<1>. DEFINE i0 == next + 1
            s == given[i0]
<1>1. phase = "placing" /\ next < Len(Methods[method]) /\ UNCHANGED window BY DEF Place
<1>2. method \in DOMAIN Methods /\ given \in Arguments(method)
      /\ next \in 0..Len(Methods[method]) /\ Len(Methods[method]) \in Nat
  BY <1>1, ArgumentTypes DEF Placed
<1>3. i0 \in DOMAIN Methods[method] /\ \A i \in 1..next : i \in DOMAIN Methods[method]
  BY <1>1, <1>2, ArgumentTypes
<1>4. CASE /\ Methods[method][i0] = "number" \/ s.length = 0
           /\ next' = next + 1
           /\ UNCHANGED <<phase, working, method, given, areas, keys, outcome>>
  <2>1. next' \in 0..Len(Methods[method]) BY <1>1, <1>2, <1>4
  <2>2. \A i \in 1..next' : i \in 1..next \/ i = i0 BY <1>2, <1>4
  <2>3. areas # {} => \E i \in 1..next' : IsString(i)
    BY <1>1, <1>2, <1>4 DEF Placed
  <2>4. \A i \in 1..next' : IsString(i) /\ given[i].length # 0 => areas = WindowOf(given[i])
    <3>1. IsString(i0) => s.length = 0 BY <1>4 DEF IsString
    <3>. QED BY <1>1, <2>2, <3>1 DEF Placed
  <2>. QED BY <1>1, <1>2, <1>4, <2>1, <2>3, <2>4
       DEF Placed, IsString, WindowOf, ArgumentsReach, PlacedInWindow
<1>5. CASE /\ Methods[method][i0] = "string"
           /\ areas' = areas \cup PagesFor(s) /\ next' = next + 1
           /\ UNCHANGED <<phase, working, method, given, outcome>>
  <2>1. next' \in 0..Len(Methods[method]) BY <1>1, <1>2, <1>5
  <2>2. \A i \in DOMAIN Methods[method] : IsString(i) => i = i0
    BY <1>2, <1>3, <1>5, MessagesAssumption DEF MessagesAssumption, IsString
  <2>3. areas = {}
    <3>1. \A i \in 1..next : ~IsString(i) BY <1>2, <1>3, <2>2
    <3>. QED BY <1>1, <3>1 DEF Placed
  <2>4. areas' = WindowOf(s)
    <3>1. LastEnd(PageCount(s)) = 0 BY <2>3 DEF LastEnd
    <3>2. \A k \in 0..PageCount(s) - 1 : LastEnd(PageCount(s)) + k = k BY <3>1
    <3>. QED BY <1>5, <2>3, <3>2 DEF PagesFor, WindowOf
  <2>5. i0 \in 1..next' /\ IsString(i0) BY <1>2, <1>5 DEF IsString
  <2>6. \A i \in 1..next' : IsString(i) => i = i0
    <3>1. 1..next' \subseteq 1..Len(Methods[method]) BY <1>2, <2>1, <1>5
    <3>2. 1..Len(Methods[method]) = DOMAIN Methods[method] BY <1>2, ArgumentTypes
    <3>. QED BY <2>2, <3>1, <3>2
  <2>7. PlacedInWindow' BY <2>4 DEF WindowOf, PlacedInWindow
  <2>. QED BY <1>1, <1>2, <1>5, <2>1, <2>4, <2>5, <2>6, <2>7
       DEF Placed, IsString, WindowOf, ArgumentsReach
<1>6. CASE Cleanup /\ phase' = "idle"
  BY <1>6 DEF Cleanup, Placed, ArgumentsReach, PlacedInWindow
<1>7. Methods[method][i0] \in {"number", "string"}
  <2>1. Methods \in Seq(Seq({"number", "string"})) BY MessagesAssumption DEF MessagesAssumption
  <2>2. Methods[method] \in Seq({"number", "string"}) BY <1>2, <2>1
  <2>. QED BY <1>3, <2>2
<1>. QED BY <1>4, <1>5, <1>6, <1>7 DEF Place

\* Loading the areas of the message puts the string into the window.
LEMMA CallReaches ==
  ASSUME Placed, Call
  PROVE  Placed'
<1>1. /\ phase = "placing" /\ next = Len(Methods[method])
      /\ phase' \in {"halted", "calling"}
      /\ UNCHANGED <<method, given, next, areas>>
  BY DEF Call
<1>2. method \in DOMAIN Methods /\ given \in Arguments(method)
      /\ next \in 0..Len(Methods[method])
  BY <1>1 DEF Placed
<1>3. ASSUME NEW i \in DOMAIN given, given[i] # Number, given[i].length > 0,
             NEW b \in given[i].ptr..given[i].ptr + given[i].length
      PROVE  LET p == Page(b) - Page(given[i].ptr)
             IN p \in DOMAIN window' /\ window'[p] = SourceFrame[Page(b)]
  <2>. DEFINE s == given[i]
              p == Page(b) - Page(s.ptr)
  <2>1. i \in 1..next /\ IsString(i) /\ s \in Strings
    BY <1>1, <1>2, <1>3, ArgumentTypes DEF IsString
  <2>2. s.ptr \in Nat /\ s.length \in Nat \ {0} /\ s = [ptr |-> s.ptr, length |-> s.length]
    BY <1>3, <2>1, StringTypes
  <2>3. b \in Nat /\ b \in s.ptr..s.ptr + s.length BY <1>3, <2>2
  <2>. HIDE DEF s
  <2>4. p \in 0..PageCount(s) - 1
    <3>. DEFINE ptr == s.ptr
                length == s.length
    <3>1. Page(b) - Page(ptr) \in 0..PageCount([ptr |-> ptr, length |-> length]) - 1
      <4>. HIDE DEF ptr, length
      <4>1. ptr \in Nat /\ length \in Nat \ {0} /\ b \in ptr..ptr + length
        BY <2>2, <2>3 DEF ptr, length
      <4>. QED BY <4>1, RoundedCovers
    <3>. QED BY <2>2, <3>1
  <2>5. areas = WindowOf(s)
    <3>1. \A j \in 1..next : IsString(j) /\ given[j].length # 0 => areas = WindowOf(given[j])
      BY <1>1 DEF Placed
    <3>2. s.length # 0 BY <2>2
    <3>. HIDE DEF WindowOf, IsString
    <3>. QED BY <2>1, <3>1, <3>2 DEF s
  <2>6. \E a \in areas : a.page = p
    <3>. HIDE DEF p
    <3>1. [page |-> p, frame |-> SourceFrame[Page(s.ptr) + p]] \in areas
      BY <2>4, <2>5 DEF WindowOf
    <3>. QED BY <3>1
  <2>7. \A a \in areas : a.page = p => a.frame = SourceFrame[Page(s.ptr) + p]
    BY <2>5 DEF WindowOf
  <2>8. p \in DOMAIN window' /\ window'[p] = SourceFrame[Page(s.ptr) + p]
    <3>1. p \in {a.page : a \in areas} BY <2>6
    <3>2. window' = [x \in {a.page : a \in areas} \cup DOMAIN window |->
                       IF \E a \in areas : a.page = x
                       THEN (CHOOSE a \in areas : a.page = x).frame ELSE window[x]]
      BY DEF Call
    <3>3. window'[p] = (CHOOSE a \in areas : a.page = p).frame BY <2>6, <3>1, <3>2
    <3>4. DOMAIN window' = {a.page : a \in areas} \cup DOMAIN window BY <3>2
    <3>. QED BY <2>6, <2>7, <3>1, <3>3, <3>4
  <2>9. Page(s.ptr) + p = Page(b)
    <3>1. Page(s.ptr) \in Int /\ Page(b) \in Int
      BY <2>2, <2>3, MessagesAssumption DEF Page, MessagesAssumption
    <3>. QED BY <3>1
  <2>. QED BY <2>8, <2>9 DEF s
<1>4. ArgumentsReach' BY <1>1, <1>3 DEF ArgumentsReach, Page
<1>. QED BY <1>1, <1>2, <1>4 DEF Placed, PlacedInWindow

LEMMA PlacedKept ==
  ASSUME OneMessage, Placed, [Next]_vars
  PROVE  Placed'
<1>1. CASE UNCHANGED message
  BY <1>1 DEF message, Placed, IsString, WindowOf, ArgumentsReach, PlacedInWindow
<1>2. CASE SendToSelf
  BY <1>2 DEF SendToSelf, Refused, Placed, IsString, WindowOf, ArgumentsReach, PlacedInWindow
<1>3. ASSUME NEW m \in 1..Len(Methods) + 1, NEW v \in Arguments(m), SendToParent(m, v)
      PROVE  Placed'
  <2>1. CASE m \notin DOMAIN Methods
    BY <1>3, <2>1
       DEF SendToParent, Refused, Placed, IsString, WindowOf, ArgumentsReach, PlacedInWindow
  <2>2. CASE m \in DOMAIN Methods
    <3>1. phase' = "placing" /\ method' = m /\ given' = v /\ next' = 0 /\ areas' = {}
      BY <1>3, <2>2 DEF SendToParent, OneMessage
    <3>2. Len(Methods[m]) \in Nat BY <2>2, ArgumentTypes
    <3>. QED BY <2>2, <3>1, <3>2 DEF Placed, ArgumentsReach, PlacedInWindow, Arguments
  <2>. QED BY <2>1, <2>2
<1>4. CASE Place BY <1>4, PlaceKeeps
<1>5. CASE Call BY <1>5, CallReaches
<1>6. CASE Return BY <1>6 DEF Return, Cleanup, Placed, ArgumentsReach, PlacedInWindow
<1>. QED BY <1>1, <1>2, <1>3, <1>4, <1>5, <1>6
     DEF Next, Send, AskParent, CreateChild, vars, message

LEMMA MessagesSound == Spec => [](OneMessage /\ Placed)
<1>. DEFINE Inv == OneMessage /\ Placed
<1>1. Init => Inv BY DEF Init, OneMessage, Placed, ArgumentsReach, PlacedInWindow
<1>2. Inv /\ [Next]_vars => Inv' BY OneMessageKept, PlacedKept
<1>. QED BY <1>1, <1>2, PTL DEF Spec

\* StringsArrive: for any page size, any memory of the sender and any table of
\* methods with at most one string each, every byte of a string that is not
\* empty and its final 0 is mapped in the window while the method runs, at its
\* place and from the frame it is in.
THEOREM StringsArrive == Spec => []ArgumentsReach
<1>1. Placed => ArgumentsReach BY DEF Placed
<1>. QED BY <1>1, MessagesSound, PTL

\* WindowKeptTo: for any such table and any order of messages, no argument is
\* placed outside of the window: each message takes back its areas, and the
\* only string of the next one finds none, so the wrong end of the search
\* behind an area is never used.
THEOREM WindowKeptTo == Spec => []PlacedInWindow
<1>1. Placed => PlacedInWindow BY DEF Placed
<1>. QED BY <1>1, MessagesSound, PTL

-----------------------------------------------------------------------------
(* An answer fits *)

\* The sums of sizes, one after the other.
LEMMA SumsFacts ==
  ASSUME NEW L \in Nat, NEW sizes \in [1..L -> Nat]
  PROVE  /\ Len(sizes) = L
         /\ Sums(sizes)[0] = 0
         /\ \A i \in 0..L : Sums(sizes)[i] \in Nat
         /\ \A i \in 1..L : Sums(sizes)[i] = Sums(sizes)[i - 1] + sizes[i]
<1>. DEFINE G(g, n) == \A i \in 0..n : g[i] = IF i = 0 THEN 0 ELSE g[i - 1] + sizes[i]
            S == {n \in Nat : n <= L => \E g \in [0..n -> Nat] : G(g, n)}
            F(s) == [i \in 0..L |-> IF i = 0 THEN 0 ELSE s[i - 1] + sizes[i]]
            s == CHOOSE f : f = F(f)
<1>0. Len(sizes) = L
  OBVIOUS
<1>1. 0 \in S
  <2>. DEFINE g == [i \in 0..0 |-> 0]
  <2>1. g \in [0..0 -> Nat] /\ G(g, 0)
    OBVIOUS
  <2>. QED BY <2>1
<1>2. ASSUME NEW n \in Nat, n \in S PROVE n + 1 \in S
  <2>. SUFFICES ASSUME n + 1 <= L PROVE \E g \in [0..n + 1 -> Nat] : G(g, n + 1)
    <3>. HIDE DEF G
    <3>. QED OBVIOUS
  <2>0. \E h \in [0..n -> Nat] : G(h, n)
    <3>. HIDE DEF G
    <3>. QED BY <1>2
  <2>1. PICK h \in [0..n -> Nat] : G(h, n)
    BY <2>0
  <2>. DEFINE g == [i \in 0..n + 1 |-> IF i <= n THEN h[i] ELSE h[n] + sizes[n + 1]]
  <2>2. sizes[n + 1] \in Nat
    OBVIOUS
  <2>3. g \in [0..n + 1 -> Nat]
    BY <2>1, <2>2
  <2>4. ASSUME NEW i \in 0..n + 1
        PROVE  g[i] = IF i = 0 THEN 0 ELSE g[i - 1] + sizes[i]
    <3>1. CASE i <= n
      BY <2>1, <3>1
    <3>2. CASE i = n + 1
      BY <2>1, <3>2
    <3>. QED BY <3>1, <3>2
  <2>. QED BY <2>3, <2>4
<1>3. Nat \subseteq S
  <2>. HIDE DEF S
  <2>. QED BY <1>1, <1>2, SetInduction
<1>4. \E g \in [0..L -> Nat] : G(g, L)
  <2>. HIDE DEF G
  <2>. QED BY <1>3
<1>5. PICK g \in [0..L -> Nat] : G(g, L)
  BY <1>4
<1>6. g = F(g)
  BY <1>5
<1>7. s = F(s)
  <2>. HIDE DEF F
  <2>. QED BY <1>6
<1>8. Sums(sizes) = s
  BY <1>0 DEF Sums
<1>9. G(s, L)
  <2>. HIDE DEF s
  <2>. QED BY <1>7
<1>10. \A i \in 0..L : s[i] \in Nat
  <2>. HIDE DEF s
  <2>. DEFINE T == {n \in Nat : n <= L => s[n] \in Nat}
  <2>1. 0 \in T
    BY <1>9
  <2>2. ASSUME NEW n \in Nat, n \in T PROVE n + 1 \in T
    <3>. SUFFICES ASSUME n + 1 <= L PROVE s[n + 1] \in Nat
      OBVIOUS
    <3>1. n + 1 \in 1..L /\ (n + 1) - 1 = n /\ s[n] \in Nat /\ sizes[n + 1] \in Nat
      BY <2>2
    <3>2. s[n + 1] = s[n] + sizes[n + 1]
      BY <1>9, <3>1
    <3>. QED BY <3>1, <3>2
  <2>3. Nat \subseteq T
    <3>. HIDE DEF T
    <3>. QED BY <2>1, <2>2, SetInduction
  <2>. QED BY <2>3
<1>. HIDE DEF s
<1>. QED BY <1>0, <1>8, <1>9, <1>10

\* They grow.
LEMMA SumsGrow ==
  ASSUME NEW L \in Nat, NEW sizes \in [1..L -> Nat], NEW i \in 0..L, NEW j \in i..L
  PROVE  Sums(sizes)[i] <= Sums(sizes)[j]
<1>0. i \in Nat /\ j \in Nat /\ i <= j /\ j <= L
  OBVIOUS
<1>. DEFINE s == Sums(sizes)
            T == {n \in Nat : i + n <= L => s[i] <= s[i + n]}
<1>1. /\ \A k \in 0..L : s[k] \in Nat
      /\ \A k \in 1..L : s[k] = s[k - 1] + sizes[k]
  BY SumsFacts
<1>. HIDE DEF s
<1>2. 0 \in T
  BY <1>0, <1>1
<1>3. ASSUME NEW n \in Nat, n \in T PROVE n + 1 \in T
  <2>. SUFFICES ASSUME i + (n + 1) <= L PROVE s[i] <= s[i + (n + 1)]
    OBVIOUS
  <2>. DEFINE k == i + (n + 1)
  <2>1. k \in 1..L /\ k - 1 = i + n /\ i + n \in 0..L
    OBVIOUS
  <2>2. s[k] = s[i + n] + sizes[k] /\ sizes[k] \in Nat /\ s[i + n] \in Nat /\ s[i] \in Nat
    BY <1>1, <2>1
  <2>3. s[i] <= s[i + n]
    BY <1>3, <2>1
  <2>. HIDE DEF k
  <2>4. s[i] <= s[k]
    BY <2>2, <2>3
  <2>. QED BY <2>4 DEF k
<1>4. Nat \subseteq T
  <2>. HIDE DEF T
  <2>. QED BY <1>2, <1>3, SetInduction
<1>5. j - i \in T /\ i + (j - i) = j
  <2>. HIDE DEF T
  <2>1. j - i \in Nat /\ i + (j - i) = j
    BY <1>0
  <2>. QED BY <1>4, <2>1
<1>. QED BY <1>0, <1>5 DEF s

\* What fits of the parts, fits.
LEMMA FittingFits ==
  ASSUME NEW L \in Nat, NEW sizes \in [1..L -> Nat], NEW n \in Nat
  PROVE  /\ Fitting(sizes, n) \in 0..L
         /\ Sums(sizes)[Fitting(sizes, n)] <= n
<1>. DEFINE S == {i \in 0..L : Sums(sizes)[i] <= n}
            T == {L - i : i \in S}
<1>1. Fitting(sizes, n) = Max(S)
  BY SumsFacts DEF Fitting
<1>2. 0 \in S
  BY SumsFacts
<1>. HIDE DEF S
<1>3. S \subseteq 0..L
  BY DEF S
<1>4. T \in SUBSET Nat /\ T # {}
  BY <1>2, <1>3
<1>5. PICK m \in T : \A k \in T : m <= k
  BY <1>4, Least
<1>6. PICK x \in S : m = L - x
  OBVIOUS
<1>7. \A y \in S : x >= y
  <2>. SUFFICES ASSUME NEW y \in S PROVE x >= y
    OBVIOUS
  <2>1. L - y \in T
    OBVIOUS
  <2>2. L - x <= L - y
    BY <1>5, <1>6, <2>1
  <2>. QED BY <1>3, <2>2
<1>8. Max(S) \in S
  BY <1>7 DEF Max
<1>. QED BY <1>1, <1>8 DEF S

\* Sequence X is made of R, A, N and F, of these lengths.
Joined(X, R, A, N, F, a, b, c, d) ==
  \A i \in DOMAIN X :
    /\ i \in 1..a + b + c + d
    /\ i <= a => X[i] = R[i]
    /\ a < i /\ i <= a + b => X[i] = A[i - a]
    /\ a + b < i /\ i <= a + b + c => X[i] = N[i - a - b]
    /\ a + b + c < i => X[i] = F[i - a - b - c]

\* Four sequences behind each other.
LEMMA FourParts ==
  ASSUME NEW W, NEW a \in Nat, NEW b \in Nat, NEW c \in Nat, NEW d \in Nat,
         NEW R \in [1..a -> W], NEW A \in [1..b -> W],
         NEW N \in [1..c -> W], NEW F \in [1..d -> W]
  PROVE  Joined(R \o A \o N \o F, R, A, N, F, a, b, c, d)
<1>1. /\ R \in Seq(W) /\ A \in Seq(W) /\ N \in Seq(W) /\ F \in Seq(W)
      /\ Len(R) = a /\ Len(A) = b /\ Len(N) = c /\ Len(F) = d
  OBVIOUS
<1>2. /\ R \o A \in Seq(W) /\ Len(R \o A) = a + b
      /\ \A k \in 1..a + b : (R \o A)[k] = IF k <= a THEN R[k] ELSE A[k - a]
  BY <1>1, ConcatProperties
<1>. DEFINE l == a + b
            m == l + c
            RA == R \o A
            RAN == RA \o N
            X == RAN \o F
<1>3c. l \in Nat /\ m \in Nat
  OBVIOUS
<1>3. l \in Nat /\ l = a + b /\ m \in Nat /\ m = l + c
  OBVIOUS
<1>3a. /\ RA \in Seq(W) /\ Len(RA) = l
       /\ \A k \in 1..l : RA[k] = IF k <= a THEN R[k] ELSE A[k - a]
  BY <1>2
<1>3b. X = R \o A \o N \o F
  OBVIOUS
<1>. HIDE DEF RA, l
<1>4. /\ RAN \in Seq(W) /\ Len(RAN) = l + c
      /\ \A k \in 1..l + c : RAN[k] = IF k <= l THEN RA[k] ELSE N[k - l]
  <2>1. RA \in Seq(W) /\ N \in Seq(W) /\ Len(RA) = l /\ Len(N) = c
    BY <1>1, <1>3a
  <2>. QED BY <1>3c, <2>1, ConcatProperties
<1>5. Len(RAN) = m
  BY <1>4
<1>. HIDE DEF RAN, m
<1>6. /\ Len(X) = m + d /\ X \in Seq(W)
      /\ \A k \in 1..m + d : X[k] = IF k <= m THEN RAN[k] ELSE F[k - m]
  <2>1. RAN \in Seq(W) /\ F \in Seq(W) /\ Len(RAN) = m /\ Len(F) = d
    BY <1>1, <1>4, <1>5
  <2>. QED BY <1>3c, <2>1, ConcatProperties
<1>. HIDE DEF X
<1>. SUFFICES ASSUME NEW i \in DOMAIN X
     PROVE  /\ i \in 1..a + b + c + d
            /\ i <= a => X[i] = R[i]
            /\ a < i /\ i <= a + b => X[i] = A[i - a]
            /\ a + b < i /\ i <= a + b + c => X[i] = N[i - a - b]
            /\ a + b + c < i => X[i] = F[i - a - b - c]
  BY <1>3b DEF Joined
<1>7. i \in 1..m + d
  BY <1>3b, <1>6
<1>8. i <= a => X[i] = R[i]
  BY <1>3, <1>3a, <1>4, <1>6, <1>7, SMTT(30)
<1>9. a < i /\ i <= a + b => X[i] = A[i - a]
  BY <1>3, <1>3a, <1>4, <1>6, <1>7
<1>10. a + b < i /\ i <= a + b + c => X[i] = N[i - (a + b)]
  BY <1>3, <1>4, <1>6, <1>7
<1>11. a + b + c < i => X[i] = F[i - (a + b + c)]
  BY <1>3, <1>6, <1>7
<1>12. i - (a + b) = i - a - b /\ i - (a + b + c) = i - a - b - c /\ i \in 1..a + b + c + d
  BY <1>3, <1>7
<1>. QED BY <1>3b, <1>8, <1>9, <1>10, <1>11, <1>12

\* What is answered is the answer to a buffer that was asked with.
Answered == \/ answer = <<>> /\ space = 0
            \/ \E n \in BufferSizes : answer = Answer(n) /\ space = n

\* Records end where the arguments begin, these where the names begin, and
\* all of them before the end of the buffer; so do the fields of the records.
LEMMA AnswerStays ==
  ASSUME NEW n \in Nat, answer = Answer(n), space = n
  PROVE  AnswerFits
<1>. DEFINE L == Len(Methods)
            records == [m \in 1..L |-> Record]
            arguments == [m \in 1..L |-> Record * Len(Methods[m])]
            SR == Sums(records)
            SA == Sums(arguments)
            SN == Sums(NameSize)
            a == Fitting(records, n)
            n2 == n - SR[a]
            b == Fitting(arguments, n2)
            n3 == n2 - SA[b]
            c == Fitting(NameSize, n3)
            start2 == SR[a]
            start3 == start2 + SA[b]
            R == [m \in 1..a |-> Written("record", SR[m - 1], Record)]
            A == [m \in 1..b |-> Written("arguments", start2 + SA[m - 1], arguments[m])]
            N == [m \in 1..c |-> Written("name", start3 + SN[m - 1], NameSize[m])]
            F == [m \in 1..c |-> Written("field", Record * (m - 1), Record)]
<1>1. answer = R \o A \o N \o F
  BY DEF Answer
<1>2. /\ L \in Nat /\ Record \in Nat
      /\ records \in [1..L -> Nat] /\ arguments \in [1..L -> Nat]
      /\ NameSize \in [1..L -> Nat]
  <2>1. L \in Nat /\ DOMAIN Methods = 1..L
    BY MessagesAssumption
  <2>2. \A m \in 1..L : Len(Methods[m]) \in Nat
    BY MessagesAssumption
  <2>3. \A m \in 1..L : Record * Len(Methods[m]) \in Nat
    BY <2>2, MessagesAssumption
  <2>. QED BY <2>1, <2>3, MessagesAssumption
<1>3. /\ \A m \in 1..L : records[m] = Record
      /\ \A m \in 1..L : arguments[m] \in Nat /\ NameSize[m] \in Nat
  BY <1>2
<1>. HIDE DEF L, records, arguments
<1>4. /\ \A i \in 0..L : SR[i] \in Nat /\ SA[i] \in Nat /\ SN[i] \in Nat
      /\ \A i \in 1..L : /\ SR[i] = SR[i - 1] + records[i]
                         /\ SA[i] = SA[i - 1] + arguments[i]
                         /\ SN[i] = SN[i - 1] + NameSize[i]
  BY <1>2, SumsFacts
<1>5. \A i, j \in 0..L : i <= j => SR[i] <= SR[j] /\ SA[i] <= SA[j] /\ SN[i] <= SN[j]
  <2>. SUFFICES ASSUME NEW i \in 0..L, NEW j \in 0..L, i <= j
                PROVE  SR[i] <= SR[j] /\ SA[i] <= SA[j] /\ SN[i] <= SN[j]
    OBVIOUS
  <2>1. j \in i..L
    BY <1>2
  <2>. QED BY <1>2, <2>1, SumsGrow
<1>6. a \in 0..L /\ SR[a] <= n
  BY <1>2, FittingFits
<1>7. n2 \in Nat /\ n = start2 + n2 /\ start2 \in Nat
  <2>1. SR[a] \in Nat
    BY <1>4, <1>6
  <2>. HIDE DEF a, SR
  <2>. QED BY <1>6, <2>1
<1>. HIDE DEF a, n2
<1>8. b \in 0..L /\ SA[b] <= n2
  BY <1>2, <1>7, FittingFits
<1>9. n3 \in Nat /\ n2 = SA[b] + n3 /\ SA[b] \in Nat
  <2>1. SA[b] \in Nat
    BY <1>4, <1>8
  <2>. HIDE DEF b, SA
  <2>. QED BY <1>7, <1>8, <2>1
<1>. HIDE DEF b, n3
<1>10. c \in 0..L /\ SN[c] <= n3
  BY <1>2, <1>9, FittingFits
<1>. HIDE DEF c, SR, SA, SN
<1>11. /\ a \in 0..L /\ b \in 0..L /\ c \in 0..L /\ L \in Nat
       /\ start2 \in Nat /\ start3 \in Nat /\ start2 + SA[b] = start3
       /\ start3 + SN[c] <= n
  <2>. DEFINE x == SR[a]
              y == SA[b]
              z == SN[c]
  <2>1. x \in Nat /\ y \in Nat /\ z \in Nat
    BY <1>4, <1>6, <1>8, <1>10
  <2>2. n = x + n2 /\ n2 = y + n3 /\ z <= n3 /\ n2 \in Nat /\ n3 \in Nat
    BY <1>7, <1>9, <1>10
  <2>. HIDE DEF x, y, z
  <2>3. x + y \in Nat /\ x + y + z <= n
    BY <2>1, <2>2
  <2>. QED BY <1>2, <1>6, <1>8, <1>10, <2>1, <2>3 DEF x, y, z
<1>12. start2 = SR[a] /\ start2 <= start3 /\ start3 <= n
  <2>1. SN[c] \in Nat
    BY <1>4, <1>10
  <2>. QED BY <1>7, <1>9, <1>11, <2>1
<1>. HIDE DEF start2, start3
\* Each part, by its place in the answer.
<1>13. ASSUME NEW i \in DOMAIN answer
       PROVE  LET x == answer[i]
              IN /\ i \in 1..a + b + c + c
                 /\ i <= a => x = Written("record", SR[i - 1], Record)
                 /\ a < i /\ i <= a + b =>
                      x = Written("arguments", start2 + SA[i - a - 1], arguments[i - a])
                 /\ a + b < i /\ i <= a + b + c =>
                      x = Written("name", start3 + SN[i - a - b - 1], NameSize[i - a - b])
                 /\ a + b + c < i =>
                      x = Written("field", Record * (i - a - b - c - 1), Record)
  <2>. DEFINE W == {R[m] : m \in 1..a} \cup {A[m] : m \in 1..b}
                  \cup {N[m] : m \in 1..c} \cup {F[m] : m \in 1..c}
  <2>1. /\ R \in [1..a -> W] /\ A \in [1..b -> W]
        /\ N \in [1..c -> W] /\ F \in [1..c -> W]
    OBVIOUS
  <2>11. a \in Nat /\ b \in Nat /\ c \in Nat
    BY <1>11
  <2>. HIDE DEF W, R, A, N, F
  <2>12. /\ i \in 1..a + b + c + c
         /\ i <= a => answer[i] = R[i]
         /\ a < i /\ i <= a + b => answer[i] = A[i - a]
         /\ a + b < i /\ i <= a + b + c => answer[i] = N[i - a - b]
         /\ a + b + c < i => answer[i] = F[i - a - b - c]
    <3>1. Joined(R \o A \o N \o F, R, A, N, F, a, b, c, c)
      BY <2>1, <2>11, FourParts, Zenon
    <3>2. Joined(answer, R, A, N, F, a, b, c, c)
      BY <1>1, <3>1
    <3>. QED BY <3>2 DEF Joined
  <2>13. i <= a => i \in 1..a
    BY <2>11, <2>12
  <2>14. a < i /\ i <= a + b => i - a \in 1..b
    BY <2>11, <2>12
  <2>15. a + b < i /\ i <= a + b + c => i - a - b \in 1..c
    BY <2>11, <2>12
  <2>16. a + b + c < i => i - a - b - c \in 1..c
    BY <2>11, <2>12
  <2>. QED BY <2>12, <2>13, <2>14, <2>15, <2>16 DEF R, A, N, F
\* Where it ends.
<1>14. ASSUME NEW i \in DOMAIN answer
       PROVE  /\ i <= a => /\ answer[i].from = SR[i - 1] /\ answer[i].to = SR[i]
                            /\ answer[i].to <= start2
              /\ a < i /\ i <= a + b =>
                   /\ answer[i].from = start2 + SA[i - a - 1]
                   /\ answer[i].to = start2 + SA[i - a]
                   /\ start2 <= answer[i].from /\ answer[i].to <= start3
              /\ a + b < i /\ i <= a + b + c =>
                   /\ answer[i].from = start3 + SN[i - a - b - 1]
                   /\ answer[i].to = start3 + SN[i - a - b]
                   /\ start3 <= answer[i].from /\ answer[i].to <= n
              /\ a + b + c < i => answer[i].what = "field"
  <2>0. i \in 1..a + b + c + c
    BY <1>13
  <2>1. ASSUME i <= a
        PROVE  /\ answer[i].from = SR[i - 1] /\ answer[i].to = SR[i]
               /\ answer[i].to <= start2
    <3>1. i \in 1..L /\ i - 1 \in 0..L /\ i \in 0..L
      BY <1>11, <2>0, <2>1
    <3>2. answer[i] = Written("record", SR[i - 1], Record)
      BY <1>13, <2>1
    <3>3. SR[i] = SR[i - 1] + Record /\ SR[i] <= SR[a]
      BY <1>3, <1>4, <1>5, <1>11, <2>1, <3>1
    <3>. QED BY <1>12, <3>2, <3>3 DEF Written
  <2>2. ASSUME a < i, i <= a + b
        PROVE  /\ answer[i].from = start2 + SA[i - a - 1]
               /\ answer[i].to = start2 + SA[i - a]
               /\ start2 <= answer[i].from /\ answer[i].to <= start3
    <3>. DEFINE k == i - a
    <3>1. k \in 1..L /\ k - 1 \in 0..L /\ k \in 0..L /\ k <= b
      BY <1>11, <2>0, <2>2
    <3>2. answer[i] = Written("arguments", start2 + SA[k - 1], arguments[k])
      BY <1>13, <2>2
    <3>. HIDE DEF k
    <3>3. /\ SA[k] = SA[k - 1] + arguments[k] /\ SA[k] <= SA[b]
          /\ SA[k - 1] \in Nat /\ arguments[k] \in Nat /\ SA[k] \in Nat /\ SA[b] \in Nat
      BY <1>3, <1>4, <1>5, <1>11, <3>1
    <3>4. answer[i].from = start2 + SA[k - 1] /\ answer[i].to = start2 + SA[k - 1] + arguments[k]
      BY <3>2 DEF Written
    <3>5. /\ answer[i].from = start2 + SA[k - 1]
          /\ answer[i].to = start2 + SA[k]
          /\ start2 <= answer[i].from /\ answer[i].to <= start3
      BY <1>11, <3>3, <3>4
    <3>. QED BY <3>5 DEF k
  <2>3. ASSUME a + b < i, i <= a + b + c
        PROVE  /\ answer[i].from = start3 + SN[i - a - b - 1]
               /\ answer[i].to = start3 + SN[i - a - b]
               /\ start3 <= answer[i].from /\ answer[i].to <= n
    <3>. DEFINE k == i - a - b
    <3>1. k \in 1..L /\ k - 1 \in 0..L /\ k \in 0..L /\ k <= c
      BY <1>11, <2>0, <2>3
    <3>2. answer[i] = Written("name", start3 + SN[k - 1], NameSize[k])
      BY <1>13, <2>3
    <3>. HIDE DEF k
    <3>3. /\ SN[k] = SN[k - 1] + NameSize[k] /\ SN[k] <= SN[c]
          /\ SN[k - 1] \in Nat /\ NameSize[k] \in Nat /\ SN[k] \in Nat /\ SN[c] \in Nat
      BY <1>3, <1>4, <1>5, <1>11, <3>1
    <3>4. answer[i].from = start3 + SN[k - 1] /\ answer[i].to = start3 + SN[k - 1] + NameSize[k]
      BY <3>2 DEF Written
    <3>5. /\ answer[i].from = start3 + SN[k - 1]
          /\ answer[i].to = start3 + SN[k]
          /\ start3 <= answer[i].from /\ answer[i].to <= n
      BY <1>11, <3>3, <3>4
    <3>. QED BY <3>5 DEF k
  <2>4. a + b + c < i => answer[i].what = "field"
    BY <1>13 DEF Written
  <2>. QED BY <2>1, <2>2, <2>3, <2>4
<1>17. ASSUME NEW i \in DOMAIN answer, i <= a + b + c
       PROVE  answer[i].from \in Nat /\ answer[i].to \in Nat
  <2>0. i \in 1..a + b + c /\ a \in Nat /\ b \in Nat /\ c \in Nat
    BY <1>11, <1>13, <1>17
  <2>1. CASE i <= a
    <3>1. i \in 0..L /\ i - 1 \in 0..L
      BY <1>11, <2>0, <2>1
    <3>. QED BY <1>4, <1>14, <2>1, <3>1
  <2>2. CASE a < i /\ i <= a + b
    <3>. DEFINE k == i - a
    <3>1. k \in 0..L /\ k - 1 \in 0..L
      BY <1>11, <2>0, <2>2
    <3>2. answer[i].from = start2 + SA[k - 1] /\ answer[i].to = start2 + SA[k]
      BY <1>14, <2>2
    <3>. HIDE DEF k
    <3>. QED BY <1>4, <1>11, <3>1, <3>2
  <2>3. CASE a + b < i
    <3>. DEFINE k == i - a - b
    <3>1. k \in 0..L /\ k - 1 \in 0..L
      BY <1>11, <2>0, <2>3
    <3>2. answer[i].from = start3 + SN[k - 1] /\ answer[i].to = start3 + SN[k]
      BY <1>14, <1>17, <2>3
    <3>. HIDE DEF k
    <3>. QED BY <1>4, <1>11, <3>1, <3>2
  <2>. QED BY <2>0, <2>1, <2>2, <2>3
<1>. SUFFICES ASSUME n >= Record * L
     PROVE  /\ \A i \in DOMAIN answer : answer[i].to <= n
            /\ \A i, j \in DOMAIN answer :
                 /\ answer[i].what # "field" /\ answer[j].what # "field" /\ i < j
                 => answer[i].to <= answer[j].from
  BY DEF AnswerFits, L
<1>15. ASSUME NEW i \in DOMAIN answer PROVE answer[i].to <= n
  <2>0. i \in 1..a + b + c + c
    BY <1>13
  <2>1. ASSUME a + b + c < i PROVE answer[i].to <= n
    <3>. DEFINE k == i - a - b - c
    <3>1. k \in 1..L
      BY <1>11, <2>0, <2>1
    <3>2. answer[i].to = Record * (k - 1) + Record
      BY <1>13, <2>1 DEF Written
    <3>. HIDE DEF k
    <3>3. Record * (k - 1) + Record = Record * k /\ Record * k <= Record * L
      BY <1>2, <3>1
    <3>4. Record * k \in Nat /\ Record * L \in Nat
      BY <1>2, <3>1
    <3>. QED BY <3>2, <3>3, <3>4
  <2>2. a \in Nat /\ b \in Nat /\ c \in Nat /\ i \in Nat
    BY <1>11, <2>0
  <2>3. i <= a => answer[i].to \in Nat /\ answer[i].to <= n
    <3>. SUFFICES ASSUME i <= a PROVE answer[i].to \in Nat /\ answer[i].to <= n
      OBVIOUS
    <3>1. answer[i].to = SR[i] /\ i \in 0..L /\ answer[i].to <= start2
      BY <1>11, <1>14, <2>0
    <3>. QED BY <1>4, <1>11, <1>12, <3>1
  <2>4. a < i /\ i <= a + b => answer[i].to <= n
    <3>. SUFFICES ASSUME a < i, i <= a + b PROVE answer[i].to <= n
      OBVIOUS
    <3>1. answer[i].to = start2 + SA[i - a] /\ i - a \in 0..L /\ answer[i].to <= start3
      BY <1>11, <1>14, <2>0
    <3>2. SA[i - a] \in Nat
      BY <1>4, <3>1
    <3>. QED BY <1>11, <1>12, <3>1, <3>2
  <2>. QED BY <1>14, <2>1, <2>2, <2>3, <2>4
<1>16. ASSUME NEW i \in DOMAIN answer, NEW j \in DOMAIN answer,
              answer[i].what # "field", answer[j].what # "field", i < j
       PROVE  answer[i].to <= answer[j].from
  <2>0. i \in 1..a + b + c + c /\ j \in 1..a + b + c + c
    BY <1>13
  <2>1. i \in 1..a + b + c /\ j \in 1..a + b + c /\ a \in Nat /\ b \in Nat /\ c \in Nat
    BY <1>11, <1>14, <1>16, <2>0
  <2>2. CASE j <= a
    <3>1. i \in 0..L /\ j - 1 \in 0..L /\ i <= j - 1 /\ i <= a
      BY <1>11, <1>16, <2>1, <2>2
    <3>. QED BY <1>5, <1>14, <2>2, <3>1
  <2>3. CASE a < j /\ j <= a + b
    <3>1. CASE i <= a
      BY <1>11, <1>14, <1>17, <2>1, <2>3, <3>1
    <3>2. CASE a < i
      <4>. DEFINE k == i - a
                  l == j - a - 1
      <4>1. k \in 0..L /\ l \in 0..L /\ k <= l /\ i <= a + b
        BY <1>11, <1>16, <2>1, <2>3, <3>2
      <4>2. answer[i].to = start2 + SA[k] /\ answer[j].from = start2 + SA[l]
        BY <1>14, <2>3, <3>2, <4>1
      <4>. HIDE DEF k, l
      <4>3. SA[k] <= SA[l] /\ SA[k] \in Nat /\ SA[l] \in Nat
        BY <1>4, <1>5, <4>1
      <4>. QED BY <1>11, <4>2, <4>3
    <3>. QED BY <2>1, <3>1, <3>2
  <2>4. CASE a + b < j
    <3>1. CASE i <= a + b
      <4>1. answer[i].to <= start3
        BY <1>11, <1>12, <1>14, <1>17, <2>1, <3>1
      <4>2. start3 <= answer[j].from
        BY <1>14, <2>1, <2>4
      <4>3. answer[i].to \in Nat /\ answer[j].from \in Nat
        BY <1>17, <2>1
      <4>. QED BY <1>11, <4>1, <4>2, <4>3
    <3>2. CASE a + b < i
      <4>. DEFINE k == i - a - b
                  l == j - a - b - 1
      <4>1. k \in 0..L /\ l \in 0..L /\ k <= l /\ i <= a + b + c /\ j <= a + b + c
        BY <1>11, <1>16, <2>1, <2>4, <3>2
      <4>2. answer[i].to = start3 + SN[k] /\ answer[j].from = start3 + SN[l]
        BY <1>14, <2>4, <3>2, <4>1
      <4>. HIDE DEF k, l
      <4>3. SN[k] <= SN[l] /\ SN[k] \in Nat /\ SN[l] \in Nat
        BY <1>4, <1>5, <4>1
      <4>. QED BY <1>11, <4>2, <4>3
    <3>. QED BY <2>1, <3>1, <3>2
  <2>. QED BY <2>1, <2>2, <2>3, <2>4
<1>. QED BY <1>15, <1>16

\* An answer of ask_abilities with room for all the records stays inside the
\* caller's buffer, and its parts do not overlap, for any methods, any names
\* and any size of the buffer (thread::on_syscall_ask_abilities).
THEOREM AnswersFit == Spec => []AnswerFits
<1>1. Init => Answered
  BY DEF Init, Answered
<1>2. Answered /\ [Next]_vars => Answered'
  <2>. SUFFICES ASSUME Answered, [Next]_vars PROVE Answered'
    OBVIOUS
  <2>1. CASE answer' = <<>> /\ space' = 0
    BY <2>1 DEF Answered
  <2>2. CASE \E n \in BufferSizes : answer' = Answer(n) /\ space' = n
    BY <2>2 DEF Answered
  <2>3. CASE answer' = answer /\ space' = space
    BY <2>3 DEF Answered
  <2>. QED BY <2>1, <2>2, <2>3 DEF Next, Send, AskParent, CreateChild, vars
<1>3. Answered => AnswerFits
  <2>1. CASE answer = <<>> /\ space = 0
    <3>1. \A i \in DOMAIN answer : FALSE
      BY <2>1
    <3>. QED BY <3>1 DEF AnswerFits
  <2>2. ASSUME NEW n \in BufferSizes, answer = Answer(n), space = n
        PROVE  AnswerFits
    BY <2>2, AnswerStays, MessagesAssumption
  <2>. QED BY <2>1, <2>2 DEF Answered
<1>. QED BY <1>1, <1>2, <1>3, PTL DEF Spec
==============================================================================
