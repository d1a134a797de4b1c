------------------------------- MODULE Messages -------------------------------
(***************************************************************************)
(* What a process asks of another one: send_message, ask_abilities and the *)
(* memory of create_child (src/src/high/process/process.cpp), with the     *)
(* methods of the kernel process (src/src/high/init/start.cpp).            *)
(*                                                                         *)
(* On this kernel the only thread that makes system calls is /main's, the  *)
(* only process it reaches alive is its parent, the kernel process (a      *)
(* NUMBER or STRING look-up that succeeds ends in Process's "corrupt"),    *)
(* and only that one has methods: registering drops what it read.          *)
(*                                                                         *)
(* Addresses are bytes; a page has PageSize of them.  A system call runs   *)
(* under the global spinlock, but it stops half-way when an argument is    *)
(* refused, so its steps are modelled one by one.                          *)
(***************************************************************************)
EXTENDS Integers, FiniteSets, Sequences, FiniteSetsExt, SequencesExt

CONSTANTS
  PageSize,
  SourcePages,    \* bound: the pages of /main; page p lies in frame SourceFrame[p]
  SourceFrame,
  Methods,        \* the kernel process's methods: their arguments' types
  Halting,        \* the methods that do not return
  WindowStart,    \* the first page of the argument window, 16_Ti in the code
  Record,         \* sizeof(syscall::method_descriptor)
  NameSize,       \* of each method: the length of its name with the final 0
  BufferSizes,    \* bound: the answer buffers asked with
  Frames,         \* bound: the frames children are given, numbered upwards
  ChildSizes      \* bound: the sizes and offsets of a child's memory

ASSUME MessagesAssumption ==
  /\ PageSize \in Nat \ {0} /\ SourcePages \subseteq Nat /\ IsFiniteSet(SourcePages)
  /\ Record \in Nat \ {0} /\ BufferSizes \subseteq Nat
  /\ NameSize \in [DOMAIN Methods -> Nat \ {0}]
  /\ Methods \in Seq(Seq({"number", "string"}))
  /\ \A m \in DOMAIN Methods : \A i, j \in DOMAIN Methods[m] :
       Methods[m][i] = "string" /\ Methods[m][j] = "string" => i = j
  /\ WindowStart \in Nat \ {0} /\ Frames \subseteq Nat
  /\ ChildSizes \subseteq [size : Nat, offset : 0..PageSize - 1]

None == -1
Page(address) == address \div PageSize

\* A zero-terminated string at ptr, its 0 at ptr + length.
Strings == {s \in [ptr : 0..PageSize * (Cardinality(SourcePages) + 1),
                   length : 0..PageSize * Cardinality(SourcePages)] :
              \A b \in s.ptr..s.ptr + s.length : Page(b) \in SourcePages}
Number == [ptr |-> None, length |-> 0]

VARIABLES
  phase,       \* "idle", "placing", "calling" or "halted"
  working,     \* thread.working_in: who works for whom, innermost last
  method,      \* of the message under way: its method
  given,       \* data->arguments
  next,        \* how many arguments are placed
  areas,       \* method_call_argument_memory: pages, counted from the start of
               \* the window, with their frames
  keys,        \* area_keys, what cleanup will remove
  window,      \* the page tables' entries of the argument window
  outcome,     \* of the last message: "none", "done" or "refused"
  answer,      \* of ask_abilities: what was written, from where to where, until
               \* the caller goes on
  space,       \* the size of the buffer it was written to
  owner,       \* of each frame: the number of the child that has it, or None
  cleared      \* of each child: the frames that creating it overwrote

message == <<phase, working, method, given, next, areas, keys, window, outcome>>
vars == <<message, answer, space, owner, cleared>>

Init ==
  /\ phase = "idle" /\ working = <<>> /\ method = None /\ given = <<>>
  /\ next = 0 /\ areas = {} /\ keys = {} /\ window = <<>> /\ outcome = "none"
  /\ answer = <<>> /\ space = 0
  /\ owner = [f \in Frames |-> None] /\ cleared = <<>>

-----------------------------------------------------------------------------
(* send_message *)

\* A message to itself finds no method; so does one the kernel does not have.
Forget == method' = None /\ given' = <<>> /\ next' = 0 /\ keys' = {}

Refused == /\ outcome' = "refused"
           /\ UNCHANGED <<phase, working, method, given, next, areas, keys, window>>

SendToSelf == phase = "idle" /\ Refused

SendToParent(m, values) ==
  /\ phase = "idle"
  /\ IF m \notin DOMAIN Methods THEN Refused
     ELSE /\ working' = Append(working, "kernel")
          /\ phase' = "placing" /\ method' = m /\ given' = values /\ next' = 0
          /\ outcome' = "none"
          /\ UNCHANGED <<areas, keys, window>>

\* Mutant: the rest of the last page is not counted.
RoundedShort(s) == IF s.length = 0 THEN 0
                   ELSE s.length + (s.ptr % PageSize)
                        + ((-(s.length + s.ptr)) % PageSize)

\* The bytes to map: from the start of the first page to the end of the page
\* behind the last character.  A string that fills its page takes one more,
\* which is where its final 0 is.
Rounded(s) == IF s.length = 0 THEN 0
              ELSE s.length + (s.ptr % PageSize)
                   + (PageSize - ((s.length + s.ptr) % PageSize))

\* Where the search for n free pages ends, from the start of the window.  A gap
\* in front of the first area is taken (a distance has no sign).  What should
\* round the end of an area up keeps the bytes behind the last whole page and
\* drops the page: with one area at the start, the search ends in page 0.
LastEnd(n) ==
  LET end == PageSize * (WindowStart + Max({a.page : a \in areas}) + 1)
      aligned == (end + PageSize - 1) % PageSize
  IN IF areas = {} \/ Min({a.page : a \in areas}) \notin 0..n - 1 THEN 0
     ELSE Page(aligned) - WindowStart

\* The pages a string takes.
PageCount(s) == Rounded(s) \div PageSize

\* The window pages of a string, with the frames PageTable::get finds: each
\* page becomes an area of its own, since the test that would join two
\* compares an address of the source with one of the target.
PagesFor(s) == {[page |-> LastEnd(PageCount(s)) + k, frame |-> SourceFrame[Page(s.ptr) + k]] :
                  k \in 0..PageCount(s) - 1}

Cleanup == /\ areas' = {a \in areas : a.page \notin keys}
           /\ working' = Front(working)

\* The next argument of a message.  One the caller did not give is read all
\* the same, from behind its array: `values' holds what stands there.  An
\* empty string has the size 0 and is passed over like a number: not even the
\* page of its final 0 is mapped.  The pages of any other were read to find its
\* end, so that the refusal, for a page that is not there, waits for methods
\* of other kinds than the kernel's.
Place ==
  /\ phase = "placing" /\ next < Len(Methods[method])
  /\ LET s == given[next + 1]
         there == {Page(s.ptr) + k : k \in 0..PageCount(s) - 1}
     IN IF Methods[method][next + 1] = "number" \/ s.length = 0
        THEN next' = next + 1
             /\ UNCHANGED <<phase, working, method, given, areas, keys, outcome>>
        ELSE IF there \subseteq SourcePages
        THEN /\ areas' = areas \cup PagesFor(s)
             /\ keys' = keys \cup {a.page : a \in PagesFor(s)}
             /\ next' = next + 1
             /\ UNCHANGED <<phase, working, method, given, outcome>>
        ELSE Cleanup /\ Forget /\ phase' = "idle" /\ outcome' = "refused"
  /\ UNCHANGED window

\* process::load, and the call.
Call ==
  /\ phase = "placing" /\ next = Len(Methods[method])
  /\ window' = [p \in {a.page : a \in areas} \cup DOMAIN window |->
                  IF \E a \in areas : a.page = p
                  THEN (CHOOSE a \in areas : a.page = p).frame ELSE window[p]]
  /\ phase' = IF method \in Halting THEN "halted" ELSE "calling"
  /\ UNCHANGED <<working, method, given, next, areas, keys, outcome>>

\* Mutant: the areas of a call outlive it.
ReturnKeeping == /\ phase = "calling"
                 /\ working' = Front(working) /\ Forget
                 /\ phase' = "idle" /\ outcome' = "done"
                 /\ UNCHANGED <<window, areas>>

Return == /\ phase = "calling"
          /\ Cleanup /\ Forget
          /\ phase' = "idle" /\ outcome' = "done"
          /\ UNCHANGED window

-----------------------------------------------------------------------------
(* ask_abilities of the kernel process *)

Sums(sizes) ==
  LET s[i \in 0..Len(sizes)] == IF i = 0 THEN 0 ELSE s[i - 1] + sizes[i] IN s

\* Mutant: a part is written when the one before it fitted.
FittingOver(sizes, n) ==
  Max({0} \cup {i \in 1..Len(sizes) : Sums(sizes)[i - 1] < n})

\* How many of the parts of these sizes are written to a buffer of n bytes:
\* each loop stops at the first that does not fit.
Fitting(sizes, n) == Max({i \in 0..Len(sizes) : Sums(sizes)[i] <= n})

Written(what, at, size) == [what |-> what, from |-> at, to |-> at + size]

\* The three loops: a record per method, the arguments (each takes as much as
\* a method's record), the names.  A name also sets a field of its method's
\* record, whether or not that record was given.
Answer(n) ==
  LET count == Len(Methods)
      records == [m \in 1..count |-> Record]
      arguments == [m \in 1..count |-> Record * Len(Methods[m])]
      a == Fitting(records, n)
      n2 == n - Sums(records)[a]
      b == Fitting(arguments, n2)
      n3 == n2 - Sums(arguments)[b]
      c == Fitting(NameSize, n3)
      start2 == Sums(records)[a]
      start3 == start2 + Sums(arguments)[b]
  IN [m \in 1..a |-> Written("record", Sums(records)[m - 1], Record)]
     \o [m \in 1..b |-> Written("arguments", start2 + Sums(arguments)[m - 1], arguments[m])]
     \o [m \in 1..c |-> Written("name", start3 + Sums(NameSize)[m - 1], NameSize[m])]
     \o [m \in 1..c |-> Written("field", Record * (m - 1), Record)]

AskParent(n) == /\ phase = "idle"
                /\ answer' = Answer(n) /\ space' = n
                /\ UNCHANGED <<message, owner, cleared>>

-----------------------------------------------------------------------------
(* create_child's memory *)

Up(n) == (n + PageSize - 1) \div PageSize

\* Mutant: the last, partly used page gets no frame.
PagesShort(d) == (d.size + d.offset) \div PageSize

\* The frames a descriptor gets: size / page_size, size already raised by the
\* offset in the first page and by page_size - 1.
PagesOf(d) == (d.size + d.offset + PageSize - 1) \div PageSize

\* The memory is cleared by that raised size, not by the pages it got.
ClearedPages(d) == Up(d.size + d.offset + PageSize - 1)

CreateChild(d) ==
  /\ phase = "idle"
  /\ \E f \in Frames :
       LET own == f..f + PagesOf(d) - 1
           child == Len(cleared) + 1
       IN /\ \A g \in own : g \in Frames /\ owner[g] = None
          /\ owner' = [g \in Frames |-> IF g \in own THEN child ELSE owner[g]]
          /\ cleared' = Append(cleared, f..f + ClearedPages(d) - 1)
  /\ answer' = <<>> /\ space' = 0
  /\ UNCHANGED message

-----------------------------------------------------------------------------
\* The arguments a call reads: as many as the method has, and at most one of
\* them a string.
Arguments(m) ==
  IF m \in DOMAIN Methods
  THEN {[i \in DOMAIN Methods[m] |-> IF Methods[m][i] = "string" THEN s ELSE Number] :
          s \in Strings}
  ELSE {<<>>}

Send == /\ \/ SendToSelf
           \/ \E m \in 1..Len(Methods) + 1 : \E v \in Arguments(m) : SendToParent(m, v)
           \/ Place
           \/ Call
           \/ Return
        /\ answer' = <<>> /\ space' = 0
        /\ UNCHANGED <<owner, cleared>>

Next == \/ Send
        \/ \E n \in BufferSizes : AskParent(n)
        \/ \E d \in ChildSizes : CreateChild(d)

Spec == Init /\ [][Next]_vars

-----------------------------------------------------------------------------
(* Properties *)

\* While a method runs, each byte of each string argument that is not empty, the
\* final 0 included, is mapped in the target's window, in order and from the
\* frame it is in: the rounding of sizes and ends leaves out no page.  Of an
\* empty string nothing is mapped (process.cpp:525), its final 0 neither.
ArgumentsReach ==
  phase = "calling" =>
    \A i \in DOMAIN given :
      given[i] # Number /\ given[i].length > 0 =>
        LET s == given[i]
        IN \A b \in s.ptr..s.ptr + s.length :
             LET p == Page(b) - Page(s.ptr)
             IN p \in DOMAIN window /\ window[p] = SourceFrame[Page(b)]

\* Arguments are placed inside the window, one message after the other.  The
\* search has a wrong end behind an area (process.cpp:543), below the window,
\* where the target's own code lies: it is right only because each message
\* takes its areas back before the next is placed, and has at most one string.
PlacedInWindow == \A a \in areas : a.page >= 0

\* An answer with room for all the method records stays in the caller's
\* buffer, and no part of it overwrites another.
AnswerFits ==
  LET Part(i) == answer[i].what # "field"
  IN space >= Record * Len(Methods) =>
       /\ \A i \in DOMAIN answer : answer[i].to <= space
       /\ \A i, j \in DOMAIN answer :
            Part(i) /\ Part(j) /\ i < j => answer[i].to <= answer[j].from

\* Creating a child clears all the frames it got and, beyond them, no more
\* than the one that follows: what lies there is lost to whoever has it.
ClearsOneTooMany ==
  \A c \in DOMAIN cleared :
    LET own == {f \in Frames : owner[f] = c}
    IN /\ own \subseteq cleared[c]
       /\ cleared[c] \subseteq own \cup {f + 1 : f \in own}
===============================================================================
