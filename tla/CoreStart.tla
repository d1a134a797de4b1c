------------------------------- MODULE CoreStart -------------------------------
(***************************************************************************)
(* From the firmware's table to running processors: MADT::init, the I/O    *)
(* APICs and the start of the other processors in                          *)
(* src/src/high/ACPI/APIC.cpp, with the handler table of interrupt.cpp.    *)
(*                                                                         *)
(* The boot processor and a starting one share the word stack_ptr of the   *)
(* trampoline and the flag ap_response.  They run at their own pace: a      *)
(* sleep of the boot processor may be shorter or longer than any step of   *)
(* the other.  The first start-up message may be lost.  A calibration is   *)
(* one tick of the PIT that has to arrive.                                 *)
(***************************************************************************)
EXTENDS Integers, FiniteSets, Sequences

CONSTANTS
  Tables,       \* the MADTs a machine may have, as sequences of entries
  VectorCount,  \* 256 in the code
  FirstVector,  \* 32: the vectors below belong to exceptions
  Repeat        \* the measurements of a calibration, 10 in the code

Vectors == 0..VectorCount - 1

\* The entries that the code reads: [type 0, apic_id, present], whether the
\* processor is there at all, [type 1, base, pins] and [type 2, from, to].  The
\* boot processor has apic_id 0.
BootId == 0

ASSUME CoreAssumption ==
  /\ FirstVector \in Nat /\ VectorCount \in Nat /\ FirstVector + 2 < VectorCount
  /\ Repeat \in Nat \ {0}
  /\ \A t \in Tables : \A i \in DOMAIN t : t[i].type \in {0, 1, 2}

VARIABLES
  table,
  handlers,     \* interrupt_handlers: vector |-> who registered last
  redirection,  \* the I/O APICs: <<i, pin>> |-> [vector, mask]
  timerVector,
  bsp,          \* where the boot processor is
  round,        \* measurements of the calibration that are left
  next,         \* i of initLocalAPIC
  stackPtr,     \* trampoline_stack_ptr: whose stack was put there last
  response,     \* ap_response
  sipiLost,     \* whether a start-up message was lost
  ap,           \* core |-> how far it has come
  stack         \* core |-> the stack it runs on

apic == <<handlers, redirection, timerVector, round>>
hand == <<next, stackPtr, response, sipiLost, ap, stack>>
coreVars == <<table, apic, bsp, hand>>

-----------------------------------------------------------------------------
(* MADT::init *)

\* search and count_madt_entries: the entries of a type, in order.
Found(type) == SelectSeq(table, LAMBDA e : e.type = type)

cores == Found(0)
ioapics == Found(1)
io_interrupt_source_overrides == Found(2)
core_count == Len(cores)

Nobody == "nobody"

\* initIOAPIC numbers the pins of all I/O APICs through, in the table's order;
\* a vector has as many bits as VectorCount has values.
PinsBefore(i) ==
  LET p[k \in 0..Len(ioapics)] == IF k = 0 THEN 0 ELSE p[k - 1] + ioapics[k].pins
  IN p[i - 1]

PinVector(i, pin) == (FirstVector + PinsBefore(i) + pin) % VectorCount

Pins == UNION {{<<i, pin>> : pin \in 0..ioapics[i].pins - 1} : i \in DOMAIN ioapics}

InitIOAPIC ==
  /\ bsp = "table"
  /\ redirection' = [p \in Pins |-> [vector |-> PinVector(p[1], p[2]), mask |-> TRUE]]
  /\ handlers' = [v \in Vectors |->
                    IF \E p \in Pins : PinVector(p[1], p[2]) = v THEN "unhandled" ELSE handlers[v]]
  /\ bsp' = "calibrate" /\ round' = Repeat
  /\ UNCHANGED <<table, timerVector, hand>>

-----------------------------------------------------------------------------
(* IOAPIC::interrupt_handler and interrupt_set_mask *)

\* The global number of a line: the first override that names it.
Gsi(line) ==
  LET o == io_interrupt_source_overrides
      named == {k \in DOMAIN o : o[k].from = line}
  IN IF named = {} THEN line
     ELSE o[CHOOSE k \in named : \A j \in named : k <= j].to

\* Both count from the first I/O APIC, whatever the one they found begins with.
Serving(line) ==
  {i \in DOMAIN ioapics : Gsi(line) \in ioapics[i].base..ioapics[i].base + ioapics[i].pins - 1}

MaskedAs(line, mask) ==
  LET at == <<CHOOSE i \in Serving(line) : \A j \in Serving(line) : i <= j, Gsi(line)>>
  IN IF Serving(line) = {} \/ at \notin DOMAIN redirection THEN redirection
     ELSE [redirection EXCEPT ![at].mask = mask]

\* The pin that a line is wired to, and whether its interrupts reach a handler.
Wire(line) ==
  LET i == CHOOSE i \in Serving(line) : TRUE IN <<i, Gsi(line) - ioapics[i].base>>

Heard(line, who) ==
  /\ Serving(line) # {}
  /\ ~redirection[Wire(line)].mask
  /\ handlers[redirection[Wire(line)].vector] = who

-----------------------------------------------------------------------------
(* initLocalAPICTimer *)

PitLine == 0

Calibrate ==
  /\ bsp = "calibrate"
  /\ IF Gsi(PitLine) + FirstVector \in Vectors
     THEN /\ handlers' = [handlers EXCEPT ![Gsi(PitLine) + FirstVector] = "pit"]
          /\ redirection' = MaskedAs(PitLine, FALSE)
          /\ bsp' = "measure"
     ELSE bsp' = "panic" /\ UNCHANGED <<handlers, redirection>>
  /\ UNCHANGED <<table, timerVector, round, hand>>

\* The flag is set before interrupts are enabled, so that the tick that ends a
\* measurement is not missed.
PitTick ==
  /\ bsp = "measure" /\ Heard(PitLine, "pit")
  /\ round' = round - 1
  /\ bsp' = IF round = 1 THEN "vector" ELSE "measure"
  /\ UNCHANGED <<table, handlers, redirection, timerVector, hand>>

\* get_free_interrupt_number, which reserves nothing.
Free == {v \in FirstVector..VectorCount - 2 : handlers[v] = Nobody}
Lowest(v) == v \in Free /\ \A w \in Free : v <= w

TakeVector ==
  /\ bsp = "vector"
  /\ redirection' = MaskedAs(PitLine, TRUE)
  /\ \/ Free = {} /\ bsp' = "panic" /\ UNCHANGED <<timerVector, next>>
     \/ \E v \in Free : Lowest(v) /\ timerVector' = v /\ bsp' = "core" /\ next' = 2
  /\ UNCHANGED <<table, handlers, round, stackPtr, response, sipiLost, ap, stack>>

-----------------------------------------------------------------------------
(* initLocalAPIC: one core after the other, from the second of the table *)

\* A core is named by its place in the table.
NextCore ==
  /\ bsp = "core"
  /\ \/ next > core_count /\ bsp' = "done" /\ UNCHANGED <<next, stackPtr>>
     \/ /\ next <= core_count /\ cores[next].apic_id = BootId
        /\ next' = next + 1 /\ UNCHANGED <<bsp, stackPtr>>
     \/ /\ next <= core_count /\ cores[next].apic_id # BootId
        /\ stackPtr' = next /\ bsp' = "init" /\ UNCHANGED next
  /\ UNCHANGED <<table, apic, response, sipiLost, ap, stack>>

\* notify registers the timer's handler again at every sleep.
Slept == handlers' = [handlers EXCEPT ![timerVector] = "timer"]

\* INIT and its end; a processor that is not there does not answer.
SendInit ==
  /\ bsp = "init"
  /\ ap' = [ap EXCEPT ![next] = IF cores[next].present THEN "waiting" ELSE @]
  /\ Slept
  /\ bsp' = "clear"
  /\ UNCHANGED <<table, redirection, timerVector, round, next, stackPtr, response, sipiLost, stack>>

\* Mutant: the answer of the core before is left.
ResponseLeft == response

\* The answer of the processor before is forgotten.
ResponseCleared == FALSE

ClearResponse ==
  /\ bsp = "clear"
  /\ response' = ResponseCleared
  /\ bsp' = "sipi"
  /\ UNCHANGED <<table, apic, next, stackPtr, sipiLost, ap, stack>>

\* Only a processor that waits for it takes a start-up message.
Delivered == ap' = [ap EXCEPT ![next] = IF @ = "waiting" THEN "fetch" ELSE @]

SendSipi ==
  /\ bsp = "sipi"
  /\ \/ Delivered /\ UNCHANGED sipiLost
     \/ sipiLost' = TRUE /\ UNCHANGED ap
  /\ bsp' = "check"
  /\ UNCHANGED <<table, apic, next, stackPtr, response, stack>>

\* One millisecond later, which is soon for a slow processor.
\* Mutant: the second message is sent to those that answered.
SendsAgainLate == response

\* A second message goes to a processor that has not answered the first.
SendsAgain == ~response

SecondSipi ==
  /\ bsp = "check"
  /\ IF SendsAgain THEN Delivered ELSE UNCHANGED ap
  /\ bsp' = "wait"
  /\ UNCHANGED <<table, apic, next, stackPtr, response, sipiLost, stack>>

Answered ==
  /\ bsp = "wait" /\ response
  /\ bsp' = "core" /\ next' = next + 1
  /\ UNCHANGED <<table, apic, stackPtr, response, sipiLost, ap, stack>>

(* trampoline_entry_64 and ap_cpu *)

FetchStack(c) ==
  /\ ap[c] = "fetch"
  /\ stack' = [stack EXCEPT ![c] = stackPtr]
  /\ ap' = [ap EXCEPT ![c] = "entered"]
  /\ UNCHANGED <<table, apic, bsp, next, stackPtr, response, sipiLost>>

Respond(c) ==
  /\ ap[c] = "entered"
  /\ response' = TRUE
  /\ ap' = [ap EXCEPT ![c] = "up"]
  /\ UNCHANGED <<table, apic, bsp, next, stackPtr, sipiLost, stack>>

-----------------------------------------------------------------------------

CoreInit ==
  /\ table \in Tables
  /\ handlers = [v \in Vectors |-> IF v < FirstVector THEN "exception" ELSE Nobody]
  /\ redirection = <<>> /\ timerVector = 0
  /\ bsp = "table" /\ round = 0
  /\ next = 0 /\ stackPtr = 0 /\ response = FALSE /\ sipiLost = FALSE
  /\ ap = [c \in DOMAIN cores |-> "off"] /\ stack = [c \in DOMAIN cores |-> 0]

BspStep ==
  \/ InitIOAPIC \/ Calibrate \/ PitTick \/ TakeVector
  \/ NextCore \/ SendInit \/ ClearResponse \/ SendSipi \/ SecondSipi \/ Answered

ApStep(c) == FetchStack(c) \/ Respond(c)

CoreNext == BspStep \/ \E c \in DOMAIN ap : ApStep(c)

CoreSpec == CoreInit /\ [][CoreNext]_coreVars

-----------------------------------------------------------------------------
(* Properties *)

\* No two processors run on one stack, however slow each of them is: the word
\* in the trampoline is not written before the one before has fetched it.
OwnStack ==
  \A c \in DOMAIN stack : stack[c] # 0 =>
    stack[c] = c /\ \A d \in DOMAIN stack \ {c} : stack[d] # stack[c]

\* A machine that the start is made for: the boot processor is listed first, every
\* listed processor is there, the PIT's line ends at an I/O APIC that begins
\* with number 0 and is listed first, and a vector is left.
Usual ==
  /\ cores[1].apic_id = BootId /\ \A c \in DOMAIN cores : cores[c].present
  /\ Serving(PitLine) = {1} /\ ioapics[1].base = 0
  /\ PinsBefore(Len(ioapics) + 1) + FirstVector < VectorCount - 1

=============================================================================
