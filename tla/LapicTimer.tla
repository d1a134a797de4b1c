------------------------------ MODULE LapicTimer ------------------------------
(***************************************************************************)
(* The local APIC timer of the boot processor: LocalAPIC::notify and       *)
(* ::sleep, the interrupt that drives them (src/src/high/ACPI/APIC.cpp),   *)
(* and how it and the disk controllers come by their interrupt vectors     *)
(* (src/src/high/interrupt/interrupt.cpp, PCI/sata.cpp).                   *)
(*                                                                         *)
(* The hardware counts a register down to 0 once and then raises the       *)
(* timer's vector.  A long wait is cut into chunks of MaxTimerTicks that   *)
(* the interrupt handler loads one after the other.  The handler runs with *)
(* interrupts disabled up to its EOI and is one step.  Each processor has  *)
(* its own counter and its own slot of timer_data_array.                   *)
(***************************************************************************)
EXTENDS Integers, FiniteSets

CONSTANTS
  MaxTimerTicks,  \* max_timer_ticks: the longest chunk
  CounterSize,    \* values of the counter register (2^32)
  Wrap,           \* values of a uint64_t
  TicksPerMs,     \* ticks_per_ms, as calibrated
  NsPerMs,        \* nanoseconds in a millisecond
  Durations,      \* the durations asked for, in nanoseconds
  Vectors,        \* the vectors get_free_interrupt_number goes through
  FixedVectors,   \* those the IO-APIC's handlers are registered for
  SeveralCores    \* core_count > 1: starting the others sleeps first

ASSUME TimerAssumption ==
  /\ MaxTimerTicks \in Nat \ {0}
  /\ CounterSize \in Nat /\ CounterSize > MaxTimerTicks
  /\ Wrap \in Nat \ {0}
  /\ TicksPerMs \in Nat \ {0} /\ NsPerMs \in Nat \ {0}
  /\ Durations \subseteq Nat
  /\ \A ns \in Durations : ns * TicksPerMs < Wrap
  /\ Vectors \subseteq Nat /\ FixedVectors \subseteq Vectors
  /\ \E v \in Vectors \ FixedVectors :
       \A w \in Vectors \ FixedVectors : v <= w
  /\ SeveralCores \in BOOLEAN

\* notify: nanoseconds * ticks_per_ms / 1000000, in 64 bits.
Ticks(ns) == ((ns * TicksPerMs) % Wrap) \div NsPerMs

VARIABLES
  needed,       \* timer_data.ticks_needed
  prevInit,     \* timer_data.prev_init
  count,        \* current_count(), the counter register
  raised,       \* vectors that wait to be delivered
  handler,      \* interrupt_handlers: vector |-> "none", "fixed", "timer", "device"
  timerVector,  \* timer_interrupt
  devices,      \* vectors that controllers were told to raise
  enabled,      \* the processor takes interrupts
  pc,           \* what the kernel is doing, see Pc
  request,      \* the duration notify accepted last
  waited,       \* ticks counted since then
  owed          \* callbacks accepted and not yet made

slot == <<needed, prevInit>>
line == <<handler, timerVector, devices>>
vars == <<slot, count, raised, line, enabled, pc, request, waited, owed>>

-----------------------------------------------------------------------------
\* What the kernel is doing: its other code; between accepting a request and
\* loading the first chunk, for notify or for sleep; waiting in sleep; or
\* halted by one of two panics.
Pc == {"idle", "arm notify", "arm sleep", "asleep",
       "already running", "no vector"}

Panicked == pc \in {"already running", "no vector"}

(* Vectors *)

FreeVectors(h) == {v \in Vectors : h[v] = "none"}

\* get_free_interrupt_number: the lowest vector without a handler.  Nothing
\* reserves it: it stays free until somebody registers a handler.
IsFreeNumber(v, h) == v \in FreeVectors(h) /\ \A w \in FreeVectors(h) : v <= w

Init ==
  /\ needed = 0 /\ prevInit = 0      \* operator new[] zeroes
  /\ count = 0 /\ raised = {}
  /\ handler = [v \in Vectors |-> IF v \in FixedVectors THEN "fixed" ELSE "none"]
  /\ timerVector \in {v \in Vectors : IsFreeNumber(v, handler)}
  /\ devices = {}
  /\ enabled = TRUE                  \* initLocalAPIC
  /\ pc = "idle"
  /\ request = 0 /\ waited = 0 /\ owed = 0

\* initLocalAPIC has started the other cores before anything else runs.
CoresStarted == SeveralCores => handler[timerVector] = "timer"

\* Sata::init takes a vector for its controller, or panics without one.
DeviceSetup ==
  /\ pc = "idle" /\ CoresStarted
  /\ \/ \E v \in Vectors :
          /\ IsFreeNumber(v, handler)
          /\ handler' = [handler EXCEPT ![v] = "device"]
          /\ devices' = devices \cup {v}
          /\ pc' = pc
     \/ /\ FreeVectors(handler) = {}
        /\ pc' = "no vector"
        /\ UNCHANGED <<handler, devices>>
  /\ UNCHANGED <<slot, count, raised, timerVector, enabled, request, waited, owed>>

\* A controller raises the vector it was given. The write of setup_msi never sets the
\* enable bit: a controller is only heard where firmware has set it.
DeviceRaises ==
  /\ ~Panicked
  /\ \E v \in devices : raised' = raised \cup {v}
  /\ UNCHANGED <<slot, count, line, enabled, pc, request, waited, owed>>

-----------------------------------------------------------------------------
(* The timer interrupt *)

\* Mutant: the whole rest goes to the register.
ChunkWhole(n) == n
Chunk(n) == IF n < MaxTimerTicks THEN n ELSE MaxTimerTicks

\* onLocalTimer: the chunk is over; make the callback or load the next one.
OnLocalTimer ==
  LET left == (needed - prevInit) % Wrap
  IN /\ needed' = left
     /\ IF left = 0
        THEN /\ owed' = owed - 1
             /\ UNCHANGED <<prevInit, count>>
        ELSE /\ prevInit' = Chunk(left)
             /\ count' = prevInit' % CounterSize
             /\ owed' = owed

\* The counter reaches 0 once and raises the vector that notify gave it.
Tick ==
  /\ ~Panicked /\ count > 0
  /\ count' = count - 1
  /\ waited' = waited + 1
  /\ raised' = IF count' = 0 THEN raised \cup {timerVector} ELSE raised
  /\ UNCHANGED <<slot, line, enabled, pc, request, owed>>

\* The processor takes a raised vector and runs the handler registered there.
Deliver(v) ==
  /\ ~Panicked /\ enabled /\ v \in raised
  /\ raised' = raised \ {v}
  /\ IF handler[v] = "timer" THEN OnLocalTimer
                             ELSE UNCHANGED <<slot, count, owed>>
  /\ UNCHANGED <<line, enabled, pc, request, waited>>

-----------------------------------------------------------------------------
(* notify and sleep *)

\* Mutant: a running timer is set again.
RunningUnseen == FALSE
Running == needed # 0

\* notify up to its call of onLocalTimer.
Accept(ns, next) ==
  /\ needed' = Ticks(ns)
  /\ prevInit' = 0
  /\ handler' = [handler EXCEPT ![timerVector] = "timer"]
  /\ pc' = next
  /\ request' = ns /\ waited' = 0 /\ owed' = owed + 1
  /\ UNCHANGED <<count, raised, timerVector, devices, enabled>>

\* A notify while the timer runs returns and changes nothing.
Notify(ns) ==
  /\ pc = "idle" /\ CoresStarted /\ ~Running
  /\ Accept(ns, "arm notify")

Sleep(ns) ==
  /\ pc = "idle"
  /\ IF Running
     THEN /\ pc' = "already running"
          /\ UNCHANGED <<slot, count, raised, line, enabled, request, waited, owed>>
     ELSE Accept(ns, "arm sleep")

\* Mutant: sleep waits with interrupts as they were.
EnabledAsBefore == enabled
EnabledAsleep == TRUE

\* notify's own call of onLocalTimer; sleep then enables interrupts and waits.
Arm ==
  /\ pc \in {"arm notify", "arm sleep"}
  /\ OnLocalTimer
  /\ IF pc = "arm sleep" THEN pc' = "asleep" /\ enabled' = EnabledAsleep
                         ELSE pc' = "idle" /\ enabled' = enabled
  /\ UNCHANGED <<raised, line, request, waited>>

\* One turn of sleep's loop.
Spin == pc = "asleep" /\ Running /\ UNCHANGED vars

Wake ==
  /\ pc = "asleep" /\ ~Running
  /\ pc' = "idle"
  /\ UNCHANGED <<slot, count, raised, line, enabled, request, waited, owed>>

\* Code between the calls runs with interrupts on or off.
Toggle ==
  /\ pc = "idle"
  /\ enabled' = ~enabled
  /\ UNCHANGED <<slot, count, raised, line, pc, request, waited, owed>>

Stopped == Panicked /\ UNCHANGED vars

Next ==
  \/ DeviceSetup \/ DeviceRaises \/ Tick
  \/ \E v \in Vectors : Deliver(v)
  \/ \E ns \in Durations : Notify(ns)
  \/ \E ns \in Durations : Sleep(ns)
  \/ Arm \/ Spin \/ Wake \/ Toggle \/ Stopped

\* The counter counts, a raised timer vector is delivered while interrupts
\* are enabled, and the processor executes the code after a call.
Fairness ==
  /\ WF_vars(Tick) /\ WF_vars(Deliver(timerVector))
  /\ WF_vars(Arm) /\ WF_vars(Wake)

Spec == Init /\ [][Next]_vars
FairSpec == Spec /\ Fairness

-----------------------------------------------------------------------------
(* Properties *)

TypeOK ==
  /\ needed \in 0..Wrap - 1
  /\ prevInit \in 0..MaxTimerTicks
  /\ count \in 0..MaxTimerTicks
  /\ raised \in SUBSET Vectors
  /\ handler \in [Vectors -> {"none", "fixed", "timer", "device"}]
  /\ timerVector \in Vectors
  /\ devices \in SUBSET Vectors
  /\ enabled \in BOOLEAN
  /\ pc \in Pc
  /\ request \in Durations \cup {0}
  /\ waited \in Nat
  /\ owed \in Int

\* Every accepted request gets exactly one callback, and ticks_needed tells
\* truly whether one is outstanding, whatever order chunks, interrupts and
\* calls come in: it is the only thing notify and sleep look at.
OneCallback ==
  /\ owed \in {0, 1}
  /\ pc \notin {"arm notify", "arm sleep"} => (owed = 1 <=> Running)

\* A callback comes less than a tick too early: the chunks that the handler
\* loads one by one add up to the duration asked for, rounded down to ticks.
NeverEarly ==
  [][owed' < owed => (waited + 1) * NsPerMs > request * TicksPerMs]_vars

\* Every controller keeps the vector it was given: its interrupts reach the
\* handler Sata::init registered.
DeviceHeard == \A v \in devices : handler[v] = "device"

\* A sleep ends: the kernel is never left waiting for ticks that do not come.
SleepEnds == pc = "asleep" ~> pc = "idle"
==============================================================================
