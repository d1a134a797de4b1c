-------------------------- MODULE LapicTimer_proofs --------------------------
(***************************************************************************)
(* With several cores a request gets one callback and none comes early,    *)
(* for every chunk length, duration and number of vectors.                 *)
(***************************************************************************)
EXTENDS LapicTimer, TLAPS

Arming == pc \in {"arm notify", "arm sleep"}

\* Whose vector is whose.  Before the first request no controller has one.
Lines ==
  /\ timerVector \in Vectors \ FixedVectors
  /\ timerVector \notin devices
  /\ handler[timerVector] \in {"none", "timer"}
  /\ handler[timerVector] = "none" => devices = {} /\ ~Running /\ ~Arming
  /\ \A v \in Vectors \ {timerVector} : handler[v] # "timer"
  /\ \A v \in devices : handler[v] = "device"
  /\ raised \subseteq devices \cup {timerVector}

\* Between a request and its first chunk nothing counts.
AtArm ==
  Arming => /\ owed = 1 /\ needed = Ticks(request) /\ prevInit = 0
            /\ count = 0 /\ waited = 0 /\ timerVector \notin raised

\* While chunks run, what was waited and what is still needed add up to what
\* was asked for; the interrupt is raised exactly when the chunk is over.
InChunk ==
  ~Arming /\ Running =>
    /\ owed = 1
    /\ prevInit \in 1..needed /\ prevInit <= MaxTimerTicks
    /\ count \in 0..prevInit
    /\ (timerVector \in raised) <=> (count = 0)
    /\ waited + needed = Ticks(request) + prevInit - count

\* With nothing needed nothing counts and no timer interrupt is on its way.
Quiet ==
  ~Arming /\ ~Running => owed = 0 /\ count = 0 /\ timerVector \notin raised

Inv == TypeOK /\ Lines /\ AtArm /\ InChunk /\ Quiet

-----------------------------------------------------------------------------
\* The sizes alone, without the products of TimerAssumption.
LEMMA Sizes ==
  /\ MaxTimerTicks \in Nat /\ MaxTimerTicks > 0
  /\ CounterSize \in Nat /\ CounterSize > MaxTimerTicks
  /\ Wrap \in Nat /\ Wrap > 0
  /\ Durations \subseteq Nat
<1>1. /\ MaxTimerTicks \in Nat \ {0} /\ Wrap \in Nat \ {0}
      /\ CounterSize \in Nat /\ CounterSize > MaxTimerTicks
      /\ Durations \subseteq Nat
  BY Zenon, TimerAssumption DEF TimerAssumption
<1> QED BY <1>1

LEMMA ModOfSmaller ==
  ASSUME NEW a \in Nat, NEW b \in Nat, a < b
  PROVE  a % b = a
OBVIOUS

LEMMA TicksFit ==
  ASSUME NEW ns \in Durations \cup {0}
  PROVE  /\ Ticks(ns) \in 0..Wrap - 1
         /\ (Ticks(ns) + 1) * NsPerMs > ns * TicksPerMs
<1> DEFINE p == ns * TicksPerMs
<1>1. /\ Wrap \in Nat /\ Wrap > 0
      /\ NsPerMs \in Nat /\ NsPerMs > 0
      /\ p \in Nat /\ p < Wrap
  <2>1. CASE ns = 0
    BY <2>1, TimerAssumption
  <2>2. CASE ns \in Durations
    <3>1. /\ ns \in Nat /\ TicksPerMs \in Nat
          /\ ns * TicksPerMs < Wrap
      BY <2>2, TimerAssumption
    <3>2. ns * TicksPerMs \in Nat
      BY <3>1
    <3> QED BY <3>1, <3>2, TimerAssumption
  <2> QED BY <2>1, <2>2
<1> HIDE DEF p
<1>2. p % Wrap = p
  BY <1>1
<1>3. Ticks(ns) = p \div NsPerMs
  BY <1>2 DEF Ticks, p
<1>4. /\ p \div NsPerMs \in 0..p
      /\ (p \div NsPerMs + 1) * NsPerMs > p
  BY <1>1, Z3
<1> QED BY <1>1, <1>3, <1>4 DEF p

\* One chunk ends or the first begins, with d ticks still to wait: the state
\* after onLocalTimer.
LEMMA LoadNext ==
  ASSUME TypeOK, OnLocalTimer, prevInit <= needed, owed = 1
  PROVE  /\ needed' = needed - prevInit
         /\ needed' = 0 => owed' = 0 /\ count' = count /\ prevInit' = prevInit
         /\ needed' # 0 => /\ owed' = 1 /\ count' = prevInit'
                           /\ prevInit' \in 1..needed' /\ prevInit' <= MaxTimerTicks
<1>1. /\ MaxTimerTicks \in Nat /\ MaxTimerTicks > 0
      /\ CounterSize \in Nat /\ CounterSize > MaxTimerTicks
      /\ Wrap \in Nat /\ Wrap > 0
      /\ needed \in 0..Wrap - 1 /\ prevInit \in 0..needed
  BY Sizes DEF TypeOK
<1>2. (needed - prevInit) % Wrap = needed - prevInit
  <2>1. needed - prevInit \in Nat /\ needed - prevInit < Wrap
    BY <1>1
  <2> QED BY <1>1, <2>1, ModOfSmaller
<1>3. needed' = needed - prevInit
  BY <1>2 DEF OnLocalTimer
<1>4. needed' = 0 => owed' = 0 /\ count' = count /\ prevInit' = prevInit
  BY <1>2, <1>3 DEF OnLocalTimer
<1>5. ASSUME needed' # 0
      PROVE  /\ owed' = 1 /\ count' = prevInit'
             /\ prevInit' \in 1..needed' /\ prevInit' <= MaxTimerTicks
  <2>1. /\ prevInit' = Chunk(needed') /\ count' = prevInit' % CounterSize
        /\ owed' = 1
    BY <1>2, <1>3, <1>5 DEF OnLocalTimer
  <2>2. prevInit' \in 1..needed' /\ prevInit' <= MaxTimerTicks
    BY <1>1, <1>3, <1>5, <2>1 DEF Chunk
  <2>3. prevInit' % CounterSize = prevInit'
    <3>1. prevInit' \in Nat /\ prevInit' < CounterSize
      BY <1>1, <1>3, <2>2
    <3> QED BY <1>1, <3>1, ModOfSmaller
  <2> QED BY <2>1, <2>2, <2>3
<1> QED BY <1>3, <1>4, <1>5

\* A step that neither asks, counts nor interrupts.
LEMMA Untouched ==
  ASSUME Inv, ~Arming, ~Arming', pc' \in Pc, enabled' \in BOOLEAN,
         UNCHANGED <<slot, count, raised, line, request, waited, owed>>
  PROVE  Inv'
<1>1. UNCHANGED <<needed, prevInit, count, raised, handler, timerVector, devices,
                  request, waited, owed>>
  BY DEF slot, line
<1>2. TypeOK' /\ Lines'
  BY <1>1 DEF Inv, TypeOK, Lines, Running
<1>3. AtArm' /\ InChunk' /\ Quiet'
  BY <1>1 DEF Inv, AtArm, InChunk, Quiet, Running
<1> QED BY <1>2, <1>3 DEF Inv

LEMMA InitInv == Init => Inv
<1> SUFFICES ASSUME Init PROVE Inv
  OBVIOUS
<1>1. /\ handler = [v \in Vectors |-> IF v \in FixedVectors THEN "fixed" ELSE "none"]
      /\ timerVector \in Vectors /\ handler[timerVector] = "none"
  BY DEF Init, IsFreeNumber, FreeVectors
<1>2. Wrap \in Nat /\ Wrap > 0 /\ MaxTimerTicks \in Nat
  BY Sizes
<1>3. TypeOK
  BY <1>1, <1>2 DEF Init, TypeOK, Pc
<1>4. Lines
  BY <1>1 DEF Init, Lines, Running, Arming
<1>5. AtArm /\ InChunk /\ Quiet
  BY DEF Init, AtArm, InChunk, Quiet, Arming, Running
<1> QED BY <1>3, <1>4, <1>5 DEF Inv

\* A request is accepted while nothing runs.
LEMMA AcceptStep ==
  ASSUME Inv, NEW ns \in Durations, NEW next \in Pc, Accept(ns, next),
         ~Running, ~Arming, Arming'
  PROVE  Inv'
<1>0. /\ needed' = Ticks(ns) /\ prevInit' = 0 /\ count' = count
      /\ raised' = raised /\ timerVector' = timerVector /\ devices' = devices
      /\ handler' = [handler EXCEPT ![timerVector] = "timer"]
      /\ pc' = next /\ enabled' = enabled
      /\ request' = ns /\ waited' = 0 /\ owed' = owed + 1
  BY DEF Accept
<1>2. owed = 0 /\ count = 0 /\ timerVector \notin raised
  BY DEF Inv, Quiet
<1>3. needed' \in 0..Wrap - 1
  BY TicksFit DEF Accept
<1>4. TypeOK'
  <2>1. pc' \in Pc
    BY <1>0
  <2>2. /\ prevInit' \in 0..MaxTimerTicks /\ count' \in 0..MaxTimerTicks
        /\ waited' \in Nat /\ owed' \in Int /\ request' \in Durations \cup {0}
    BY <1>0, <1>2, Sizes
  <2>3. handler' \in [Vectors -> {"none", "fixed", "timer", "device"}]
    BY <1>0 DEF Inv, TypeOK
  <2> QED BY <1>0, <1>3, <2>1, <2>2, <2>3 DEF Inv, TypeOK
<1>5. AtArm'
  <2>1. owed' = 1 /\ count' = 0
    BY <1>0, <1>2
  <2>2. timerVector' \notin raised'
    BY <1>0, <1>2
  <2> QED BY <1>0, <2>1, <2>2 DEF AtArm
<1>6. Lines'
  BY <1>0 DEF Inv, TypeOK, Lines
<1> QED BY <1>4, <1>5, <1>6 DEF Inv, InChunk, Quiet

\* The timer's interrupt: it comes only at the end of a chunk.
LEMMA DeliverStep ==
  ASSUME Inv, NEW v \in Vectors, Deliver(v)
  PROVE  Inv'
<1> USE DEF Inv
<1>1. CASE v # timerVector
  <2>1. /\ raised' = raised \ {v} /\ UNCHANGED <<slot, count, owed>>
        /\ UNCHANGED <<line, enabled, pc, request, waited>>
    BY <1>1 DEF Deliver, Lines
  <2>2. TypeOK' /\ Lines'
    BY <2>1 DEF TypeOK, Lines, Running, Arming, slot, line
  <2>3. AtArm' /\ InChunk' /\ Quiet'
    BY <1>1, <2>1 DEF AtArm, InChunk, Quiet, Running, Arming, slot, line
  <2> QED BY <2>2, <2>3
<1>2. CASE v = timerVector
  <2>1. /\ ~Arming /\ Running /\ count = 0 /\ owed = 1
        /\ prevInit \in 1..needed /\ waited + needed = Ticks(request) + prevInit
        /\ handler[v] = "timer"
    <3>1. timerVector \in raised
      BY <1>2 DEF Deliver
    <3>2. ~Arming /\ Running
      BY <3>1 DEF AtArm, Quiet
    <3>3. request \in Durations \cup {0} /\ waited \in Nat /\ needed \in Nat
      BY Sizes DEF TypeOK
    <3>4. Ticks(request) \in Nat
      BY <3>3, TicksFit, Sizes
    <3> QED BY <1>2, <3>1, <3>2, <3>3, <3>4 DEF InChunk, Lines
  <2>2. /\ OnLocalTimer /\ raised' = raised \ {timerVector}
        /\ UNCHANGED <<line, enabled, pc, request, waited>>
    BY <1>2, <2>1 DEF Deliver
  <2>3. /\ needed' = needed - prevInit
        /\ needed' = 0 => owed' = 0 /\ count' = count /\ prevInit' = prevInit
        /\ needed' # 0 => /\ owed' = 1 /\ count' = prevInit'
                          /\ prevInit' \in 1..needed' /\ prevInit' <= MaxTimerTicks
    BY <2>1, <2>2, LoadNext
  <2>4. TypeOK'
    BY <2>1, <2>2, <2>3, Sizes DEF TypeOK, line
  <2>5. Lines'
    BY <2>1, <2>2, <2>3 DEF Lines, Running, Arming, line, TypeOK
  <2>6. ~Arming' /\ timerVector' \notin raised' /\ waited' = waited /\ request' = request
    BY <2>1, <2>2 DEF Arming, line
  <2>7. Quiet'
    BY <2>1, <2>3, <2>6 DEF Quiet, Running
  <2>8. InChunk'
    <3> SUFFICES ASSUME needed' # 0 PROVE InChunk'
      BY DEF InChunk, Running
    <3>1. /\ waited \in Nat /\ needed \in Nat /\ prevInit \in Nat
          /\ needed' \in Nat /\ prevInit' \in Nat
      BY <2>4, Sizes DEF TypeOK
    <3>2. Ticks(request) \in Nat
      BY TicksFit, Sizes DEF TypeOK
    <3>3. waited' + needed' = Ticks(request') + prevInit' - count'
      BY <2>1, <2>3, <2>6, <3>1, <3>2
    <3> QED BY <2>3, <2>6, <3>1, <3>3 DEF InChunk
  <2> QED BY <2>4, <2>5, <2>6, <2>7, <2>8 DEF AtArm
<1> QED BY <1>1, <1>2

\* notify's own call of the handler begins the first chunk.
LEMMA ArmStep ==
  ASSUME Inv, Arm
  PROVE  Inv'
<1> USE DEF Inv
<1>1. /\ Arming /\ ~Arming' /\ OnLocalTimer /\ enabled' \in BOOLEAN
      /\ UNCHANGED <<raised, line, request, waited>>
      /\ pc' \in {"asleep", "idle"}
  BY DEF Arm, Arming, EnabledAsleep, TypeOK
<1>2. /\ owed = 1 /\ needed = Ticks(request) /\ prevInit = 0
      /\ count = 0 /\ waited = 0 /\ timerVector \notin raised
  BY <1>1 DEF AtArm
<1>3. needed \in Nat
  BY Sizes DEF TypeOK
<1>4. /\ needed' = needed
      /\ needed' = 0 => owed' = 0 /\ count' = count /\ prevInit' = prevInit
      /\ needed' # 0 => /\ owed' = 1 /\ count' = prevInit'
                        /\ prevInit' \in 1..needed' /\ prevInit' <= MaxTimerTicks
  BY <1>1, <1>2, <1>3, LoadNext
<1>5. TypeOK'
  <2>1. pc' \in Pc
    BY <1>1 DEF Pc
  <2>2. /\ prevInit' \in 0..MaxTimerTicks /\ count' \in 0..MaxTimerTicks
        /\ owed' \in Int /\ needed' \in 0..Wrap - 1
    BY <1>2, <1>3, <1>4, Sizes DEF TypeOK
  <2> QED BY <1>1, <2>1, <2>2 DEF TypeOK, line
<1>6. Lines'
  BY <1>1, <1>4 DEF Lines, Running, Arming, line
<1>7. Quiet'
  BY <1>1, <1>2, <1>4 DEF Quiet, Running, line
<1>8. InChunk'
  BY <1>1, <1>2, <1>3, <1>4 DEF InChunk, Running, line
<1> QED BY <1>1, <1>5, <1>6, <1>7, <1>8 DEF AtArm

LEMMA TickStep ==
  ASSUME Inv, Tick
  PROVE  Inv'
<1> USE DEF Inv
<1>1. /\ ~Arming /\ Running
  BY DEF Tick, AtArm, Quiet
<1>2. /\ count' = count - 1 /\ waited' = waited + 1 /\ count > 0
      /\ raised' = IF count' = 0 THEN raised \cup {timerVector} ELSE raised
      /\ UNCHANGED <<slot, line, enabled, pc, request, owed>>
  BY DEF Tick
<1>3. /\ count \in Nat /\ waited \in Nat /\ needed \in Nat /\ prevInit \in Nat
      /\ timerVector \in Vectors /\ MaxTimerTicks \in Nat
  BY Sizes DEF TypeOK
<1>4. TypeOK'
  BY <1>2, <1>3 DEF TypeOK, slot, line
<1>5. Lines'
  BY <1>2 DEF Lines, Running, Arming, slot, line
<1>6. InChunk'
  <2>1. Ticks(request) \in Nat
    BY TicksFit, Sizes DEF TypeOK
  <2>2. waited + needed = Ticks(request) + prevInit - count
    BY <1>1 DEF InChunk
  <2>3. waited' + needed' = Ticks(request') + prevInit' - count'
    BY <1>2, <1>3, <2>1, <2>2 DEF slot
  <2>4. /\ owed = 1 /\ prevInit \in 1..needed /\ prevInit <= MaxTimerTicks
        /\ count \in 0..prevInit /\ timerVector \notin raised
    BY <1>1, <1>2, <1>3 DEF InChunk
  <2>5. /\ owed' = 1 /\ prevInit' \in 1..needed' /\ prevInit' <= MaxTimerTicks
        /\ count' \in 0..prevInit'
    BY <1>2, <1>3, <2>4 DEF slot
  <2>6. (timerVector' \in raised') <=> (count' = 0)
    BY <1>2, <2>4 DEF line
  <2> QED BY <2>3, <2>5, <2>6 DEF InChunk
<1>7. Running' /\ ~Arming'
  BY <1>1, <1>2 DEF Running, Arming, slot
<1> QED BY <1>4, <1>5, <1>6, <1>7 DEF AtArm, Quiet

LEMMA SetupStep ==
  ASSUME Inv, SeveralCores, DeviceSetup
  PROVE  Inv'
<1> USE DEF Inv
<1>1. /\ handler[timerVector] = "timer" /\ ~Arming /\ ~Arming'
      /\ UNCHANGED <<slot, count, raised, timerVector, enabled, request, waited, owed>>
  BY DEF DeviceSetup, CoresStarted, Arming
<1>2. AtArm' /\ InChunk' /\ Quiet'
  BY <1>1 DEF AtArm, InChunk, Quiet, Running, slot
<1>3. CASE FreeVectors(handler) = {} /\ pc' = "no vector" /\ UNCHANGED <<handler, devices>>
  <2>1. pc' \in Pc /\ enabled' \in BOOLEAN
    BY <1>1, <1>3 DEF Pc, TypeOK
  <2> QED BY <1>1, <1>3, <2>1, Untouched DEF line
<1>4. ASSUME NEW v \in Vectors, IsFreeNumber(v, handler), pc' = pc,
             handler' = [handler EXCEPT ![v] = "device"], devices' = devices \cup {v}
      PROVE  Inv'
  <2>1. handler[v] = "none"
    BY <1>4 DEF IsFreeNumber, FreeVectors
  <2>2. TypeOK'
    BY <1>1, <1>4 DEF TypeOK, slot
  <2>3. Lines'
    BY <1>1, <1>4, <2>1 DEF TypeOK, Lines, Running, slot
  <2> QED BY <1>2, <2>2, <2>3
<1> QED BY <1>3, <1>4 DEF DeviceSetup

LEMMA InvStep ==
  ASSUME Inv, SeveralCores, [Next]_vars
  PROVE  Inv'
<1>1. CASE DeviceSetup
  BY <1>1, SetupStep
<1>2. CASE DeviceRaises
  BY <1>2 DEF Inv, DeviceRaises, TypeOK, Lines, AtArm, InChunk, Quiet,
              Running, Arming, slot, line
<1>3. CASE Tick
  BY <1>3, TickStep
<1>4. ASSUME NEW v \in Vectors, Deliver(v) PROVE Inv'
  BY <1>4, DeliverStep
<1>5. ASSUME NEW ns \in Durations, Notify(ns) PROVE Inv'
  <2>1. /\ Accept(ns, "arm notify") /\ ~Running
        /\ ~Arming /\ Arming' /\ "arm notify" \in Pc
    BY <1>5 DEF Notify, Accept, Arming, Pc
  <2> QED BY <2>1, AcceptStep
<1>6. ASSUME NEW ns \in Durations, Sleep(ns) PROVE Inv'
  <2>1. CASE Running
    <3>1. /\ ~Arming /\ ~Arming' /\ pc' \in Pc /\ enabled' \in BOOLEAN
          /\ UNCHANGED <<slot, count, raised, line, request, waited, owed>>
      BY <1>6, <2>1 DEF Sleep, Arming, Pc, Inv, TypeOK
    <3> QED BY <3>1, Untouched
  <2>2. CASE ~Running
    <3>1. /\ Accept(ns, "arm sleep")
          /\ ~Arming /\ Arming' /\ "arm sleep" \in Pc
      BY <1>6, <2>2 DEF Sleep, Accept, Arming, Pc
    <3> QED BY <2>2, <3>1, AcceptStep
  <2> QED BY <2>1, <2>2
<1>7. CASE Arm
  BY <1>7, ArmStep
<1>8. CASE Wake
  <2>1. /\ ~Arming /\ ~Arming' /\ pc' \in Pc /\ enabled' \in BOOLEAN
        /\ UNCHANGED <<slot, count, raised, line, request, waited, owed>>
    BY <1>8 DEF Wake, Arming, Pc, Inv, TypeOK
  <2> QED BY <2>1, Untouched
<1>9. CASE Toggle
  <2>1. /\ ~Arming /\ ~Arming' /\ pc' \in Pc /\ enabled' \in BOOLEAN
        /\ UNCHANGED <<slot, count, raised, line, request, waited, owed>>
    BY <1>9 DEF Toggle, Arming, Pc, Inv, TypeOK
  <2> QED BY <2>1, Untouched
<1>10. CASE UNCHANGED vars
  BY <1>10 DEF vars, Inv, TypeOK, Lines, AtArm, InChunk, Quiet,
               Running, Arming, slot, line
<1> QED BY <1>1, <1>2, <1>3, <1>4, <1>5, <1>6, <1>7, <1>8, <1>9, <1>10
        DEF Next, Spin, Stopped

\* The invariant holds on a machine with several cores.
LEMMA Invariant ==
  ASSUME SeveralCores
  PROVE  Spec => []Inv
<1>1. Inv /\ [Next]_vars => Inv'
  BY InvStep
<1> QED BY InitInv, <1>1, PTL DEF Spec

\* Each accepted request has one callback and ticks_needed tells whether it
\* is outstanding; every controller keeps the vector it was given.
THEOREM TimerCorrect ==
  ASSUME SeveralCores
  PROVE  Spec => [](TypeOK /\ OneCallback /\ DeviceHeard)
<1>1. ASSUME Inv PROVE TypeOK /\ OneCallback /\ DeviceHeard
  <2>1. TypeOK /\ DeviceHeard
    BY <1>1 DEF Inv, Lines, DeviceHeard
  <2>2. CASE Arming
    <3>1. owed = 1 /\ pc \in {"arm notify", "arm sleep"}
      BY <1>1, <2>2 DEF Inv, AtArm, Arming
    <3>2. owed \in {0, 1}
      BY <3>1
    <3> QED BY <2>1, <3>1, <3>2 DEF OneCallback
  <2>3. CASE ~Arming
    <3>1. Running => owed = 1
      BY <1>1, <2>3 DEF Inv, InChunk
    <3>2. ~Running => owed = 0
      BY <1>1, <2>3 DEF Inv, Quiet
    <3>3. owed \in {0, 1}
      BY <3>1, <3>2
    <3>4. owed = 1 <=> Running
      BY <3>1, <3>2
    <3> QED BY <2>1, <3>3, <3>4 DEF OneCallback
  <2> QED BY <2>1, <2>2, <2>3
<1> QED BY <1>1, Invariant, PTL

\* The chunks that the handler loads add up: no callback comes a tick early,
\* for any chunk length, duration and calibration.
THEOREM TimerNeverEarly ==
  ASSUME SeveralCores
  PROVE  Spec => NeverEarly
<1> DEFINE LongEnough == (waited + 1) * NsPerMs > request * TicksPerMs
<1>1. ASSUME Inv, [Next]_vars, owed' < owed
      PROVE  LongEnough
  <2>0. /\ waited \in Nat /\ needed \in Nat /\ prevInit \in Nat
        /\ request \in Durations \cup {0} /\ Ticks(request) \in Nat /\ owed \in Int
    BY <1>1, TicksFit, Sizes DEF Inv, TypeOK
  <2>1. waited = Ticks(request)
    <3>1. CASE Arm
      <4>1. /\ OnLocalTimer /\ owed = 1 /\ prevInit = 0 /\ waited = 0
            /\ needed = Ticks(request)
        BY <1>1, <3>1 DEF Inv, Arm, AtArm, Arming
      <4>2. /\ needed' = needed
            /\ needed' # 0 => owed' = 1
        BY <1>1, <2>0, <4>1, LoadNext DEF Inv
      <4> QED BY <1>1, <4>1, <4>2
    <3>2. ASSUME NEW v \in Vectors, Deliver(v)
          PROVE  waited = Ticks(request)
      <4>1. OnLocalTimer /\ timerVector \in raised
        BY <1>1, <2>0, <3>2 DEF Deliver, Inv, Lines
      <4>2. /\ owed = 1 /\ prevInit \in 1..needed /\ count = 0
            /\ waited + needed = Ticks(request) + prevInit - count
        BY <1>1, <4>1 DEF Inv, AtArm, Quiet, InChunk
      <4>3. /\ needed' = needed - prevInit
            /\ needed' # 0 => owed' = 1
        BY <1>1, <2>0, <4>1, <4>2, LoadNext DEF Inv
      <4> QED BY <1>1, <2>0, <4>2, <4>3
    <3>3. Arm \/ \E v \in Vectors : Deliver(v)
      <4>1. owed' # owed /\ owed' # owed + 1
        BY <1>1, <2>0
      <4>2. ~UNCHANGED vars
        BY <4>1 DEF vars
      <4>3. ~(DeviceSetup \/ DeviceRaises \/ Tick \/ Spin \/ Wake \/ Toggle \/ Stopped)
        BY <4>1, <4>2 DEF DeviceSetup, DeviceRaises, Tick, Spin, Wake, Toggle, Stopped
      <4>4. ASSUME NEW ns \in Durations PROVE ~Notify(ns) /\ ~Sleep(ns)
        BY <4>1 DEF Notify, Sleep, Accept
      <4> QED BY <1>1, <4>2, <4>3, <4>4 DEF Next
    <3> QED BY <3>1, <3>2, <3>3
  <2> QED BY <2>0, <2>1, TicksFit
<1>2. Inv /\ [Next]_vars => [owed' < owed => LongEnough]_vars
  BY <1>1
<1> QED BY <1>2, Invariant, PTL DEF Spec, NeverEarly
==============================================================================
