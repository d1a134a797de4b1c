------------------------------ MODULE Boot_proofs -------------------------------
(***************************************************************************)
(* Proofs about the start for every MADT, every set of PCI devices and     *)
(* every behaviour of the hardware: stacks, the uncached window, vectors,  *)
(* the list of the enumeration and the block devices.                      *)
(***************************************************************************)
EXTENDS Boot, FiniteSetTheorems, SequenceTheorems, WellFoundedInduction, TLAPS

\* A set of numbers has a least one.
LEMMA Least ==
  ASSUME NEW S \in SUBSET Nat, S # {}
  PROVE  \E m \in S : \A n \in S : m <= n
<1>. DEFINE R == StrictSubsetOrdering(Nat)
            F == FiniteSubsetsOf(Nat)
            T == {0..n : n \in S}
<1>1. IsWellFoundedOn(R, F)
  BY FS_StrictSubsetOrderingWellFounded
<1>2. T \subseteq F
  <2>1. \A n \in S : 0..n \in SUBSET Nat /\ IsFiniteSet(0..n)
    BY FS_Interval
  <2>. QED BY <2>1 DEF FiniteSubsetsOf
<1>3. T # {}
  OBVIOUS
<1>4. PICK x \in T : \A y \in T : <<y, x>> \notin R
  <2>. HIDE DEF R, F, T
  <2>. QED BY <1>1, <1>2, <1>3, WFMin
<1>5. PICK m \in S : x = 0..m
  OBVIOUS
<1>6. ASSUME NEW n \in S, n < m PROVE FALSE
  <2>1. 0..n \in T
    OBVIOUS
  <2>2. m \in 0..m /\ m \notin 0..n /\ 0..n \subseteq 0..m
    BY <1>6
  <2>3. 0..n \in F /\ 0..m \in F
    BY <1>2, <1>5, <2>1
  <2>4. <<0..n, x>> \in R
    BY <1>5, <2>2, <2>3 DEF StrictSubsetOrdering, FiniteSubsetsOf
  <2>. QED BY <1>4, <2>1, <2>4
<1>. QED BY <1>6

-----------------------------------------------------------------------------
(* Stacks *)


\* From INIT to the answer the word of the trampoline is that of the processor
\* that is being started.
Starting == bsp \in {"init", "clear", "sipi", "check", "wait"}

\* Between its start-up message and its answer there is at most that processor,
\* and the flag is clear.
OnTheWayUp(c) == ap[c] = "fetch" \/ ap[c] = "entered"

IInv ==
  /\ ap = [c \in DOMAIN ap |-> ap[c]]
  /\ stack = [c \in DOMAIN ap |-> stack[c]]
  /\ \A c \in DOMAIN ap : stack[c] = 0 \/ stack[c] = c
  /\ Starting => stackPtr = next
  /\ bsp = "sipi" => ~response
  /\ \A c \in DOMAIN ap : OnTheWayUp(c) => c = next /\ bsp \in {"check", "wait"} /\ ~response

\* The invariant holds before the first processor is started.
LEMMA InitIInv == CoreInit => IInv
  BY DEF CoreInit, IInv, Starting, OnTheWayUp

\* Steps before the first start-up move none of the words it is about.
LEMMA TableStepIInv ==
  ASSUME IInv, InitIOAPIC \/ Calibrate \/ PitTick \/ TakeVector PROVE IInv'
<1>1. \A c \in DOMAIN ap : ~OnTheWayUp(c)
  BY DEF IInv, InitIOAPIC, Calibrate, PitTick, TakeVector
<1>2. ap' = ap /\ stack' = stack /\ bsp' \in {"calibrate", "measure", "panic", "vector", "core"}
  BY DEF InitIOAPIC, Calibrate, PitTick, TakeVector, hand
<1> QED BY <1>1, <1>2 DEF IInv, Starting, OnTheWayUp

\* The word of the trampoline is written only when nobody is on the way up.
LEMMA NextCoreIInv == ASSUME IInv, NextCore PROVE IInv'
  BY DEF NextCore, IInv, Starting, OnTheWayUp

\* INIT and the cleared flag come before the first message.
LEMMA SendInitIInv == ASSUME IInv, SendInit PROVE IInv'
  BY DEF SendInit, IInv, Starting, OnTheWayUp

\* The flag is clear before the first message goes out.
LEMMA ClearResponseIInv == ASSUME IInv, ClearResponse PROVE IInv'
  BY DEF ClearResponse, ResponseCleared, IInv, Starting, OnTheWayUp

\* The processor that takes a message is the one that is being started.
LEMMA SendSipiIInv == ASSUME IInv, SendSipi PROVE IInv'
  BY DEF SendSipi, Delivered, IInv, Starting, OnTheWayUp

\* A second message goes out only when the flag was clear.
LEMMA SecondSipiIInv == ASSUME IInv, SecondSipi PROVE IInv'
  BY DEF SecondSipi, SendsAgain, Delivered, IInv, Starting, OnTheWayUp

\* With the answer nobody is on the way up any more.
LEMMA AnsweredIInv == ASSUME IInv, Answered PROVE IInv'
  BY DEF Answered, IInv, Starting, OnTheWayUp

\* A processor on the way up finds its own stack.
LEMMA FetchStackIInv ==
  ASSUME IInv, NEW c \in DOMAIN ap, FetchStack(c) PROVE IInv'
<1>1. c = next /\ stackPtr = c /\ ~response
  BY DEF IInv, FetchStack, OnTheWayUp, Starting
<1> QED BY <1>1 DEF IInv, FetchStack, OnTheWayUp, Starting

\* Who answers is the only one on the way up.
LEMMA RespondIInv ==
  ASSUME IInv, NEW c \in DOMAIN ap, Respond(c) PROVE IInv'
<1>1. \A d \in DOMAIN ap : OnTheWayUp(d) => d = c
  BY DEF IInv, Respond, OnTheWayUp
<1>2. bsp \in {"check", "wait"}
  BY DEF IInv, Respond, OnTheWayUp
<1> QED BY <1>1, <1>2 DEF IInv, Respond, OnTheWayUp, Starting

\* Every step of either side keeps the invariant.
LEMMA StepIInv == IInv /\ [CoreNext]_coreVars => IInv'
<1> SUFFICES ASSUME IInv, [CoreNext]_coreVars PROVE IInv'
  OBVIOUS
<1>1. CASE BspStep
  BY <1>1, TableStepIInv, NextCoreIInv, SendInitIInv, ClearResponseIInv, SendSipiIInv,
     SecondSipiIInv, AnsweredIInv DEF BspStep
<1>2. CASE \E c \in DOMAIN ap : ApStep(c)
  BY <1>2, FetchStackIInv, RespondIInv DEF ApStep
<1>3. CASE UNCHANGED coreVars
  BY <1>3 DEF coreVars, apic, hand, IInv, Starting, OnTheWayUp
<1> QED BY <1>1, <1>2, <1>3 DEF CoreNext

\* The invariant says of each processor whose stack it is on.
LEMMA IInvOwnStack == IInv => OwnStack
  BY DEF IInv, OwnStack

\* Each started processor runs on the stack that was allocated for it, and no
\* two share one, for every table and every speed of the two sides, also when a
\* start-up message is lost.
THEOREM StacksOwned == CoreSpec => []OwnStack
<1>1. CoreInit => IInv
  BY InitIInv
<1>2. IInv /\ [CoreNext]_coreVars => IInv'
  BY StepIInv
<1>3. IInv => OwnStack
  BY IInvOwnStack
<1> QED BY <1>1, <1>2, <1>3, PTL DEF CoreSpec

\* What the hand-shake is about; the set-up of devices leaves it alone.
handshake == <<bsp, next, stackPtr, response, ap, stack>>

\* initPCI and the hardware move none of it.
LEMMA PciKeepsHandshake == PciStep \/ StillWaiting \/ Hardware => UNCHANGED handshake
<1>1. StartPci => UNCHANGED handshake
  BY DEF StartPci, handshake, coreVars, hand
<1>2. CheckNext => UNCHANGED handshake
  BY DEF CheckNext, handshake, coreVars, hand
<1>3. Overrun => UNCHANGED handshake
  BY DEF Overrun, handshake, coreVars, hand
<1>4. Enumerated => UNCHANGED handshake
  BY DEF Enumerated, handshake, coreVars, hand
<1>5. SkipUnit => UNCHANGED handshake
  BY DEF SkipUnit, handshake, coreVars, hand
<1>6. AllUnits => UNCHANGED handshake
  BY DEF AllUnits, handshake, coreVars, hand
<1>7. StartSata => UNCHANGED handshake
  BY DEF StartSata, handshake, coreVars, hand
<1>8. StartXhci => UNCHANGED handshake
  BY DEF StartXhci, handshake, coreVars, hand
<1>9. Went => UNCHANGED handshake
  BY DEF Went, handshake, coreVars, hand
<1>10. TakeMsi => UNCHANGED handshake
  BY DEF TakeMsi, handshake, coreVars, hand
<1>11. StopPort \/ PortMemory => UNCHANGED handshake
  BY DEF StopPort, PortMemory, handshake, coreVars, hand
<1>12. Probe => UNCHANGED handshake
  BY DEF Probe, handshake, coreVars, hand
<1>13. Identified => UNCHANGED handshake
  BY DEF Identified, handshake, coreVars, hand
<1>14. StillWaiting => UNCHANGED handshake
  BY DEF StillWaiting, handshake, coreVars, hand
<1>15. Hardware => UNCHANGED handshake
  BY DEF Hardware, Answer, IdentifyFails, LinkUp, handshake, coreVars, hand
<1> QED BY <1>1, <1>2, <1>3, <1>4, <1>5, <1>6, <1>7, <1>8, <1>9, <1>10, <1>11, <1>12, <1>13, <1>14, <1>15 DEF PciStep

\* The invariant of CoreStart holds in every step of the start.
LEMMA BootStepIInv == IInv /\ [Next]_vars => IInv'
<1> SUFFICES ASSUME IInv, [Next]_vars PROVE IInv'
  OBVIOUS
<1>1. CASE CoreSide
  BY <1>1, StepIInv DEF CoreSide
<1>2. CASE UNCHANGED handshake
  BY <1>2 DEF handshake, IInv, Starting, OnTheWayUp
<1>3. CASE PciStep \/ StillWaiting \/ Hardware
  BY <1>3, <1>2, PciKeepsHandshake
<1>4. CASE UNCHANGED vars
  BY <1>4, <1>2 DEF vars, coreVars, hand, handshake
<1> QED BY <1>1, <1>3, <1>4 DEF Next

\* No two processors share a stack at any time of the start, with every table,
\* every set of PCI devices and every behaviour of the hardware.
THEOREM BootStacksOwned == Spec => []OwnStack
<1>1. Init => IInv
  BY InitIInv DEF Init
<1>2. IInv /\ [Next]_vars => IInv'
  BY BootStepIInv
<1>3. IInv => OwnStack
  BY IInvOwnStack
<1> QED BY <1>1, <1>2, <1>3, PTL DEF Spec

-----------------------------------------------------------------------------
(* The uncached window *)

\* The device that is being set up is one of the machine's, and every page that
\* is mapped lies before the next one that is given out.
DeviceOfMachine ==
  /\ machine \in Machines
  /\ pci_devices \in Seq(DOMAIN machine.at)
  /\ unit \in Nat
  /\ at = "unit" => unit >= 1

WindowBehind ==
  /\ nextPage \in Nat
  /\ \A w \in DOMAIN window : w \in Int /\ w < nextPage

WInv == DeviceOfMachine /\ WindowBehind

\* What the window's invariant is about.
windowSide == <<machine, pci_devices, window, nextPage>>

\* Devices are set up one after the other, from the first.
UnitMoves ==
  \/ unit' = unit /\ (at' = "unit" => at = "unit")
  \/ unit' = 1
  \/ unit' = unit + 1

\* Only getBAR and Port::init move the window, only the enumeration the list.
LEMMA OthersKeepWindow ==
  ASSUME CoreSide \/ StillWaiting \/ Hardware \/ StartPci \/ Overrun \/ Enumerated \/ SkipUnit
         \/ AllUnits \/ Went \/ TakeMsi \/ StopPort \/ Probe \/ Identified
  PROVE  UNCHANGED windowSide /\ UnitMoves
<1>1. CoreSide => UNCHANGED windowSide /\ UnitMoves
  BY DEF CoreSide, UnitMoves, windowSide, pciVars, listing, memory
<1>2. StillWaiting => UNCHANGED windowSide /\ UnitMoves
  BY DEF StillWaiting, UnitMoves, windowSide, pciVars, listing, memory
<1>3. Hardware => UNCHANGED windowSide /\ UnitMoves
  BY DEF Hardware, Answer, IdentifyFails, LinkUp, UnitMoves, windowSide, pciVars, listing, memory
<1>4. StartPci => UNCHANGED windowSide /\ UnitMoves
  BY DEF StartPci, UnitMoves, windowSide, pciVars, listing, memory
<1>5. Overrun => UNCHANGED windowSide /\ UnitMoves
  BY DEF Overrun, UnitMoves, windowSide, pciVars, listing, memory
<1>6. Enumerated => UNCHANGED windowSide /\ UnitMoves
  BY DEF Enumerated, UnitMoves, windowSide, pciVars, listing, memory
<1>7. SkipUnit => UNCHANGED windowSide /\ UnitMoves
  BY DEF SkipUnit, NextUnit, UnitMoves, windowSide, pciVars, listing, memory
<1>8. AllUnits => UNCHANGED windowSide /\ UnitMoves
  BY DEF AllUnits, UnitMoves, windowSide, pciVars, listing, memory
<1>9. Went => UNCHANGED windowSide /\ UnitMoves
  BY DEF Went, NextUnit, Ask, UnitMoves, windowSide, pciVars, listing, memory
<1>10. TakeMsi => UNCHANGED windowSide /\ UnitMoves
  BY DEF TakeMsi, NextUnit, ToPort, UnitMoves, windowSide, pciVars, listing, memory
<1>11. StopPort \/ Probe => UNCHANGED windowSide /\ UnitMoves
  BY DEF StopPort, Probe, Ask, NextUnit, ToPort, UnitMoves, windowSide, pciVars, listing, memory
<1>12. Identified => UNCHANGED windowSide /\ UnitMoves
  BY DEF Identified, NextUnit, ToPort, UnitMoves, windowSide, pciVars, listing, memory
<1> QED BY <1>1, <1>2, <1>3, <1>4, <1>5, <1>6, <1>7, <1>8, <1>9, <1>10, <1>11, <1>12

\* With the window and the list as they were the invariant stays.
LEMMA OthersKeepWInv ==
  ASSUME WInv, UNCHANGED windowSide, UnitMoves PROVE WInv'
  BY DEF WInv, DeviceOfMachine, WindowBehind, windowSide, UnitMoves

\* A function is listed only when it is there.
LEMMA CheckKeepsWInv == ASSUME WInv, CheckNext PROVE WInv' /\ UNCHANGED window
<1>1. window' = window /\ nextPage' = nextPage /\ machine' = machine /\ unit' = unit /\ at' = at
  BY DEF CheckNext, memory
<1>2. pci_devices' = pci_devices
      \/ \E f \in DOMAIN machine.at : pci_devices' = Append(pci_devices, f)
  BY DEF CheckNext, CheckAll, CheckBus, CheckDevice, CheckFunction, Present
<1>3. pci_devices' \in Seq(DOMAIN machine.at)
  BY <1>2 DEF WInv, DeviceOfMachine
<1> QED BY <1>1, <1>3 DEF WInv, DeviceOfMachine, WindowBehind

\* The BAR of a device that is set up has at least one page.
LEMMA BarHasPages ==
  ASSUME WInv, at = "unit", unit <= Len(pci_devices),
         Unit.kind \in {"sata", "xhci"}, Unit.bar.type # "none"
  PROVE  PagesOf(Unit.bar) \in Nat \ {0}
<1>1. This \in DOMAIN machine.at
  BY DEF WInv, DeviceOfMachine, This
<1>2. Unit.bar.pages \in Nat \ {0}
  BY <1>1, PciAssumption DEF WInv, DeviceOfMachine, Unit, Function
<1> QED BY <1>2, PciAssumption DEF PagesOf

\* getBAR maps at most the next page, which nobody has.
LEMMA GetBarMapsBehind ==
  ASSUME WindowBehind, NEW bar, GetBar(bar), PagesOf(bar) \in Nat \ {0}
  PROVE  WindowBehind' /\ \A w \in DOMAIN window : window'[w] = window[w]
<1>1. CASE UNCHANGED <<window, nextPage>>
  BY <1>1 DEF WindowBehind
<1>2. CASE /\ nextPage' = After(PagesOf(bar))
           /\ window' = [w \in DOMAIN window \union {nextPage} |->
                           IF w = nextPage THEN <<This, -1>> ELSE window[w]]
  BY <1>2 DEF WindowBehind, After
<1> QED BY <1>1, <1>2 DEF GetBar

\* Port::init maps the pages from the next one on, which nobody has either.
LEMMA PortMapsBehind ==
  ASSUME WInv, PortMemory
  PROVE  WInv' /\ \A w \in DOMAIN window : window'[w] = window[w]
<1>1. machine' = machine /\ pci_devices' = pci_devices /\ unit' = unit /\ at' # "unit"
  BY DEF PortMemory, Ask, listing
<1>2. \/ UNCHANGED <<window, nextPage>>
      \/ /\ nextPage' = nextPage + PortPages
         /\ window' = [w \in DOMAIN window \union PortRun |-> IF w \in PortRun THEN Here ELSE window[w]]
  BY DEF PortMemory, After
<1>3. WindowBehind' /\ \A w \in DOMAIN window : window'[w] = window[w]
  BY <1>2, PciAssumption DEF WInv, WindowBehind, PortRun
<1> QED BY <1>1, <1>3 DEF WInv, DeviceOfMachine

\* The constructors begin with getBAR.
LEMMA StartMapsBehind ==
  ASSUME WInv, StartSata \/ StartXhci
  PROVE  WInv' /\ \A w \in DOMAIN window : window'[w] = window[w]
<1>1. /\ at = "unit" /\ unit <= Len(pci_devices) /\ Unit.kind \in {"sata", "xhci"}
      /\ Unit.bar.type # "none" /\ GetBar(Unit.bar)
  BY DEF StartSata, StartXhci
<1>2. WindowBehind' /\ \A w \in DOMAIN window : window'[w] = window[w]
  BY <1>1, BarHasPages, GetBarMapsBehind DEF WInv
<1>3. machine' = machine /\ pci_devices' = pci_devices /\ UnitMoves
  BY DEF StartSata, StartXhci, UnitMoves, NextUnit, Ask, listing
<1> QED BY <1>2, <1>3 DEF WInv, DeviceOfMachine, UnitMoves

\* Every step keeps the window's invariant and what is mapped.
LEMMA StepWInv ==
  ASSUME WInv, [Next]_vars
  PROVE  WInv' /\ \A w \in DOMAIN window : window'[w] = window[w]
<1>1. CASE CheckNext
  BY <1>1, CheckKeepsWInv
<1>2. CASE PortMemory
  BY <1>2, PortMapsBehind
<1>3. CASE StartSata \/ StartXhci
  BY <1>3, StartMapsBehind
<1>4. CASE UNCHANGED windowSide /\ UnitMoves
  BY <1>4, OthersKeepWInv DEF windowSide
<1>5. UNCHANGED vars => UNCHANGED windowSide /\ UnitMoves
  BY DEF vars, pciVars, windowSide, listing, memory, UnitMoves
<1> QED BY <1>1, <1>2, <1>3, <1>4, <1>5, OthersKeepWindow DEF Next, PciStep

\* A page of the uncached window keeps its mapping: no BAR and no port is given
\* a page that a controller or a port already uses, for every set of devices
\* whose BARs have a page.
THEOREM WindowOwned == Spec => WindowKept
<1>1. Init => WInv
  BY DEF Init, PciInit, WInv, DeviceOfMachine, WindowBehind
<1>2. WInv /\ [Next]_vars => WInv'
  BY StepWInv
<1>3. WInv /\ [Next]_vars => [\A w \in DOMAIN window : window'[w] = window[w]]_window
  BY StepWInv
<1> QED BY <1>1, <1>2, <1>3, PTL DEF Spec, WindowKept

-----------------------------------------------------------------------------
(* Vectors *)

\* Once another processor may be started, the timer has its handler; the
\* vectors of controllers are no longer free.
Started(c) == OnTheWayUp(c) \/ stack[c] # 0

HandlersTyped ==
  /\ handlers = [v \in Vectors |-> handlers[v]]
  /\ bsp \in {"core", "init", "clear", "sipi", "check", "wait", "done"} => timerVector \in Vectors
  /\ at # "off" => bsp = "done"
  /\ at = "off" => DOMAIN vectorOf = {}

TimerKept ==
  /\ bsp \in {"clear", "sipi", "check", "wait"} => handlers[timerVector] = "timer"
  /\ \A c \in DOMAIN ap : Started(c) =>
       /\ handlers[timerVector] = "timer"
       /\ bsp \in {"core", "init", "clear", "sipi", "check", "wait", "done"}

VectorsKept ==
  \A u, v \in DOMAIN vectorOf :
    /\ vectorOf[u] \in Vectors
    /\ u # v => vectorOf[u] # vectorOf[v]
    /\ vectorOf[u] # timerVector => handlers[vectorOf[u]] = "sata"
    /\ vectorOf[u] = timerVector =>
         handlers[timerVector] \in {"sata", "timer"} /\ \A c \in DOMAIN ap : ~Started(c)

VInv == IInv /\ HandlersTyped /\ TimerKept /\ VectorsKept

\* Before a controller is set up no vector is taken; the timer's is taken at
\* the first sleep, which is before the first start-up message.
LEMMA CoreKeepsVInv == ASSUME VInv, CoreSide PROVE VInv'
<1> USE DEF VInv
<1>1. IInv'
  BY StepIInv DEF CoreSide
<1>2. at' = at /\ vectorOf' = vectorOf
  BY DEF CoreSide, pciVars
<1>3. CASE bsp = "done"
  <2>1. \E c \in DOMAIN ap : Respond(c) \/ FetchStack(c)
    BY <1>3 DEF CoreSide, CoreNext, BspStep, ApStep, InitIOAPIC, Calibrate, PitTick, TakeVector,
       NextCore, SendInit, ClearResponse, SendSipi, SecondSipi, Answered
  <2>2. FALSE
    BY <2>1, <1>3 DEF IInv, OnTheWayUp, Respond, FetchStack
  <2> QED BY <2>2
<1>4. CASE bsp # "done"
  <2>1. at = "off" /\ DOMAIN vectorOf = {}
    BY <1>4 DEF HandlersTyped
  <2>2. VectorsKept'
    BY <2>1, <1>2 DEF VectorsKept
  <2>3. CASE InitIOAPIC \/ Calibrate \/ PitTick
    <3>1. handlers' = [v \in Vectors |-> handlers'[v]]
      BY <2>3 DEF HandlersTyped, InitIOAPIC, Calibrate, PitTick
    <3>2. \A c \in DOMAIN ap : ~Started(c)
      BY <2>3 DEF TimerKept, InitIOAPIC, Calibrate, PitTick
    <3>3. ap' = ap /\ stack' = stack /\ bsp' \in {"calibrate", "measure", "panic", "vector"}
      BY <2>3 DEF InitIOAPIC, Calibrate, PitTick, hand
    <3> QED BY <1>1, <1>2, <2>1, <2>2, <3>1, <3>2, <3>3 DEF HandlersTyped, TimerKept, Started, OnTheWayUp
  <2>4. CASE TakeVector
    <3>1. \A c \in DOMAIN ap : ~Started(c)
      BY <2>4 DEF TimerKept, TakeVector
    <3>2. ap' = ap /\ stack' = stack /\ handlers' = handlers /\ bsp' \in {"panic", "core"}
      BY <2>4 DEF TakeVector
    <3>3. bsp' = "core" => timerVector' \in Vectors
      BY <2>4, CoreAssumption DEF TakeVector, Free, Vectors
    <3> QED BY <1>1, <1>2, <2>1, <2>2, <3>1, <3>2, <3>3 DEF HandlersTyped, TimerKept, Started, OnTheWayUp
  <2>5. CASE SendInit
    <3>1. handlers' = [handlers EXCEPT ![timerVector] = "timer"] /\ timerVector' = timerVector
          /\ timerVector \in Vectors /\ stack' = stack /\ bsp' = "clear"
      BY <2>5 DEF SendInit, Slept, HandlersTyped
    <3>2. HandlersTyped' /\ handlers'[timerVector'] = "timer"
      BY <3>1, <1>2, <2>1 DEF HandlersTyped
    <3> QED BY <1>1, <2>2, <3>1, <3>2 DEF TimerKept
  <2>6. CASE NextCore \/ ClearResponse \/ SendSipi \/ SecondSipi \/ Answered
    <3>1. /\ handlers' = handlers /\ timerVector' = timerVector /\ stack' = stack
          /\ bsp \in {"core", "clear", "sipi", "check", "wait"}
          /\ bsp' \in {"core", "init", "sipi", "check", "wait", "done"}
          /\ bsp' \in {"sipi", "check", "wait"} => bsp \in {"clear", "sipi", "check"}
      BY <2>6 DEF NextCore, ClearResponse, SendSipi, SecondSipi, Answered, apic
    <3>2. bsp \in {"sipi", "check"} \/ ap' = ap
      BY <2>6 DEF NextCore, ClearResponse, SendSipi, SecondSipi, Answered
    <3>3. HandlersTyped'
      BY <3>1, <1>2, <2>1 DEF HandlersTyped
    <3>4. DOMAIN ap' = DOMAIN ap
      BY <2>6 DEF IInv, NextCore, ClearResponse, SendSipi, SecondSipi, Answered, Delivered
    <3>5. TimerKept'
      BY <3>1, <3>2, <3>4 DEF TimerKept, Started, OnTheWayUp
    <3> QED BY <1>1, <2>2, <3>3, <3>5
  <2>7. CASE \E c \in DOMAIN ap : ApStep(c)
    <3>1. PICK c \in DOMAIN ap : ApStep(c)
      BY <2>7
    <3>2. Started(c) /\ handlers' = handlers /\ timerVector' = timerVector /\ bsp' = bsp
      BY <3>1 DEF ApStep, FetchStack, Respond, Started, OnTheWayUp, apic
    <3>3. HandlersTyped'
      BY <3>2, <1>2, <2>1 DEF HandlersTyped
    <3>4. TimerKept'
      BY <3>2 DEF TimerKept
    <3> QED BY <1>1, <2>2, <3>3, <3>4
  <2> QED BY <2>3, <2>4, <2>5, <2>6, <2>7 DEF CoreSide, CoreNext, BspStep
<1> QED BY <1>3, <1>4

\* The vectors are the business of Sata::init and of sleep.
vectorSide == <<handlers, timerVector, vectorOf>>

\* initPCI begins when the processors are started and does not begin again.
PhaseMoves == at' # "off" /\ (at # "off" \/ bsp = "done")

\* Nothing else in the set-up of devices moves a vector.
LEMMA OthersKeepVectors ==
  ASSUME StartPci \/ CheckNext \/ Overrun \/ Enumerated \/ SkipUnit \/ AllUnits
         \/ StartSata \/ StartXhci \/ Went \/ StopPort \/ Probe \/ Identified \/ Hardware
  PROVE  UNCHANGED vectorSide /\ PhaseMoves
<1>1. StartPci => UNCHANGED vectorSide /\ PhaseMoves
  BY DEF StartPci, PhaseMoves, vectorSide, coreVars, apic
<1>2. CheckNext => UNCHANGED vectorSide /\ PhaseMoves
  BY DEF CheckNext, PhaseMoves, vectorSide, coreVars, apic
<1>3. Overrun => UNCHANGED vectorSide /\ PhaseMoves
  BY DEF Overrun, PhaseMoves, vectorSide, coreVars, apic
<1>4. Enumerated => UNCHANGED vectorSide /\ PhaseMoves
  BY DEF Enumerated, PhaseMoves, vectorSide, coreVars, apic
<1>5. SkipUnit => UNCHANGED vectorSide /\ PhaseMoves
  BY DEF SkipUnit, NextUnit, PhaseMoves, vectorSide, coreVars, apic
<1>6. AllUnits => UNCHANGED vectorSide /\ PhaseMoves
  BY DEF AllUnits, PhaseMoves, vectorSide, coreVars, apic
<1>7. StartSata => UNCHANGED vectorSide /\ PhaseMoves
  BY DEF StartSata, NextUnit, Ask, PhaseMoves, vectorSide, coreVars, apic
<1>8. StartXhci => UNCHANGED vectorSide /\ PhaseMoves
  BY DEF StartXhci, NextUnit, Ask, PhaseMoves, vectorSide, coreVars, apic
<1>9. Went => UNCHANGED vectorSide /\ PhaseMoves
  BY DEF Went, NextUnit, Ask, PhaseMoves, vectorSide, coreVars, apic
<1>10. StopPort \/ Probe => UNCHANGED vectorSide /\ PhaseMoves
  BY DEF StopPort, Probe, Ask, NextUnit, ToPort, PhaseMoves, vectorSide, coreVars, apic
<1>11. Identified => UNCHANGED vectorSide /\ PhaseMoves
  BY DEF Identified, NextUnit, ToPort, PhaseMoves, vectorSide, coreVars, apic
<1>12. Hardware => UNCHANGED vectorSide /\ PhaseMoves
  <2>1. Answer => at # "off"
    BY DEF Answer, Answering
  <2>2. Hardware => UNCHANGED vectorSide /\ UNCHANGED at
    BY DEF Hardware, Answer, IdentifyFails, LinkUp, vectorSide, coreVars, apic
  <2>3. Hardware => at # "off"
    BY <2>1 DEF Hardware, IdentifyFails, LinkUp, PortStages
  <2>. QED BY <2>2, <2>3 DEF PhaseMoves
<1> QED BY <1>1, <1>2, <1>3, <1>4, <1>5, <1>6, <1>7, <1>8, <1>9, <1>10, <1>11, <1>12

\* So the invariant stays there.
LEMMA OthersKeepVInv ==
  ASSUME VInv, UNCHANGED handshake, UNCHANGED vectorSide, PhaseMoves PROVE VInv'
<1>1. IInv'
  BY DEF VInv, IInv, Starting, OnTheWayUp, handshake
<1>2. HandlersTyped'
  BY DEF VInv, HandlersTyped, handshake, vectorSide, PhaseMoves
<1>3. TimerKept' /\ VectorsKept'
  BY DEF VInv, TimerKept, VectorsKept, Started, OnTheWayUp, handshake, vectorSide
<1> QED BY <1>1, <1>2, <1>3 DEF VInv

\* A sleep gives the timer its vector again and no other.
LEMMA SleepKeepsVInv ==
  ASSUME VInv, Slept, at # "off", at' # "off", UNCHANGED handshake, UNCHANGED <<timerVector, vectorOf>>
  PROVE  VInv'
<1>1. bsp = "done" /\ timerVector \in Vectors
  BY DEF VInv, HandlersTyped
<1>2. /\ handlers' = [v \in Vectors |-> handlers'[v]] /\ handlers'[timerVector] = "timer"
      /\ \A v \in Vectors : v # timerVector => handlers'[v] = handlers[v]
  BY <1>1 DEF VInv, HandlersTyped, Slept
<1>3. IInv'
  BY DEF VInv, IInv, Starting, OnTheWayUp, handshake
<1>4. HandlersTyped'
  BY <1>1, <1>2 DEF HandlersTyped, handshake
<1>5. TimerKept'
  BY <1>1, <1>2 DEF VInv, TimerKept, Started, OnTheWayUp, handshake
<1>6. VectorsKept'
  BY <1>2 DEF VInv, VectorsKept, Started, OnTheWayUp, handshake
<1> QED BY <1>3, <1>4, <1>5, <1>6 DEF VInv

\* A vector that is free is no controller's, and the timer's only before a
\* processor was started.
LEMMA TakeMsiKeepsVInv == ASSUME VInv, TakeMsi PROVE VInv'
<1>1. UNCHANGED handshake /\ timerVector' = timerVector /\ at # "off" /\ at' # "off"
  BY DEF TakeMsi, NextUnit, ToPort, handshake, hand
<1>2. bsp = "done" /\ timerVector \in Vectors
  BY <1>1 DEF VInv, HandlersTyped
<1>3. IInv'
  BY <1>1 DEF VInv, IInv, Starting, OnTheWayUp, handshake
<1>4. CASE UNCHANGED vectorSide
  BY <1>1, <1>2, <1>4, OthersKeepVInv DEF PhaseMoves
<1>5. CASE \E v \in Free : /\ handlers' = [handlers EXCEPT ![v] = "sata"]
                          /\ \/ vectorOf' = vectorOf
                             \/ vectorOf' = [u \in DOMAIN vectorOf \union {This} |->
                                              IF u = This THEN v ELSE vectorOf[u]]
  <2>1. PICK v \in Free : /\ handlers' = [handlers EXCEPT ![v] = "sata"]
                          /\ \/ vectorOf' = vectorOf
                             \/ vectorOf' = [u \in DOMAIN vectorOf \union {This} |->
                                              IF u = This THEN v ELSE vectorOf[u]]
    BY <1>5
  <2>2. v \in Vectors /\ handlers[v] = "nobody"
    BY CoreAssumption DEF Free, Vectors, Nobody
  <2>3. /\ handlers' = [w \in Vectors |-> handlers'[w]] /\ handlers'[v] = "sata"
        /\ \A w \in Vectors : w # v => handlers'[w] = handlers[w]
    BY <2>1, <2>2 DEF VInv, HandlersTyped
  <2>4. \A u \in DOMAIN vectorOf : vectorOf[u] # v
    BY <2>2 DEF VInv, VectorsKept
  <2>5. v = timerVector => \A c \in DOMAIN ap : ~Started(c)
    BY <2>2 DEF VInv, TimerKept
  <2>6. HandlersTyped'
    BY <1>1, <1>2, <2>3 DEF HandlersTyped, handshake
  <2>7. TimerKept'
    BY <1>1, <1>2, <2>3, <2>5 DEF VInv, TimerKept, Started, OnTheWayUp, handshake
  <2>8. CASE vectorOf' = vectorOf
    BY <1>1, <1>2, <1>3, <2>3, <2>4, <2>6, <2>7, <2>8 DEF VInv, VectorsKept, Started, OnTheWayUp, handshake
  <2>9. CASE vectorOf' = [u \in DOMAIN vectorOf \union {This} |-> IF u = This THEN v ELSE vectorOf[u]]
    BY <1>1, <1>2, <1>3, <2>2, <2>3, <2>4, <2>5, <2>6, <2>7, <2>9
       DEF VInv, VectorsKept, Started, OnTheWayUp, handshake
  <2> QED BY <2>1, <2>8, <2>9
<1> QED BY <1>4, <1>5 DEF TakeMsi, MsiRegistered, vectorSide

\* Every step keeps the invariant about vectors.
LEMMA StepVInv == VInv /\ [Next]_vars => VInv'
<1> SUFFICES ASSUME VInv, [Next]_vars PROVE VInv'
  OBVIOUS
<1>1. CASE CoreSide
  BY <1>1, CoreKeepsVInv
<1>2. CASE TakeMsi
  BY <1>2, TakeMsiKeepsVInv
<1>3. CASE PortMemory
  <2>1. UNCHANGED handshake /\ timerVector' = timerVector /\ vectorOf' = vectorOf
        /\ at # "off" /\ at' # "off" /\ (Slept \/ handlers' = handlers)
    BY <1>3 DEF PortMemory, Ask, handshake, hand
  <2> QED BY <2>1, SleepKeepsVInv, OthersKeepVInv DEF vectorSide, PhaseMoves
<1>4. CASE StillWaiting
  <2>1. UNCHANGED handshake /\ timerVector' = timerVector /\ vectorOf' = vectorOf
        /\ at # "off" /\ at' # "off" /\ Slept
    BY <1>4 DEF StillWaiting, handshake, hand, pciVars
  <2> QED BY <2>1, SleepKeepsVInv
<1>5. CASE UNCHANGED vectorSide /\ PhaseMoves /\ UNCHANGED handshake
  BY <1>5, OthersKeepVInv
<1>6. CASE UNCHANGED vars
  BY <1>6 DEF vars, pciVars, coreVars, apic, hand, VInv, IInv, Starting, OnTheWayUp, HandlersTyped,
     TimerKept, Started, VectorsKept
<1> QED BY <1>1, <1>2, <1>3, <1>4, <1>5, <1>6, OthersKeepVectors, PciKeepsHandshake DEF Next, PciStep

\* The vector of a controller leads to its driver and to no other controller,
\* on every machine where a processor was started; where none was, the timer
\* may have it.
THEOREM VectorsOwned == Spec => []MsiHandled
<1>1. Init => VInv
  BY InitIInv, CoreAssumption
     DEF Init, CoreInit, PciInit, VInv, HandlersTyped, TimerKept, Started, OnTheWayUp, VectorsKept, Vectors
<1>2. VInv /\ [Next]_vars => VInv'
  BY StepVInv
<1>3. VInv => MsiHandled
  BY DEF VInv, IInv, VectorsKept, MsiHandled, Started, OnTheWayUp
<1> QED BY <1>1, <1>2, <1>3, PTL DEF Spec

-----------------------------------------------------------------------------
(* The enumeration *)

\* Calls and functions are paths; one call is above another path when it
\* names a part of it, and two are on one line when one is above the other.
Paths == UNION {[1..n -> Nat] : n \in 1..4}
InLine(x, y) == \A j \in DOMAIN x \cap DOMAIN y : x[j] = y[j]
Above(x, y) == DOMAIN x \subseteq DOMAIN y /\ \A j \in DOMAIN x : x[j] = y[j]

\* A path is a sequence of numbers.
LEMMA PathTypes ==
  ASSUME NEW x \in Paths
  PROVE  /\ Len(x) \in 1..4 /\ DOMAIN x = 1..Len(x) /\ x \in [1..Len(x) -> Nat]
         /\ x \in Seq(Nat)
<1>1. PICK n \in 1..4 : x \in [1..n -> Nat]
  BY DEF Paths
<1>2. x \in Seq(Nat) /\ Len(x) = n /\ DOMAIN x = 1..n
  BY <1>1
<1>. QED BY <1>1, <1>2

\* A call and what comes in its place.
LEMMA InLineFacts ==
  /\ \A x, y \in Paths : InLine(x, y) = InLine(y, x)
  /\ \A x, y, z \in Paths : Above(x, y) /\ InLine(y, z) => InLine(x, z)
  /\ \A x \in Paths : InLine(x, x) /\ Above(x, x)
<1>1. \A x, y \in Paths : InLine(x, y) = InLine(y, x)
  BY DEF InLine
<1>2. \A x, y, z \in Paths : Above(x, y) /\ InLine(y, z) => InLine(x, z)
  BY DEF InLine, Above
<1>3. \A x \in Paths : InLine(x, x) /\ Above(x, x)
  BY DEF InLine, Above
<1>. QED BY <1>1, <1>2, <1>3

IsBridge(f) == Function(f).kind = "bridge"

\* A bus has been opened when it is the first of its group or lies behind a
\* bridge that is listed.
Opened(g, b) ==
  \/ b = 0
  \/ \E j \in DOMAIN pci_devices :
       /\ IsBridge(pci_devices[j]) /\ pci_devices[j][1] = g
       /\ Function(pci_devices[j]).secondary = b

\* A call that is left will look at a function.
Looks(x, f) == Above(x, f) /\ (Len(x) = 1 => f[2] = 0)

\* No function will be met twice ...
Once ==
  /\ \A i, j \in DOMAIN calls : i # j => ~InLine(calls[i], calls[j])
  /\ \A i \in DOMAIN calls, j \in DOMAIN pci_devices : ~InLine(calls[i], pci_devices[j])
  /\ \A i, j \in DOMAIN pci_devices : i # j => pci_devices[i] # pci_devices[j]
  /\ \A i \in DOMAIN calls : Len(calls[i]) >= 2 => Opened(calls[i][1], calls[i][2])
  /\ \A i \in DOMAIN pci_devices : Opened(pci_devices[i][1], pci_devices[i][2])

\* ... all that are met are to be found ...
Right ==
  /\ \A i \in DOMAIN pci_devices : pci_devices[i] \in Findable
  /\ \A i \in DOMAIN calls :
       /\ calls[i][1] \in 1..machine.groups
       /\ Len(calls[i]) >= 2 => calls[i][2] \in Reached(calls[i][1])
       /\ Len(calls[i]) = 4 /\ Present(calls[i]) => Visible(calls[i])

\* ... and none that is to be found on an opened bus is left out.
Complete ==
  \A f \in DOMAIN machine.at :
    Visible(f) /\ Opened(f[1], f[2]) =>
      \/ \E j \in DOMAIN pci_devices : pci_devices[j] = f
      \/ \E i \in DOMAIN calls : Looks(calls[i], f)

Walking ==
  /\ machine \in Machines
  /\ calls \in Seq(Paths) /\ pci_devices \in Seq(DOMAIN machine.at)
  /\ at = "off" => calls = <<>> /\ pci_devices = <<>>
  /\ at \notin {"off", "enumerate", "fault"} => calls = <<>>

ListInv == Walking /\ (Configured /\ at # "off" => Once /\ Right /\ Complete)

\* The functions of a machine are paths.
LEMMA FunctionPath ==
  ASSUME machine \in Machines, NEW f \in DOMAIN machine.at
  PROVE  /\ f \in [1..4 -> Nat] /\ f \in Paths /\ Len(f) = 4
         /\ f[1] \in 1..machine.groups /\ f[3] < DeviceCount /\ f[4] < FunctionCount
         /\ f = <<f[1], f[2], f[3], f[4]>>
         /\ IsBridge(f) => Function(f).secondary \in Nat
<1>1. Address(machine, f) /\ (IsBridge(f) => Function(f).secondary \in Nat)
  BY PciAssumption DEF IsBridge, Function
<1>2. f \in [1..4 -> Nat]
  BY <1>1 DEF Address
<1>3. f \in Paths /\ Len(f) = 4
  BY <1>2, PathTypes DEF Paths
<1>4. f = <<f[1], f[2], f[3], f[4]>>
  BY <1>2
<1>. QED BY <1>1, <1>2, <1>3, <1>4 DEF Address

\* What is in a list whose first element is replaced by others.
FirstReplaced(r, q, n, S) ==
  /\ r \in Seq(S)
  /\ \A i \in DOMAIN r : \/ i \in DOMAIN n /\ r[i] = n[i]
                         \/ \E k \in DOMAIN q : k # 1 /\ i = Len(n) + k - 1 /\ r[i] = q[k]
  /\ \A i \in DOMAIN n : i \in DOMAIN r /\ r[i] = n[i]
  /\ \A k \in DOMAIN q : k # 1 => Len(n) + k - 1 \in DOMAIN r /\ r[Len(n) + k - 1] = q[k]
  /\ Head(q) = q[1] /\ 1 \in DOMAIN q

\* So the list that begins with others in place of its head.
LEMMA Replaced ==
  ASSUME NEW S, NEW q \in Seq(S), q # <<>>, NEW n \in Seq(S)
  PROVE  FirstReplaced(n \o Tail(q), q, n, S)
<1>1. Tail(q) \in Seq(S) /\ Len(Tail(q)) = Len(q) - 1 /\ Len(q) \in Nat \ {0} /\ DOMAIN q = 1..Len(q)
  OBVIOUS
<1>2. \A k \in 1..Len(q) - 1 : Tail(q)[k] = q[k + 1]
  BY HeadTailProperties
<1>3. Len(n) \in Nat /\ DOMAIN n = 1..Len(n)
  OBVIOUS
<1>. DEFINE t == Tail(q)
            r == n \o t
<1>4. t \in Seq(S) /\ Len(t) = Len(q) - 1
  BY <1>1
<1>t. \A k \in 1..Len(q) - 1 : t[k] = q[k + 1]
  BY <1>2
<1>. HIDE DEF t
<1>c. /\ r \in Seq(S) /\ Len(r) = Len(n) + Len(t) /\ DOMAIN r = 1..Len(r)
      /\ \A i \in 1..Len(r) : r[i] = IF i <= Len(n) THEN n[i] ELSE t[i - Len(n)]
  <2>1. t \in Seq(S)
    BY <1>4
  <2>2. r \in Seq(S)
    BY <2>1
  <2>3. Len(r) = Len(n) + Len(t) /\ DOMAIN r = 1..Len(r)
    BY <2>1
  <2>4. \A i \in 1..Len(r) : r[i] = IF i <= Len(n) THEN n[i] ELSE t[i - Len(n)]
    BY <2>1, <2>3, ConcatProperties
  <2>. QED BY <2>2, <2>3, <2>4
<1>. HIDE DEF r
<1>5. Len(r) = Len(n) + Len(q) - 1
  BY <1>c, <1>4, <1>3, <1>1
<1>6. \A i \in DOMAIN r : \/ i \in DOMAIN n /\ r[i] = n[i]
                          \/ \E k \in DOMAIN q : k # 1 /\ i = Len(n) + k - 1 /\ r[i] = q[k]
  <2>1. ASSUME NEW i \in 1..Len(r), i <= Len(n) PROVE i \in DOMAIN n /\ r[i] = n[i]
    BY <2>1, <1>c, <1>3
  <2>2. ASSUME NEW i \in 1..Len(r), ~(i <= Len(n))
        PROVE  \E k \in DOMAIN q : k # 1 /\ i = Len(n) + k - 1 /\ r[i] = q[k]
    <3>1. PICK k \in 1..Len(q) - 1 : i = Len(n) + k
      <4>1. i - Len(n) \in 1..Len(q) - 1 /\ i = Len(n) + (i - Len(n))
        BY <2>2, <1>5, <1>3, <1>1
      <4>. QED BY <4>1
    <3>2. r[i] = t[k] /\ t[k] = q[k + 1]
      <4>1. i - Len(n) = k
        BY <3>1, <1>3
      <4>. QED BY <4>1, <1>c, <1>t, <2>2
    <3>. QED BY <3>1, <3>2, <1>1, <1>3, SMTT(30)
  <2>. QED BY <2>1, <2>2, <1>c
<1>7. \A i \in DOMAIN n : i \in DOMAIN r /\ r[i] = n[i]
  BY <1>5, <1>c, <1>3, <1>1
<1>8. \A k \in DOMAIN q : k # 1 => Len(n) + k - 1 \in DOMAIN r /\ r[Len(n) + k - 1] = q[k]
  <2>. SUFFICES ASSUME NEW k \in 1..Len(q) - 1
                PROVE  Len(n) + k \in DOMAIN r /\ r[Len(n) + k] = q[k + 1]
    <3>1. ASSUME NEW k \in 1..Len(q), k # 1
          PROVE  k - 1 \in 1..Len(q) - 1 /\ Len(n) + k - 1 = Len(n) + (k - 1) /\ k - 1 + 1 = k
      BY <1>1, <1>3, <3>1
    <3>. QED BY <3>1, <1>1
  <2>1. Len(n) + k \in 1..Len(r) /\ ~(Len(n) + k <= Len(n)) /\ Len(n) + k - Len(n) = k
    BY <1>5, <1>3, <1>1
  <2>2. r[Len(n) + k] = t[k] /\ t[k] = q[k + 1]
    BY <2>1, <1>c, <1>t
  <2>. QED BY <2>1, <2>2, <1>c
<1>9. Head(q) = q[1] /\ 1 \in DOMAIN q
  BY <1>1
<1>10. FirstReplaced(r, q, n, S)
  BY <1>c, <1>6, <1>7, <1>8, <1>9 DEF FirstReplaced
<1>. QED BY <1>10 DEF r, t

\* The buses that are reached.
LEMMA ReachedFacts ==
  /\ \A g : 0 \in Reached(g)
  /\ \A f \in DOMAIN machine.at :
       (f[2] \in Reached(f[1]) /\ Visible(f) /\ IsBridge(f)) => Function(f).secondary \in Reached(f[1])
  BY DEF Reached, IsBridge

\* What takes the place of a call.
Parts(c, new) ==
  \A i \in DOMAIN new : Above(c, new[i]) /\ \A j \in DOMAIN new : i # j => ~InLine(new[i], new[j])

Allowed(x) ==
  /\ Len(x) >= 2 => Opened(x[1], x[2]) /\ x[2] \in Reached(x[1])
  /\ Len(x) = 4 /\ Present(x) => Visible(x)

\* A call whose place others take that are below it and look, between them, at
\* all that it would have looked at.
LEMMA Replace ==
  ASSUME Walking, Once, Right, Complete, calls # <<>>,
         UNCHANGED <<machine, pci_devices>>,
         NEW new \in Seq(Paths), calls' = new \o Tail(calls),
         Parts(Head(calls), new), \A i \in DOMAIN new : Allowed(new[i]),
         \A f \in DOMAIN machine.at :
           Visible(f) /\ Looks(Head(calls), f) => \E i \in DOMAIN new : Looks(new[i], f)
  PROVE  calls' \in Seq(Paths) /\ (Once /\ Right /\ Complete)'
<1>. USE DEF Parts, Allowed
<1>. DEFINE c == calls[1]
<1>0. calls \in Seq(Paths) /\ \A i \in DOMAIN calls : calls[i] \in Paths
  BY DEF Walking
<1>d. \A j \in DOMAIN pci_devices : pci_devices[j] \in Paths
  BY FunctionPath DEF Walking
<1>1. /\ calls' \in Seq(Paths)
      /\ \A i \in DOMAIN calls' : \/ i \in DOMAIN new /\ calls'[i] = new[i]
                                  \/ \E k \in DOMAIN calls : k # 1 /\ i = Len(new) + k - 1 /\ calls'[i] = calls[k]
      /\ \A i \in DOMAIN new : i \in DOMAIN calls' /\ calls'[i] = new[i]
      /\ \A k \in DOMAIN calls : k # 1 => Len(new) + k - 1 \in DOMAIN calls' /\ calls'[Len(new) + k - 1] = calls[k]
      /\ Head(calls) = c /\ 1 \in DOMAIN calls
  <2>1. FirstReplaced(calls', calls, new, Paths)
    BY <1>0, Replaced, Zenon
  <2>. QED BY <2>1 DEF FirstReplaced
<1>n. /\ \A i \in DOMAIN new : new[i] \in Paths
      /\ \A k \in DOMAIN calls : k \in Int
      /\ Len(new) \in Int /\ c \in Paths
  BY <1>0, <1>1
<1>. HIDE DEF c
<1>2. \A i \in DOMAIN new : \A y \in Paths : ~InLine(c, y) => ~InLine(new[i], y) /\ ~InLine(y, new[i])
  BY <1>1, <1>n, InLineFacts
<1>3. \A k \in DOMAIN calls : k # 1 => ~InLine(c, calls[k])
  BY <1>1 DEF Once, c
<1>4. \A i, j \in DOMAIN calls' : i # j => ~InLine(calls'[i], calls'[j])
  <2>. SUFFICES ASSUME NEW i \in DOMAIN calls', NEW j \in DOMAIN calls', i # j
                PROVE  ~InLine(calls'[i], calls'[j])
    OBVIOUS
  <2>1. CASE i \in DOMAIN new /\ calls'[i] = new[i] /\ j \in DOMAIN new /\ calls'[j] = new[j]
    BY <2>1
  <2>2. CASE /\ i \in DOMAIN new /\ calls'[i] = new[i]
             /\ \E k \in DOMAIN calls : k # 1 /\ j = Len(new) + k - 1 /\ calls'[j] = calls[k]
    BY <2>2, <1>2, <1>3, <1>0
  <2>3. CASE /\ j \in DOMAIN new /\ calls'[j] = new[j]
             /\ \E k \in DOMAIN calls : k # 1 /\ i = Len(new) + k - 1 /\ calls'[i] = calls[k]
    BY <2>3, <1>2, <1>3, <1>0
  <2>4. CASE /\ \E k \in DOMAIN calls : k # 1 /\ i = Len(new) + k - 1 /\ calls'[i] = calls[k]
             /\ \E k \in DOMAIN calls : k # 1 /\ j = Len(new) + k - 1 /\ calls'[j] = calls[k]
    <3>1. PICK k \in DOMAIN calls : k # 1 /\ i = Len(new) + k - 1 /\ calls'[i] = calls[k]
      BY <2>4
    <3>2. PICK h \in DOMAIN calls : h # 1 /\ j = Len(new) + h - 1 /\ calls'[j] = calls[h]
      BY <2>4
    <3>3. k # h
      BY <3>1, <3>2
    <3>. QED BY <3>1, <3>2, <3>3 DEF Once
  <2>. QED BY <2>1, <2>2, <2>3, <2>4, <1>1
<1>5. \A i \in DOMAIN calls', j \in DOMAIN pci_devices : ~InLine(calls'[i], pci_devices[j])
  <2>. SUFFICES ASSUME NEW i \in DOMAIN calls', NEW j \in DOMAIN pci_devices
                PROVE  ~InLine(calls'[i], pci_devices[j])
    OBVIOUS
  <2>1. ~InLine(c, pci_devices[j])
    BY <1>1 DEF Once, c
  <2>2. CASE i \in DOMAIN new /\ calls'[i] = new[i]
    BY <2>1, <2>2, <1>2, <1>d
  <2>3. CASE \E k \in DOMAIN calls : k # 1 /\ i = Len(new) + k - 1 /\ calls'[i] = calls[k]
    BY <2>3 DEF Once
  <2>. QED BY <2>2, <2>3, <1>1
<1>6. \A g, b : Opened(g, b)' = Opened(g, b)
  BY DEF Opened, IsBridge, Function
<1>7. Once'
  <2>1. \A i \in DOMAIN calls' : Len(calls'[i]) >= 2 => Opened(calls'[i][1], calls'[i][2])
    BY <1>1 DEF Once
  <2>. QED BY <2>1, <1>4, <1>5, <1>6 DEF Once
<1>8. Right'
  <2>1. \A g : Reached(g)' = Reached(g)
    BY DEF Reached, Visible, Present, Function
  <2>2. Findable' = Findable /\ \A x : (Present(x)' = Present(x)) /\ (Visible(x)' = Visible(x))
    BY <2>1 DEF Findable, Visible, Present, Function
  <2>3. \A i \in DOMAIN new : new[i][1] \in 1..machine.groups
    <3>1. c[1] \in 1..machine.groups /\ 1 \in DOMAIN c
      <4>1. c[1] \in 1..machine.groups
        BY <1>1 DEF Right, c
      <4>2. 1 \in DOMAIN c
        BY <1>n DEF Paths
      <4>. QED BY <4>1, <4>2
    <3>. QED BY <3>1, <1>1 DEF Above
  <2>4. \A i \in DOMAIN calls' :
       /\ calls'[i][1] \in 1..machine.groups
       /\ Len(calls'[i]) >= 2 => calls'[i][2] \in Reached(calls'[i][1])
       /\ Len(calls'[i]) = 4 /\ Present(calls'[i]) => Visible(calls'[i])
    BY <2>3, <1>1 DEF Right
  <2>. QED BY <2>1, <2>2, <2>4 DEF Right
<1>9. Complete'
  <2>1. \A x, f : (Looks(x, f)' = Looks(x, f)) /\ (Visible(f)' = Visible(f))
    BY DEF Looks, Visible, Present, Function
  <2>2. \A f \in DOMAIN machine.at :
          Visible(f) /\ Opened(f[1], f[2]) =>
            \/ \E j \in DOMAIN pci_devices : pci_devices[j] = f
            \/ \E i \in DOMAIN calls' : Looks(calls'[i], f)
    <3>. SUFFICES ASSUME NEW f \in DOMAIN machine.at, Visible(f), NEW k \in DOMAIN calls, Looks(calls[k], f)
                  PROVE  \E i \in DOMAIN calls' : Looks(calls'[i], f)
      BY DEF Complete
    <3>1. CASE k = 1
      BY <3>1, <1>1 DEF c
    <3>2. CASE k # 1
      BY <3>2, <1>1
    <3>. QED BY <3>1, <3>2
  <2>. QED BY <2>1, <2>2, <1>6 DEF Complete
<1>. QED BY <1>1, <1>7, <1>8, <1>9

\* Appending to a call goes one level down.
OneBelow(c, y, x) ==
  /\ y \in Paths /\ Above(c, y) /\ Len(y) = Len(c) + 1 /\ y[Len(c) + 1] = x
  /\ \A j \in 1..Len(c) : y[j] = c[j]

\* So a call with one more argument.
LEMMA Below ==
  ASSUME NEW c \in Paths, Len(c) <= 3, NEW x \in Nat
  PROVE  OneBelow(c, Append(c, x), x)
<1>1. /\ Len(c) \in 1..4 /\ DOMAIN c = 1..Len(c) /\ c \in Seq(Nat)
  BY PathTypes
<1>2. /\ Append(c, x) \in Seq(Nat) /\ Len(Append(c, x)) = Len(c) + 1
      /\ DOMAIN Append(c, x) = 1..Len(c) + 1
      /\ Append(c, x)[Len(c) + 1] = x /\ \A j \in 1..Len(c) : Append(c, x)[j] = c[j]
  BY <1>1
<1>. DEFINE a == Append(c, x)
            m == Len(c) + 1
<1>3. a \in Seq(Nat) /\ Len(a) = m /\ m \in 1..4
  BY <1>1, <1>2
<1>. HIDE DEF a, m
<1>4. a \in [1..m -> Nat]
  BY <1>3
<1>5. a \in Paths
  BY <1>3, <1>4 DEF Paths
<1>. QED BY <1>1, <1>2, <1>5 DEF Above, OneBelow, a

\* The calls that a call makes for all numbers below a bound.
Fan(c, n, new) ==
  /\ new \in Seq(Paths) /\ DOMAIN new = 1..n
  /\ \A i \in 1..n : OneBelow(c, new[i], i - 1)
  /\ Parts(c, new)

\* All of them are different paths.
LEMMA Children ==
  ASSUME NEW c \in Paths, Len(c) <= 3, NEW n \in Nat
  PROVE  Fan(c, n, [i \in 1..n |-> Append(c, i - 1)])
<1>. DEFINE new == [i \in 1..n |-> Append(c, i - 1)]
<1>1. Len(c) \in 1..4
  BY PathTypes
<1>2. \A i \in 1..n : OneBelow(c, new[i], i - 1)
  <2>. SUFFICES ASSUME NEW i \in 1..n PROVE OneBelow(c, new[i], i - 1)
    OBVIOUS
  <2>1. i - 1 \in Nat /\ new[i] = Append(c, i - 1)
    OBVIOUS
  <2>. QED BY <2>1, Below, Zenon
<1>3. DOMAIN new = 1..n /\ new = [i \in 1..n |-> new[i]]
  OBVIOUS
<1>. HIDE DEF new
<1>4. new \in [1..n -> Paths]
  BY <1>2, <1>3 DEF OneBelow
<1>5. new \in Seq(Paths)
  BY <1>4
<1>6. \A i, j \in 1..n : i # j => ~InLine(new[i], new[j])
  <2>. SUFFICES ASSUME NEW i \in 1..n, NEW j \in 1..n, i # j PROVE ~InLine(new[i], new[j])
    OBVIOUS
  <2>1. /\ new[i] \in Paths /\ Len(new[i]) = Len(c) + 1 /\ new[i][Len(c) + 1] = i - 1
        /\ new[j] \in Paths /\ Len(new[j]) = Len(c) + 1 /\ new[j][Len(c) + 1] = j - 1
    BY <1>2 DEF OneBelow
  <2>2. Len(c) + 1 \in DOMAIN new[i] /\ Len(c) + 1 \in DOMAIN new[j]
    BY <1>1, <2>1, PathTypes
  <2>3. i - 1 # j - 1
    OBVIOUS
  <2>. QED BY <2>1, <2>2, <2>3 DEF InLine
<1>7. Parts(c, new)
  BY <1>2, <1>3, <1>6 DEF Parts, OneBelow
<1>8. Fan(c, n, new)
  BY <1>2, <1>3, <1>5, <1>7 DEF Fan
<1>. QED BY <1>8 DEF new

\* Numbers from 0 are indices from 1.
LEMMA FromZero == ASSUME NEW n \in Nat, NEW k \in Nat, k < n PROVE \E i \in 1..n : i - 1 = k
<1>1. k + 1 \in 1..n /\ (k + 1) - 1 = k
  OBVIOUS
<1>. QED BY <1>1

\* The next call.
LEMMA HeadCall ==
  ASSUME Walking, calls # <<>>
  PROVE  /\ 1 \in DOMAIN calls /\ Head(calls) = calls[1] /\ calls[1] \in Paths
         /\ calls \in Seq(Paths) /\ Tail(calls) \in Seq(Paths)
  BY DEF Walking

\* A group begins with its bus 0: its host bridge has a function 0.
LEMMA AllStep ==
  ASSUME Walking, Configured, Once, Right, Complete, calls # <<>>,
         UNCHANGED machine, CheckAll(Head(calls))
  PROVE  calls' \in Seq(Paths) /\ (Once /\ Right /\ Complete)'
<1>. DEFINE c == calls[1]
            g == c[1]
            new == << <<g, 0>> >>
<1>1. Head(calls) = c /\ c \in Paths /\ Len(c) = 1 /\ calls' = First(g) \o Tail(calls)
      /\ pci_devices' = pci_devices
  BY HeadCall DEF CheckAll
<1>2. DOMAIN c = {1} /\ g \in Nat /\ g \in 1..machine.groups
  <2>1. DOMAIN c = 1..Len(c) /\ c \in [1..Len(c) -> Nat]
    BY <1>1, PathTypes
  <2>2. 1..1 = {1}
    OBVIOUS
  <2>3. g \in 1..machine.groups
    BY HeadCall DEF Right
  <2>. QED BY <1>1, <2>1, <2>2, <2>3
<1>3. First(g) = new
  <2>1. Present(<<g, 0, 0, 0>>) /\ 0 \in 0..FunctionCount - 1
    BY <1>2, PciAssumption DEF Configured
  <2>2. \A f \in 0..FunctionCount - 1 : 0 <= f
    BY PciAssumption
  <2>. DEFINE there == {f \in 0..FunctionCount - 1 : Present(<<g, 0, 0, f>>)}
  <2>3. 0 \in there /\ \A h \in there : 0 <= h /\ h \in Int
    BY <2>1, <2>2, PciAssumption
  <2>4. there # {} /\ (CHOOSE f \in there : \A h \in there : f <= h) = 0
    <3>. HIDE DEF there
    <3>1. \A f \in there : (\A h \in there : f <= h) => f = 0
      BY <2>3
    <3>. QED BY <2>3, <3>1
  <2>. QED BY <2>4 DEF First
<1>4. <<g, 0>> \in Paths /\ Above(c, <<g, 0>>) /\ Len(<<g, 0>>) = 2
  <2>1. <<g, 0>> \in [1..2 -> Nat]
    BY <1>2
  <2>2. DOMAIN c \subseteq DOMAIN <<g, 0>> /\ \A j \in DOMAIN c : c[j] = <<g, 0>>[j]
    BY <1>2
  <2>. QED BY <2>1, <2>2 DEF Paths, Above
<1>5. new \in Seq(Paths) /\ DOMAIN new = {1} /\ new[1] = <<g, 0>>
  BY <1>4
<1>6. Opened(g, 0) /\ 0 \in Reached(g)
  BY ReachedFacts DEF Opened
<1>7. \A f \in DOMAIN machine.at : Visible(f) /\ Looks(c, f) => Looks(<<g, 0>>, f)
  <2>. SUFFICES ASSUME NEW f \in DOMAIN machine.at, Looks(c, f) PROVE Looks(<<g, 0>>, f)
    OBVIOUS
  <2>1. f[2] = 0 /\ f[1] = g /\ 1 \in DOMAIN f /\ 2 \in DOMAIN f
    BY <1>1, <1>2, FunctionPath DEF Looks, Above, Walking
  <2>2. DOMAIN <<g, 0>> = {1, 2}
    OBVIOUS
  <2>. QED BY <2>1, <2>2 DEF Looks, Above
<1>. HIDE DEF c, g
<1>8. Parts(Head(calls), new) /\ \A i \in DOMAIN new : Allowed(new[i])
  <2>1. Parts(c, new)
    BY <1>4, <1>5 DEF Parts
  <2>2. <<g, 0>>[1] = g /\ <<g, 0>>[2] = 0 /\ Len(<<g, 0>>) = 2
    OBVIOUS
  <2>3. Allowed(<<g, 0>>)
    BY <2>2, <1>6 DEF Allowed
  <2>. QED BY <2>1, <2>3, <1>5, <1>1
<1>9. \A f \in DOMAIN machine.at :
           Visible(f) /\ Looks(Head(calls), f) => \E i \in DOMAIN new : Looks(new[i], f)
  BY <1>5, <1>7, <1>1
<1>10. calls' = new \o Tail(calls)
  BY <1>1, <1>3
<1>. HIDE DEF new
<1>. QED BY <1>1, <1>5, <1>8, <1>9, <1>10, Replace

\* A bus is walked device by device.
LEMMA BusStep ==
  ASSUME Walking, Configured, Once, Right, Complete, calls # <<>>,
         UNCHANGED machine, CheckBus(Head(calls))
  PROVE  calls' \in Seq(Paths) /\ (Once /\ Right /\ Complete)'
<1>. DEFINE c == calls[1]
            new == [i \in 1..DeviceCount |-> Append(c, i - 1)]
<1>1. Head(calls) = c /\ c \in Paths /\ Len(c) = 2 /\ calls' = new \o Tail(calls)
      /\ pci_devices' = pci_devices
  BY HeadCall DEF CheckBus
<1>2. Opened(c[1], c[2]) /\ c[2] \in Reached(c[1])
  BY <1>1, HeadCall DEF Once, Right
<1>. HIDE DEF c
<1>3. /\ Fan(c, DeviceCount, new) /\ new \in Seq(Paths) /\ DOMAIN new = 1..DeviceCount
      /\ \A i \in 1..DeviceCount :
           /\ new[i] \in Paths /\ Len(new[i]) = 3 /\ new[i][3] = i - 1
           /\ new[i][1] = c[1] /\ new[i][2] = c[2]
  <2>1. DeviceCount \in Nat /\ Len(c) <= 3
    BY <1>1, PciAssumption
  <2>2. Fan(c, DeviceCount, new)
    BY <1>1, <2>1, Children, Zenon
  <2>. HIDE DEF new
  <2>. QED BY <1>1, <2>2 DEF Fan, OneBelow
<1>. HIDE DEF new
<1>4. Parts(Head(calls), new) /\ \A i \in DOMAIN new : Allowed(new[i])
  <2>1. Parts(c, new)
    BY <1>3 DEF Fan
  <2>2. ASSUME NEW i \in 1..DeviceCount PROVE Allowed(new[i])
    <3>1. new[i][1] = c[1] /\ new[i][2] = c[2] /\ Len(new[i]) = 3
      BY <1>3
    <3>2. Opened(new[i][1], new[i][2]) /\ new[i][2] \in Reached(new[i][1])
      BY <3>1, <1>2, Zenon
    <3>. QED BY <3>1, <3>2 DEF Allowed
  <2>. QED BY <1>1, <1>3, <2>1, <2>2
<1>5. \A f \in DOMAIN machine.at :
           Visible(f) /\ Looks(Head(calls), f) => \E i \in DOMAIN new : Looks(new[i], f)
  <2>. SUFFICES ASSUME NEW f \in DOMAIN machine.at, Looks(c, f)
                PROVE  \E i \in DOMAIN new : Looks(new[i], f)
    BY <1>1
  <2>1. f \in [1..4 -> Nat] /\ f[3] < DeviceCount
    BY FunctionPath DEF Walking
  <2>3. PICK i \in 1..DeviceCount : i - 1 = f[3]
    <3>1. f[3] \in Nat /\ DeviceCount \in Nat
      BY <2>1, PciAssumption
    <3>. QED BY <2>1, <3>1, FromZero
  <2>4. f[1] = c[1] /\ f[2] = c[2]
    <3>1. 1 \in DOMAIN c /\ 2 \in DOMAIN c
      BY <1>1, PathTypes
    <3>. QED BY <3>1 DEF Looks, Above
  <2>5. DOMAIN new[i] = 1..3
    <3>1. new[i] \in Paths
      BY <1>3
    <3>. QED BY <3>1, <1>3, PathTypes
  <2>6. \A j \in 1..3 : new[i][j] = f[j]
    BY <1>3, <2>3, <2>4
  <2>7. Looks(new[i], f)
    BY <2>1, <2>5, <2>6, <1>3 DEF Looks, Above
  <2>. QED BY <2>7, <1>3
<1>. QED BY <1>1, <1>3, <1>4, <1>5, Replace

\* A device is walked function by function, as far as its first one says.
LEMMA DeviceStep ==
  ASSUME Walking, Configured, Once, Right, Complete, calls # <<>>,
         UNCHANGED machine, CheckDevice(Head(calls))
  PROVE  calls' \in Seq(Paths) /\ (Once /\ Right /\ Complete)'
<1>. DEFINE c == calls[1]
            n == FunctionsOf(c)
            new == [i \in 1..n |-> Append(c, i - 1)]
<1>1. Head(calls) = c /\ c \in Paths /\ Len(c) = 3 /\ calls' = new \o Tail(calls)
      /\ pci_devices' = pci_devices
  BY HeadCall DEF CheckDevice
<1>2. Opened(c[1], c[2]) /\ c[2] \in Reached(c[1])
  BY <1>1, HeadCall DEF Once, Right
<1>. HIDE DEF c
<1>a. DOMAIN c = 1..3 /\ c \in [1..3 -> Nat] /\ Append(c, 0) = <<c[1], c[2], c[3], 0>>
  <2>1. DOMAIN c = 1..3 /\ c \in [1..3 -> Nat] /\ c \in Seq(Nat)
    BY <1>1, PathTypes
  <2>. DEFINE a == Append(c, 0)
  <2>2. /\ Len(a) = 4 /\ a \in Seq(Nat) /\ a[4] = 0
        /\ a[1] = c[1] /\ a[2] = c[2] /\ a[3] = c[3]
    <3>1. Len(c) <= 3
      BY <1>1
    <3>2. OneBelow(c, a, 0)
      BY <1>1, <3>1, Below
    <3>. HIDE DEF a
    <3>. QED BY <1>1, <3>2, PathTypes DEF OneBelow
  <2>. HIDE DEF a
  <2>3. a = <<c[1], c[2], c[3], 0>>
    BY <2>2
  <2>. QED BY <2>1, <2>3 DEF a
<1>b. n \in Nat \ {0} /\ (n = FunctionCount \/ n = 1)
  BY PciAssumption DEF FunctionsOf
<1>c. \A f \in DOMAIN machine.at :
        (f[1] = c[1] /\ f[2] = c[2] /\ f[3] = c[3]) => (Visible(f) <=> f[4] < n)
  <2>. SUFFICES ASSUME NEW f \in DOMAIN machine.at, f[1] = c[1], f[2] = c[2], f[3] = c[3]
                PROVE  Visible(f) <=> f[4] < n
    OBVIOUS
  <2>1. f[4] \in Nat /\ f[4] < FunctionCount
    BY FunctionPath DEF Walking
  <2>2. Present(<<f[1], f[2], f[3], 0>>)
    BY DEF Configured
  <2>3. Visible(f) <=> (f[4] = 0 \/ Function(Append(c, 0)).multi)
    BY <2>2, <1>a DEF Visible
  <2>4. n = IF Function(Append(c, 0)).multi THEN FunctionCount ELSE 1
    BY <2>2, <1>a DEF FunctionsOf, ManyFunctions
  <2>. HIDE DEF n
  <2>. QED BY <2>1, <2>3, <2>4, PciAssumption
<1>. HIDE DEF n
<1>3. /\ Fan(c, n, new) /\ new \in Seq(Paths) /\ DOMAIN new = 1..n
      /\ \A i \in 1..n :
           /\ new[i] \in Paths /\ Len(new[i]) = 4 /\ new[i][4] = i - 1
           /\ new[i][1] = c[1] /\ new[i][2] = c[2] /\ new[i][3] = c[3]
  <2>1. n \in Nat /\ Len(c) <= 3
    BY <1>1, <1>b
  <2>2. Fan(c, n, new)
    BY <1>1, <2>1, Children, Zenon
  <2>. HIDE DEF new
  <2>. QED BY <1>1, <2>2 DEF Fan, OneBelow
<1>. HIDE DEF new
<1>4. Parts(Head(calls), new) /\ \A i \in DOMAIN new : Allowed(new[i])
  <2>1. ASSUME NEW i \in 1..n, Present(new[i]) PROVE Visible(new[i])
    <3>1. i - 1 < n
      BY <1>b
    <3>. QED BY <2>1, <3>1, <1>3, <1>c DEF Present
  <2>. QED BY <1>1, <1>2, <1>3, <2>1 DEF Fan, Allowed, Parts
<1>5. \A f \in DOMAIN machine.at :
           Visible(f) /\ Looks(Head(calls), f) => \E i \in DOMAIN new : Looks(new[i], f)
  <2>. SUFFICES ASSUME NEW f \in DOMAIN machine.at, Visible(f), Looks(c, f)
                PROVE  \E i \in DOMAIN new : Looks(new[i], f)
    BY <1>1
  <2>1. f[1] = c[1] /\ f[2] = c[2] /\ f[3] = c[3]
    BY <1>a DEF Looks, Above
  <2>2. f \in [1..4 -> Nat] /\ f[4] < n
    BY FunctionPath, <2>1, <1>c DEF Walking
  <2>4. PICK i \in 1..n : i - 1 = f[4]
    <3>1. f[4] \in Nat /\ n \in Nat
      BY <2>2, <1>b
    <3>. QED BY <2>2, <3>1, FromZero
  <2>5. DOMAIN new[i] = 1..4
    <3>1. new[i] \in Paths
      BY <1>3
    <3>. QED BY <3>1, <1>3, PathTypes
  <2>6. \A j \in 1..4 : new[i][j] = f[j]
    BY <1>3, <2>1, <2>4
  <2>7. Looks(new[i], f)
    BY <2>2, <2>5, <2>6, <1>3 DEF Looks, Above
  <2>. QED BY <2>7, <1>3
<1>. QED BY <1>1, <1>3, <1>4, <1>5, Replace

\* A function that is there is listed, and the bus behind it is opened if it is
\* a bridge; no bus is opened twice.
LEMMA FunctionStep ==
  ASSUME Walking, Configured, Once, Right, Complete, calls # <<>>,
         UNCHANGED machine, CheckFunction(Head(calls))
  PROVE  /\ calls' \in Seq(Paths) /\ pci_devices' \in Seq(DOMAIN machine.at)
         /\ (Once /\ Right /\ Complete)'
<1>. DEFINE c == calls[1]
<1>1. Head(calls) = c /\ c \in Paths /\ Len(c) = 4 /\ Tail(calls) \in Seq(Paths)
  BY HeadCall DEF CheckFunction
<1>2. Opened(c[1], c[2]) /\ c[2] \in Reached(c[1]) /\ (Present(c) => Visible(c))
  BY <1>1, HeadCall DEF Once, Right
<1>3. /\ \A k \in DOMAIN calls : k # 1 => ~InLine(c, calls[k]) /\ ~InLine(calls[k], c)
      /\ \A j \in DOMAIN pci_devices : ~InLine(c, pci_devices[j]) /\ c # pci_devices[j]
  BY <1>1, HeadCall, InLineFacts DEF Once
<1>. HIDE DEF c
<1>4. \A f \in DOMAIN machine.at : Looks(c, f) => f = c
  <2>. SUFFICES ASSUME NEW f \in DOMAIN machine.at, Above(c, f) PROVE f = c
    BY DEF Looks
  <2>1. c \in [1..4 -> Nat] /\ f \in [1..4 -> Nat]
    BY <1>1, PathTypes, FunctionPath DEF Walking
  <2>. QED BY <2>1 DEF Above
<1>5. CASE ~Present(c)
  <2>. DEFINE new == <<>>
  <2>1. pci_devices' = pci_devices /\ calls' = new \o Tail(calls)
    BY <1>1, <1>5 DEF CheckFunction
  <2>2. new \in Seq(Paths) /\ DOMAIN new = {}
    OBVIOUS
  <2>. HIDE DEF new
  <2>3. Parts(Head(calls), new) /\ \A i \in DOMAIN new : Allowed(new[i])
    BY <2>2 DEF Parts
  <2>4. \A f \in DOMAIN machine.at :
           Visible(f) /\ Looks(Head(calls), f) => \E i \in DOMAIN new : Looks(new[i], f)
    BY <1>1, <1>4, <1>5 DEF Present
  <2>. QED BY <2>1, <2>2, <2>3, <2>4, Replace DEF Walking
<1>6. CASE Present(c)
  <2>. DEFINE s == Function(c).secondary
              new == IF IsBridge(c) THEN << <<c[1], s>> >> ELSE <<>>
              d == pci_devices
  <2>1. calls' = new \o Tail(calls) /\ d' = Append(d, c)
    <3>1. \A t \in Seq(Paths) : <<>> \o t = t
      OBVIOUS
    <3>. QED BY <1>1, <1>6, <3>1 DEF CheckFunction, IsBridge
  <2>2. c \in DOMAIN machine.at /\ c \in [1..4 -> Nat] /\ c[1] \in 1..machine.groups
        /\ (IsBridge(c) => s \in Nat /\ s > c[2])
    BY <1>6, FunctionPath DEF Present, Walking, Configured, IsBridge
  <2>. HIDE DEF s
  <2>3. IsBridge(c) => <<c[1], s>> \in Paths
    <3>. SUFFICES ASSUME s \in Nat PROVE <<c[1], s>> \in Paths
      BY <2>2
    <3>1. <<c[1], s>> \in [1..2 -> Nat]
      BY <2>2
    <3>. QED BY <3>1 DEF Paths
  <2>4. /\ new \in Seq(Paths)
        /\ \A i \in DOMAIN new : i = 1 /\ IsBridge(c) /\ new[i] = <<c[1], s>>
        /\ IsBridge(c) => 1 \in DOMAIN new /\ new[1] = <<c[1], s>>
    BY <2>3
  <2>5. /\ d' \in Seq(DOMAIN machine.at) /\ Len(d') = Len(d) + 1 /\ Len(d) \in Nat
        /\ DOMAIN d = 1..Len(d) /\ DOMAIN d' = 1..Len(d) + 1
        /\ d'[Len(d) + 1] = c /\ \A j \in DOMAIN d : d'[j] = d[j]
    BY <2>1, <2>2 DEF Walking
  <2>6. /\ DOMAIN d \subseteq DOMAIN d' /\ Len(d) + 1 \in DOMAIN d'
        /\ \A j \in DOMAIN d' : j \in DOMAIN d \/ (j = Len(d) + 1 /\ d'[j] = c)
    BY <2>5
  <2>. HIDE DEF new
  <2>7. FirstReplaced(calls', calls, new, Paths)
    BY <2>1, <2>4, HeadCall, Replaced, Zenon
  <2>8. /\ calls' \in Seq(Paths)
        /\ \A i \in DOMAIN calls' : \/ i \in DOMAIN new /\ calls'[i] = new[i]
                                    \/ \E k \in DOMAIN calls : k # 1 /\ i = Len(new) + k - 1 /\ calls'[i] = calls[k]
        /\ \A i \in DOMAIN new : i \in DOMAIN calls' /\ calls'[i] = new[i]
        /\ \A k \in DOMAIN calls : k # 1 => Len(new) + k - 1 \in DOMAIN calls' /\ calls'[Len(new) + k - 1] = calls[k]
    BY <2>7 DEF FirstReplaced
  <2>n. /\ \A k \in DOMAIN calls : k \in Int /\ calls[k] \in Paths
        /\ Len(new) \in Int /\ DOMAIN calls = 1..Len(calls) /\ Len(calls) \in Nat
    BY <2>4, HeadCall
  \* The bus behind the bridge was not open.
  <2>9. IsBridge(c) => ~Opened(c[1], s)
    <3>. SUFFICES ASSUME IsBridge(c), Opened(c[1], s) PROVE FALSE
      OBVIOUS
    <3>1. s # 0
      BY <2>2
    <3>2. PICK j \in DOMAIN d : IsBridge(d[j]) /\ d[j][1] = c[1] /\ Function(d[j]).secondary = s
      BY <3>1 DEF Opened
    <3>3. d[j] \in DOMAIN machine.at
      BY DEF Walking
    <3>. QED BY <2>2, <3>2, <3>3, <1>3 DEF Configured, IsBridge, s
  <2>10. ASSUME IsBridge(c), NEW x \in Paths, InLine(x, <<c[1], s>>) \/ InLine(<<c[1], s>>, x)
         PROVE  x[1] = c[1] /\ (Len(x) >= 2 => x[2] = s)
    <3>1. 1 \in DOMAIN x /\ (Len(x) >= 2 => 2 \in DOMAIN x)
      BY PathTypes
    <3>2. DOMAIN <<c[1], s>> = {1, 2} /\ <<c[1], s>>[1] = c[1] /\ <<c[1], s>>[2] = s
      OBVIOUS
    <3>. QED BY <2>10, <3>1, <3>2 DEF InLine
  <2>11. ASSUME IsBridge(c), NEW k \in DOMAIN calls, k # 1
         PROVE  ~InLine(calls[k], <<c[1], s>>) /\ ~InLine(<<c[1], s>>, calls[k])
    <3>1. calls[k] \in Paths /\ ~InLine(calls[k], c)
      BY <1>3, <2>n, <2>11
    <3>2. CASE Len(calls[k]) >= 2
      BY <3>1, <3>2, <2>9, <2>10, <2>11 DEF Once
    <3>3. CASE ~(Len(calls[k]) >= 2)
      <4>1. DOMAIN calls[k] = {1}
        <5>1. Len(calls[k]) \in 1..4 /\ DOMAIN calls[k] = 1..Len(calls[k])
          BY <3>1, PathTypes
        <5>2. Len(calls[k]) = 1
          BY <5>1, <3>3
        <5>3. 1..1 = {1}
          OBVIOUS
        <5>. QED BY <5>1, <5>2, <5>3
      <4>2. calls[k][1] # c[1]
        BY <3>1, <4>1 DEF InLine
      <4>. QED BY <3>1, <4>2, <2>10, <2>11
    <3>. QED BY <3>2, <3>3
  <2>12. ASSUME IsBridge(c), NEW j \in DOMAIN d'
         PROVE  ~InLine(<<c[1], s>>, d'[j])
    <3>1. d'[j] \in DOMAIN machine.at /\ d'[j] \in Paths /\ Len(d'[j]) = 4
      BY <2>5, FunctionPath DEF Walking
    <3>2. CASE j \in DOMAIN d
      <4>1. Opened(d'[j][1], d'[j][2])
        BY <3>2, <2>5 DEF Once
      <4>2. InLine(<<c[1], s>>, d'[j]) => d'[j][1] = c[1] /\ d'[j][2] = s
        BY <3>1, <2>10, <2>12
      <4>. QED BY <4>1, <4>2, <2>9, <2>12
    <3>3. CASE d'[j] = c
      BY <3>1, <3>3, <2>2, <2>10, <2>12
    <3>. QED BY <3>2, <3>3, <2>6
  <2>. DEFINE Open(g, b) ==
                \/ b = 0
                \/ \E j \in DOMAIN d' :
                     IsBridge(d'[j]) /\ d'[j][1] = g /\ Function(d'[j]).secondary = b
  <2>o. \A g, b : Opened(g, b)' = Open(g, b)
    BY DEF Opened, IsBridge, Function
  <2>13. \A g, b : Opened(g, b) => Open(g, b)
    BY <2>5, <2>6 DEF Opened
  <2>14. IsBridge(c) => Open(c[1], s)
    BY <2>5, <2>6 DEF s
  <2>15. \A g, b : Open(g, b) => Opened(g, b) \/ (IsBridge(c) /\ g = c[1] /\ b = s)
    BY <2>5, <2>6 DEF Opened, s
  <2>. HIDE DEF Open
  <2>16. \A i, j \in DOMAIN calls' : i # j => ~InLine(calls'[i], calls'[j])
    <3>. SUFFICES ASSUME NEW i \in DOMAIN calls', NEW j \in DOMAIN calls', i # j
                  PROVE  ~InLine(calls'[i], calls'[j])
      OBVIOUS
    <3>1. CASE i \in DOMAIN new /\ j \in DOMAIN new
      BY <3>1, <2>4
    <3>2. CASE /\ i \in DOMAIN new /\ calls'[i] = new[i]
               /\ \E k \in DOMAIN calls : k # 1 /\ j = Len(new) + k - 1 /\ calls'[j] = calls[k]
      BY <3>2, <2>4, <2>11
    <3>3. CASE /\ j \in DOMAIN new /\ calls'[j] = new[j]
               /\ \E k \in DOMAIN calls : k # 1 /\ i = Len(new) + k - 1 /\ calls'[i] = calls[k]
      BY <3>3, <2>4, <2>11
    <3>4. CASE /\ \E k \in DOMAIN calls : k # 1 /\ i = Len(new) + k - 1 /\ calls'[i] = calls[k]
               /\ \E k \in DOMAIN calls : k # 1 /\ j = Len(new) + k - 1 /\ calls'[j] = calls[k]
      <4>1. PICK k \in DOMAIN calls : k # 1 /\ i = Len(new) + k - 1 /\ calls'[i] = calls[k]
        BY <3>4
      <4>2. PICK h \in DOMAIN calls : h # 1 /\ j = Len(new) + h - 1 /\ calls'[j] = calls[h]
        BY <3>4
      <4>3. k # h
        BY <4>1, <4>2
      <4>. QED BY <4>1, <4>2, <4>3 DEF Once
    <3>. QED BY <3>1, <3>2, <3>3, <3>4, <2>8
  <2>17. \A i \in DOMAIN calls', j \in DOMAIN d' : ~InLine(calls'[i], d'[j])
    <3>. SUFFICES ASSUME NEW i \in DOMAIN calls', NEW j \in DOMAIN d' PROVE ~InLine(calls'[i], d'[j])
      OBVIOUS
    <3>1. CASE i \in DOMAIN new /\ calls'[i] = new[i]
      BY <3>1, <2>4, <2>12
    <3>2. CASE \E k \in DOMAIN calls : k # 1 /\ i = Len(new) + k - 1 /\ calls'[i] = calls[k]
      BY <3>2, <2>5, <2>6, <1>3 DEF Once
    <3>. QED BY <3>1, <3>2, <2>8
  <2>18. \A i, j \in DOMAIN d' : i # j => d'[i] # d'[j]
    BY <2>5, <2>6, <1>3 DEF Once
  <2>19. \A i \in DOMAIN calls' : Len(calls'[i]) >= 2 => Open(calls'[i][1], calls'[i][2])
    <3>. SUFFICES ASSUME NEW i \in DOMAIN calls', Len(calls'[i]) >= 2
                  PROVE  Open(calls'[i][1], calls'[i][2])
      OBVIOUS
    <3>1. CASE i \in DOMAIN new /\ calls'[i] = new[i]
      <4>1. IsBridge(c) /\ calls'[i] = <<c[1], s>>
        BY <3>1, <2>4
      <4>2. calls'[i][1] = c[1] /\ calls'[i][2] = s
        BY <4>1
      <4>. QED BY <4>1, <4>2, <2>14
    <3>2. CASE \E k \in DOMAIN calls : k # 1 /\ i = Len(new) + k - 1 /\ calls'[i] = calls[k]
      BY <3>2, <2>13 DEF Once
    <3>. QED BY <3>1, <3>2, <2>8
  <2>20. \A i \in DOMAIN d' : Open(d'[i][1], d'[i][2])
    BY <2>5, <2>6, <2>13, <1>2 DEF Once
  <2>21. Once'
    BY <2>16, <2>17, <2>18, <2>19, <2>20, <2>o DEF Once
  <2>22. \A g : Reached(g)' = Reached(g)
    BY DEF Reached, Visible, Present, Function
  <2>23. Findable' = Findable /\ \A x : (Present(x)' = Present(x)) /\ (Visible(x)' = Visible(x))
    BY <2>22 DEF Findable, Visible, Present, Function
  <2>24. \A i \in DOMAIN d' : d'[i] \in Findable
    <3>1. c \in Findable
      BY <1>2, <1>6, <2>2 DEF Findable
    <3>. QED BY <3>1, <2>5, <2>6 DEF Right
  <2>25. \A i \in DOMAIN calls' :
       /\ calls'[i][1] \in 1..machine.groups
       /\ Len(calls'[i]) >= 2 => calls'[i][2] \in Reached(calls'[i][1])
       /\ Len(calls'[i]) = 4 /\ Present(calls'[i]) => Visible(calls'[i])
    <3>. SUFFICES ASSUME NEW i \in DOMAIN calls'
                  PROVE  /\ calls'[i][1] \in 1..machine.groups
                         /\ Len(calls'[i]) >= 2 => calls'[i][2] \in Reached(calls'[i][1])
                         /\ Len(calls'[i]) = 4 /\ Present(calls'[i]) => Visible(calls'[i])
      OBVIOUS
    <3>1. CASE i \in DOMAIN new /\ calls'[i] = new[i]
      <4>1. IsBridge(c) /\ calls'[i] = <<c[1], s>>
        BY <3>1, <2>4
      <4>2. calls'[i][1] = c[1] /\ calls'[i][2] = s /\ Len(calls'[i]) = 2
        BY <4>1
      <4>3. s \in Reached(c[1])
        BY <4>1, <1>2, <1>6, <2>2, ReachedFacts DEF s
      <4>. QED BY <4>2, <4>3, <2>2
    <3>2. CASE \E k \in DOMAIN calls : k # 1 /\ i = Len(new) + k - 1 /\ calls'[i] = calls[k]
      BY <3>2 DEF Right
    <3>. QED BY <3>1, <3>2, <2>8
  <2>26. Right'
    BY <2>22, <2>23, <2>24, <2>25 DEF Right
  <2>27. \A f \in DOMAIN machine.at :
          Visible(f) /\ Open(f[1], f[2]) =>
            \/ \E j \in DOMAIN d' : d'[j] = f
            \/ \E i \in DOMAIN calls' : Looks(calls'[i], f)
    <3>. SUFFICES ASSUME NEW f \in DOMAIN machine.at, Visible(f), Open(f[1], f[2])
                  PROVE  \/ \E j \in DOMAIN d' : d'[j] = f
                         \/ \E i \in DOMAIN calls' : Looks(calls'[i], f)
      OBVIOUS
    <3>1. CASE IsBridge(c) /\ f[1] = c[1] /\ f[2] = s
      <4>1. Looks(<<c[1], s>>, f)
        <5>1. DOMAIN <<c[1], s>> = {1, 2} /\ <<c[1], s>>[1] = c[1] /\ <<c[1], s>>[2] = s /\ Len(<<c[1], s>>) = 2
          OBVIOUS
        <5>2. DOMAIN f = 1..4
          BY FunctionPath DEF Walking
        <5>. QED BY <5>1, <5>2, <3>1 DEF Looks, Above
      <4>. QED BY <4>1, <3>1, <2>4, <2>8
    <3>2. CASE Opened(f[1], f[2])
      <4>1. CASE \E j \in DOMAIN d : d[j] = f
        BY <4>1, <2>5, <2>6
      <4>2. CASE \E k \in DOMAIN calls : Looks(calls[k], f)
        <5>1. PICK k \in DOMAIN calls : Looks(calls[k], f)
          BY <4>2
        <5>2. CASE k = 1
          BY <5>1, <5>2, <1>4, <2>5, <2>6 DEF c
        <5>3. CASE k # 1
          BY <5>1, <5>3, <2>8
        <5>. QED BY <5>2, <5>3
      <4>. QED BY <3>2, <4>1, <4>2 DEF Complete
    <3>. QED BY <3>1, <3>2, <2>15
  <2>28. Complete'
    <3>1. \A x, f : (Looks(x, f)' = Looks(x, f))
      BY DEF Looks
    <3>. QED BY <2>23, <2>27, <2>o, <3>1 DEF Complete
  <2>. QED BY <2>5, <2>8, <2>21, <2>26, <2>28
<1>. QED BY <1>5, <1>6

\* The groups of the table in turn, on every machine; no device is listed yet.
LEMMA StartStep ==
  ASSUME Walking, at = "off", StartPci
  PROVE  calls' \in Seq(Paths) /\ (Configured => (Once /\ Right /\ Complete)')
<1>. DEFINE n == machine.groups
            d == pci_devices
<1>1. /\ calls' = [g \in 1..n |-> <<g>>] /\ d' = d /\ d = <<>> /\ machine' = machine
      /\ machine \in Machines
  BY DEF StartPci, Walking
<1>2. n \in Nat
  BY <1>1, PciAssumption
<1>. DEFINE new == [g \in 1..n |-> <<g>>]
<1>3. \A g \in 1..n : /\ new[g] \in Paths /\ Len(new[g]) = 1 /\ new[g][1] = g
                      /\ DOMAIN new[g] = {1}
  <2>. SUFFICES ASSUME NEW g \in 1..n
                PROVE  <<g>> \in Paths /\ Len(<<g>>) = 1 /\ <<g>>[1] = g /\ DOMAIN <<g>> = {1}
    OBVIOUS
  <2>1. <<g>> \in [1..1 -> Nat] /\ Len(<<g>>) = 1 /\ <<g>>[1] = g /\ DOMAIN <<g>> = {1}
    BY <1>2
  <2>. QED BY <2>1 DEF Paths
<1>4. DOMAIN new = 1..n /\ new = [g \in 1..n |-> new[g]]
  OBVIOUS
<1>. HIDE DEF new, n
<1>5. new \in [1..n -> Paths]
  BY <1>3, <1>4
<1>6. calls' \in Seq(Paths) /\ DOMAIN calls' = 1..n /\ calls' = new
  BY <1>1, <1>2, <1>4, <1>5 DEF new, n
<1>7. DOMAIN d' = {}
  BY <1>1
<1>8. Once'
  BY <1>3, <1>6, <1>7 DEF Once, InLine
<1>9. Right'
  BY <1>1, <1>3, <1>6, <1>7 DEF Right, n
<1>10. Complete'
  <2>1. \A f \in DOMAIN machine.at : f[2] = 0 => \E i \in DOMAIN calls' : Looks(calls'[i], f)
    <3>. SUFFICES ASSUME NEW f \in DOMAIN machine.at, f[2] = 0
                  PROVE  \E i \in DOMAIN calls' : Looks(calls'[i], f)
      OBVIOUS
    <3>1. f[1] \in 1..n /\ 1 \in DOMAIN f
      BY <1>1, FunctionPath DEF n
    <3>2. Looks(calls'[f[1]], f)
      BY <3>1, <1>3, <1>6 DEF Looks, Above
    <3>. QED BY <3>1, <3>2, <1>6
  <2>2. \A g, b : Opened(g, b)' => b = 0
    BY <1>7 DEF Opened
  <2>3. \A x, f : (Looks(x, f)' = Looks(x, f)) /\ (Visible(f)' = Visible(f))
    BY <1>1 DEF Looks, Visible, Present, Function
  <2>. QED BY <2>1, <2>2, <2>3, <1>1 DEF Complete
<1>. QED BY <1>6, <1>8, <1>9, <1>10

\* Nothing but the walk changes the list or what is left of the walk.
ListKept ==
  /\ UNCHANGED <<machine, calls, pci_devices>>
  /\ \/ at' = at
     \/ at \notin {"off", "enumerate", "fault"} /\ at' # "off"
     \/ at = "enumerate" /\ at' = "unit" /\ calls = <<>>
     \/ at = "enumerate" /\ at' = "fault"

\* The other steps of the start do not walk.
LEMMA OthersKeepList ==
  ASSUME CoreSide \/ StillWaiting \/ Hardware \/ Overrun \/ Enumerated \/ SkipUnit
         \/ AllUnits \/ StartSata \/ StartXhci \/ Went \/ TakeMsi \/ StopPort \/ PortMemory \/ Probe \/ Identified
  PROVE  ListKept
<1>1. CoreSide => ListKept
  BY DEF CoreSide, ListKept, pciVars, listing
<1>2. StillWaiting => ListKept
  BY DEF StillWaiting, ListKept, pciVars, listing
<1>3. Hardware => ListKept
  BY DEF Hardware, Answer, IdentifyFails, LinkUp, ListKept, listing
<1>4. Overrun => ListKept
  BY DEF Overrun, ListKept, listing
<1>5. Enumerated => ListKept
  BY DEF Enumerated, ListKept, listing
<1>6. SkipUnit => ListKept
  BY DEF SkipUnit, NextUnit, ListKept, listing
<1>7. AllUnits => ListKept
  BY DEF AllUnits, ListKept, listing
<1>8. StartSata => ListKept
  BY DEF StartSata, NextUnit, Ask, ListKept, listing
<1>9. StartXhci => ListKept
  BY DEF StartXhci, NextUnit, Ask, ListKept, listing
<1>10. Went => ListKept
  BY DEF Went, NextUnit, Ask, ListKept, listing
<1>11. TakeMsi => ListKept
  BY DEF TakeMsi, NextUnit, ToPort, ListKept, listing
<1>12. StopPort \/ PortMemory => ListKept
  BY DEF StopPort, PortMemory, Ask, ListKept, listing
<1>13. Probe => ListKept
  BY DEF Probe, Ask, NextUnit, ToPort, ListKept, listing
<1>14. Identified => ListKept
  BY DEF Identified, NextUnit, ToPort, ListKept, listing
<1> QED BY <1>1, <1>2, <1>3, <1>4, <1>5, <1>6, <1>7, <1>8, <1>9, <1>10, <1>11, <1>12, <1>13, <1>14

\* Whatever firmware has done, calls are paths and only what is there is listed.
LEMMA WalkTypes ==
  ASSUME Walking, calls # <<>>,
         \/ CheckAll(Head(calls)) \/ CheckBus(Head(calls))
         \/ CheckDevice(Head(calls)) \/ CheckFunction(Head(calls))
  PROVE  calls' \in Seq(Paths) /\ pci_devices' \in Seq(DOMAIN machine.at)
<1>. DEFINE c == Head(calls)
            t == Tail(calls)
<1>1. c \in Paths /\ t \in Seq(Paths) /\ pci_devices \in Seq(DOMAIN machine.at)
  BY HeadCall DEF Walking
<1>j. \A n \in Seq(Paths) : n \o t \in Seq(Paths)
  BY <1>1
<1>2. CASE CheckAll(c)
  <2>1. pci_devices' = pci_devices /\ calls' = First(c[1]) \o t /\ Len(c) = 1
    BY <1>2 DEF CheckAll
  <2>2. c[1] \in Nat
    <3>1. c \in [1..1 -> Nat]
      BY <1>1, <2>1, PathTypes
    <3>. QED BY <3>1
  <2>3. ASSUME NEW x \in Nat PROVE << <<c[1], x>> >> \in Seq(Paths)
    <3>1. <<c[1], x>> \in [1..2 -> Nat]
      BY <2>2, <2>3
    <3>2. <<c[1], x>> \in Paths
      BY <3>1 DEF Paths
    <3>. QED BY <3>2
  <2>4. First(c[1]) \in Seq(Paths)
    <3>. DEFINE there == {f \in 0..FunctionCount - 1 : Present(<<c[1], 0, 0, f>>)}
    <3>1. there \in SUBSET Nat
      <4>1. 0..FunctionCount - 1 \subseteq Nat
        BY PciAssumption
      <4>2. there \subseteq 0..FunctionCount - 1
        OBVIOUS
      <4>. HIDE DEF there
      <4>. QED BY <4>1, <4>2
    <3>2. <<>> \in Seq(Paths)
      OBVIOUS
    <3>3. there # {} => (CHOOSE f \in there : \A h \in there : f <= h) \in Nat
      BY <3>1, Least
    <3>4. First(c[1]) = IF ManyFunctions(<<c[1], 0, 0, 0>>)
                        THEN IF there = {} THEN <<>>
                             ELSE << <<c[1], CHOOSE f \in there : \A h \in there : f <= h>> >>
                        ELSE << <<c[1], 0>> >>
      BY DEF First
    <3>. HIDE DEF there
    <3>. DEFINE m == CHOOSE f \in there : \A h \in there : f <= h
    <3>5. there # {} => m \in Nat
      BY <3>3
    <3>6. First(c[1]) = IF ManyFunctions(<<c[1], 0, 0, 0>>)
                        THEN IF there = {} THEN <<>> ELSE << <<c[1], m>> >>
                        ELSE << <<c[1], 0>> >>
      BY <3>4
    <3>. HIDE DEF m
    <3>. QED BY <3>2, <3>5, <3>6, <2>3
  <2>. QED BY <2>1, <2>4, <1>1, <1>j
<1>3. CASE CheckBus(c) \/ CheckDevice(c)
  <2>1. PICK n \in Nat : /\ pci_devices' = pci_devices /\ Len(c) <= 3
                         /\ calls' = [i \in 1..n |-> Append(c, i - 1)] \o t
    <3>. DEFINE fan(n) == [i \in 1..n |-> Append(c, i - 1)] \o t
    <3>1. CASE CheckBus(c)
      <4>0. Len(c) = 2 /\ pci_devices' = pci_devices /\ calls' = fan(DeviceCount)
        BY <3>1, Zenon DEF CheckBus
      <4>1. DeviceCount \in Nat /\ Len(c) <= 3 /\ pci_devices' = pci_devices /\ calls' = fan(DeviceCount)
        <5>. HIDE DEF fan, c
        <5>. QED BY <4>0, PciAssumption
      <4>. HIDE DEF fan
      <4>2. \E n \in Nat : pci_devices' = pci_devices /\ Len(c) <= 3 /\ calls' = fan(n)
        BY <4>1
      <4>. QED BY <4>2 DEF fan
    <3>2. CASE CheckDevice(c)
      <4>1. FunctionsOf(c) \in Nat
        BY PciAssumption DEF FunctionsOf
      <4>0. Len(c) = 3 /\ pci_devices' = pci_devices /\ calls' = fan(FunctionsOf(c))
        BY <3>2, Zenon DEF CheckDevice
      <4>2. Len(c) <= 3 /\ pci_devices' = pci_devices /\ calls' = fan(FunctionsOf(c))
        <5>. HIDE DEF fan, c
        <5>. QED BY <4>0
      <4>. HIDE DEF fan
      <4>3. \E n \in Nat : pci_devices' = pci_devices /\ Len(c) <= 3 /\ calls' = fan(n)
        BY <4>1, <4>2
      <4>. QED BY <4>3 DEF fan
    <3>. QED BY <1>3, <3>1, <3>2
  <2>2. Fan(c, n, [i \in 1..n |-> Append(c, i - 1)])
    BY <1>1, <2>1, Children
  <2>. DEFINE new == [i \in 1..n |-> Append(c, i - 1)]
  <2>3. new \in Seq(Paths)
    BY <2>2 DEF Fan
  <2>4. calls' = new \o t
    BY <2>1
  <2>. HIDE DEF new
  <2>. QED BY <2>1, <2>3, <2>4, <1>1, <1>j
<1>4. CASE CheckFunction(c)
  <2>1. /\ Len(c) = 4
        /\ pci_devices' = IF Present(c) THEN Append(pci_devices, c) ELSE pci_devices
        /\ calls' = IF Present(c) /\ IsBridge(c) THEN << <<c[1], Function(c).secondary>> >> \o t ELSE t
    BY <1>4 DEF CheckFunction, IsBridge
  <2>2. pci_devices' \in Seq(DOMAIN machine.at)
    <3>. HIDE DEF c, t
    <3>1. \A f \in DOMAIN machine.at : Append(pci_devices, f) \in Seq(DOMAIN machine.at)
      BY <1>1
    <3>. QED BY <2>1, <1>1, <3>1, Zenon DEF Present
  <2>3. ASSUME Present(c), IsBridge(c) PROVE << <<c[1], Function(c).secondary>> >> \in Seq(Paths)
    <3>1. c[1] \in Nat /\ Function(c).secondary \in Nat
      BY <2>3, FunctionPath DEF Present, Walking
    <3>2. <<c[1], Function(c).secondary>> \in [1..2 -> Nat]
      BY <3>1
    <3>3. <<c[1], Function(c).secondary>> \in Paths
      BY <3>2 DEF Paths
    <3>. QED BY <3>3
  <2>. HIDE DEF c, t
  <2>. QED BY <2>1, <2>2, <2>3, <1>1, <1>j
<1>. QED BY <1>2, <1>3, <1>4

\* Every step keeps the walk's invariant.
LEMMA StepListInv == ListInv /\ [Next]_vars => ListInv'
<1> SUFFICES ASSUME ListInv, [Next]_vars PROVE ListInv'
  OBVIOUS
<1>c. UNCHANGED machine => (Configured' = Configured)
  BY DEF Configured, Present, Function
<1>1. CASE ListKept
  <2>1. Walking'
    BY <1>1 DEF ListInv, Walking, ListKept
  <2>2. (Once /\ Right /\ Complete)' = (Once /\ Right /\ Complete)
    <3>1. UNCHANGED <<machine, calls, pci_devices>>
      BY <1>1 DEF ListKept
    <3>2. Once' = Once
      BY <3>1 DEF Once, Opened, IsBridge, Function
    <3>3. Complete' = Complete
      BY <3>1 DEF Complete, Opened, IsBridge, Visible, Present, Function, Looks
    <3>4. Right' = Right
      BY <3>1 DEF Right, Findable, Reached, Visible, Present, Function
    <3>. QED BY <3>2, <3>3, <3>4
  <2>3. at' # "off" => at # "off"
    BY <1>1 DEF ListKept
  <2>. QED BY <2>1, <2>2, <2>3, <1>1, <1>c DEF ListInv, ListKept
<1>2. CASE StartPci
  <2>1. /\ at = "off" /\ at' = "enumerate" /\ UNCHANGED <<machine, pci_devices>>
        /\ Walking
    BY <1>2 DEF StartPci, ListInv
  <2>2. calls' \in Seq(Paths) /\ (Configured => (Once /\ Right /\ Complete)')
    BY <1>2, <2>1, StartStep
  <2>. QED BY <2>1, <2>2, <1>c DEF ListInv, Walking
<1>3. CASE CheckNext
  <2>1. /\ at = "enumerate" /\ at' = at /\ machine' = machine /\ calls # <<>> /\ Walking
        /\ \/ CheckAll(Head(calls)) \/ CheckBus(Head(calls))
           \/ CheckDevice(Head(calls)) \/ CheckFunction(Head(calls))
    BY <1>3 DEF CheckNext, ListInv
  <2>2. calls' \in Seq(Paths) /\ pci_devices' \in Seq(DOMAIN machine.at)
    BY <2>1, WalkTypes
  <2>3. Walking'
    BY <2>1, <2>2 DEF Walking
  <2>4. ASSUME Configured PROVE (Once /\ Right /\ Complete)'
    <3>1. Once /\ Right /\ Complete
      BY <2>1, <2>4 DEF ListInv
    <3>. QED BY <2>1, <2>4, <3>1, AllStep, BusStep, DeviceStep, FunctionStep
  <2>. QED BY <2>3, <2>4, <2>1, <1>c DEF ListInv
<1>4. CASE UNCHANGED vars
  BY <1>4, <1>1 DEF vars, pciVars, listing, ListKept
<1> QED BY <1>1, <1>2, <1>3, <1>4, OthersKeepList DEF Next, PciStep

\* Every bus that is reached has been opened when nothing is left of the walk.
LEMMA ReachedOpened ==
  ASSUME Walking, Complete, calls = <<>>, NEW g, NEW b \in Reached(g)
  PROVE  Opened(g, b)
<1>. DEFINE buses == {0} \union {Function(f).secondary : f \in {h \in DOMAIN machine.at : Function(h).kind = "bridge"}}
            B == {x \in buses : Opened(g, x)}
<1>1. 0 \in B
  BY DEF Opened
<1>2. ASSUME NEW f \in DOMAIN machine.at, f[1] = g, f[2] \in B, Visible(f), Function(f).kind = "bridge"
      PROVE  Function(f).secondary \in B
  <2>1. \E j \in DOMAIN pci_devices : pci_devices[j] = f
    BY <1>2 DEF Complete
  <2>2. Opened(g, Function(f).secondary)
    BY <1>2, <2>1 DEF Opened, IsBridge
  <2>. QED BY <1>2, <2>2
<1>3. B \in SUBSET buses
  OBVIOUS
<1>. HIDE DEF B
<1>4. b \in B
  BY <1>1, <1>2, <1>3 DEF Reached
<1>. QED BY <1>4 DEF B

\* When the walk is over its list is exact.
LEMMA ListInvExact == ListInv => ListExact
<1> SUFFICES ASSUME ListInv, Configured, at \in {"unit", "done"}
             PROVE  ToSet(pci_devices) = Findable /\ Len(pci_devices) = Cardinality(Findable)
  BY DEF ListExact
<1>1. Walking /\ Once /\ Right /\ Complete /\ calls = <<>>
  BY DEF ListInv, Walking
<1>. DEFINE d == pci_devices
            n == Len(d)
<1>2. n \in Nat /\ DOMAIN d = 1..n
  BY <1>1 DEF Walking
<1>3. ToSet(d) = Findable
  <2>1. ASSUME NEW f \in Findable PROVE f \in ToSet(d)
    <3>1. f \in DOMAIN machine.at /\ f[2] \in Reached(f[1]) /\ Visible(f)
      BY DEF Findable
    <3>2. Opened(f[1], f[2])
      BY <1>1, <3>1, ReachedOpened
    <3>3. \E j \in DOMAIN d : d[j] = f
      BY <1>1, <3>1, <3>2 DEF Complete
    <3>. QED BY <3>3 DEF ToSet
  <2>2. ASSUME NEW f \in ToSet(d) PROVE f \in Findable
    BY <1>1 DEF ToSet, Right
  <2>. QED BY <2>1, <2>2
<1>4. d \in Bijection(1..n, Findable)
  <2>1. d \in [1..n -> Findable]
    BY <1>1, <1>2 DEF Walking, Right
  <2>2. \A i, j \in 1..n : d[i] = d[j] => i = j
    BY <1>1, <1>2 DEF Once
  <2>3. \A f \in Findable : \E i \in 1..n : d[i] = f
    BY <1>2, <1>3 DEF ToSet
  <2>. HIDE DEF d, n
  <2>. QED BY <2>1, <2>2, <2>3 DEF Bijection, Injection, Surjection, IsInjective
<1>5. Cardinality(Findable) = n
  BY <1>2, <1>4, FS_CountingElements DEF ExistsBijection
<1> QED BY <1>3, <1>5

\* The enumeration lists each function that software can find once, however
\* many groups, bridges behind bridges and functions a machine has, if firmware
\* has numbered its buses.
THEOREM DevicesListed == Spec => []ListExact
<1>1. Init => ListInv
  BY DEF Init, PciInit, ListInv, Walking
<1>2. ListInv /\ [Next]_vars => ListInv'
  BY StepListInv
<1>3. ListInv => ListExact
  BY ListInvExact
<1> QED BY <1>1, <1>2, <1>3, PTL DEF Spec

-----------------------------------------------------------------------------
(* The drives *)

AtPort == at \in {"port", "stop", "memory", "start", "probe", "identify"}
AtSata == at \in {"handoff", "reset", "vector"} \/ AtPort
SettingUp == at \in {"unit", "halt", "restart", "done"} \/ AtSata

\* A port has been passed when its controller is an earlier device of the list,
\* or the present one and the port an earlier port.
Passed(l, u, p) ==
  \E k \in DOMAIN pci_devices : pci_devices[k] = l[1] /\ (k < u \/ (k = u /\ l[2] < p))
PortsBehind == IF AtPort THEN port ELSE 0

DiskAt(l) == Served(l[1]) /\ Function(l[1]).drives[l[2]] \in {"disk", "mute"}

\* Only the link of a drive that answers comes up.
LinkSound ==
  /\ DOMAIN link = UNION {{<<f, p>> : p \in DOMAIN Function(f).drives} : f \in Controllers}
  /\ \A l \in DOMAIN link :
       /\ link[l] \in {"down", "up", "asleep", "signed"}
       /\ link[l] \in {"up", "signed"} => Function(l[1]).drives[l[2]] \in {"disk", "mute", "atapi"}

\* The device that is being set up is one that is.
UnitSound ==
  /\ unit \in Nat \ {0}
  /\ at \notin {"unit", "done"} => unit <= Len(pci_devices)
  /\ at = "done" => unit > Len(pci_devices)
  /\ AtSata => Unit.kind = "sata" /\ Unit.bar.type \notin {"none", "io"}
  /\ at \in {"halt", "restart"} => Unit.kind = "xhci"
  /\ AtPort => Unit.msi /\ port \in Ports
  /\ at = "identify" => Here \in late \/ Unit.drives[port] \in {"disk", "mute"}

\* A disk behind a port that was passed is a device or was late, a device is
\* behind a port that was passed and is a disk or was late, and the devices are
\* in order.
Pushed ==
  /\ devices \in Seq(DOMAIN link)
  /\ \A l \in DOMAIN link :
       DiskAt(l) /\ Passed(l, unit, PortsBehind) => l \in late \union ToSet(devices)
  /\ \A i \in DOMAIN devices :
       Passed(devices[i], unit, PortsBehind) /\ (devices[i] \in late \/ DiskAt(devices[i]))
  /\ \A i, j \in DOMAIN devices : i < j => Before(devices[i], devices[j])

DriveInv ==
  /\ LinkSound
  /\ at \in {"off", "enumerate"} => devices = <<>>
  /\ Configured /\ SettingUp => UnitSound /\ Pushed

\* What a port of the machine is.
LEMMA LinkPlaces ==
  ASSUME LinkSound, machine \in Machines
  PROVE  /\ \A l \in DOMAIN link :
              /\ l[1] \in Controllers /\ l[2] \in DOMAIN Function(l[1]).drives
              /\ l[2] \in Nat /\ l = <<l[1], l[2]>>
              /\ Function(l[1]).drives[l[2]] \in {"disk", "mute", "atapi", "sleeper", "empty"}
         /\ \A f \in Controllers : \A p \in DOMAIN Function(f).drives :
              <<f, p>> \in DOMAIN link /\ p \in Nat
<1>1. \A f \in Controllers : \A p \in DOMAIN Function(f).drives :
        p \in Nat /\ Function(f).drives[p] \in {"disk", "mute", "atapi", "sleeper", "empty"}
  BY PciAssumption DEF Controllers, Function
<1>2. \A l \in DOMAIN link :
        \E f \in Controllers : \E p \in DOMAIN Function(f).drives : l = <<f, p>>
  BY DEF LinkSound
<1>3. \A l \in DOMAIN link :
        l[1] \in Controllers /\ l[2] \in DOMAIN Function(l[1]).drives /\ l = <<l[1], l[2]>>
  BY <1>2
<1>4. \A f \in Controllers : \A p \in DOMAIN Function(f).drives : <<f, p>> \in DOMAIN link
  BY DEF LinkSound
<1>. QED BY <1>1, <1>3, <1>4

\* Links move only when the hardware moves them, and only as far as a drive goes.
LEMMA LinkStep ==
  ASSUME Walking, LinkSound, [Next]_vars, machine' = machine
  PROVE  LinkSound' /\ DOMAIN link' = DOMAIN link
<1>c. UNCHANGED link => LinkSound'
  BY DEF LinkSound, Controllers, Function
<1>1. CASE UNCHANGED link
  BY <1>1, <1>c
<1>2. CASE Answer
  <2>1. /\ DOMAIN link' = DOMAIN link
        /\ \A l \in DOMAIN link : link'[l] = "down" \/ link'[l] = link[l]
    BY <1>2 DEF Answer
  <2>. QED BY <2>1 DEF LinkSound, Controllers, Function
<1>f. CASE IdentifyFails
  BY <1>f, <1>1 DEF IdentifyFails
<1>3. CASE \E l \in DOMAIN link : LinkUp(l)
  <2>1. PICK l \in DOMAIN link : LinkUp(l)
    BY <1>3
  <2>2. Function(l[1]).drives[l[2]] \in {"disk", "mute", "atapi", "sleeper"}
    BY <2>1, LinkPlaces DEF LinkUp, Walking
  <2>3. \E v : /\ link' = [link EXCEPT ![l] = v]
               /\ \/ v = "asleep"
                  \/ v = "up" /\ Function(l[1]).drives[l[2]] # "sleeper"
                  \/ v = "signed" /\ link[l] = "up"
                  \/ v = link[l]
    <3>1. link[l] \in {"down", "up", "asleep", "signed"}
      BY DEF LinkSound
    <3>2. CASE link[l] = "down"
      BY <2>1, <3>2 DEF LinkUp
    <3>3. CASE link[l] = "up"
      BY <2>1, <3>3 DEF LinkUp
    <3>4. CASE link[l] \in {"asleep", "signed"}
      BY <2>1, <3>4 DEF LinkUp
    <3>. QED BY <3>1, <3>2, <3>3, <3>4
  <2>4. PICK v : /\ link' = [link EXCEPT ![l] = v]
                 /\ \/ v = "asleep"
                    \/ v = "up" /\ Function(l[1]).drives[l[2]] # "sleeper"
                    \/ v = "signed" /\ link[l] = "up"
                    \/ v = link[l]
    BY <2>3
  <2>5. v \in {"down", "up", "asleep", "signed"}
        /\ (v \in {"up", "signed"} => Function(l[1]).drives[l[2]] \in {"disk", "mute", "atapi"})
    BY <2>2, <2>4 DEF LinkSound
  <2>6. /\ DOMAIN link' = DOMAIN link
        /\ \A m \in DOMAIN link : link'[m] = IF m = l THEN v ELSE link[m]
    BY <2>4
  <2>. QED BY <2>5, <2>6 DEF LinkSound, Controllers, Function
<1>4. CASE CoreSide \/ StillWaiting \/ UNCHANGED vars
  BY <1>4, <1>1 DEF CoreSide, StillWaiting, vars, pciVars
<1>5. CASE PciStep
  BY <1>5, <1>1 DEF PciStep, StartPci, CheckNext, Overrun, Enumerated, SkipUnit, AllUnits,
     StartSata, StartXhci, Went, TakeMsi, StopPort, PortMemory, Probe, Identified
<1>. QED BY <1>2, <1>f, <1>3, <1>4, <1>5 DEF Next, Hardware

\* Each function has one place in the list.
LEMMA OnePlace ==
  ASSUME Walking, Once, NEW x, NEW k \in DOMAIN pci_devices, pci_devices[k] = x
  PROVE  (CHOOSE i \in DOMAIN pci_devices : pci_devices[i] = x) = k
  BY DEF Once

\* Where no device is pushed, the ports that are newly passed have no disk that
\* was ready.
LEMMA NothingPushed ==
  ASSUME Pushed, UNCHANGED <<machine, pci_devices, devices>>, DOMAIN link' = DOMAIN link,
         late \subseteq late',
         \A l \in DOMAIN link :
           Passed(l, unit, PortsBehind) => Passed(l, unit', PortsBehind'),
         \A l \in DOMAIN link :
           DiskAt(l) /\ Passed(l, unit', PortsBehind') => Passed(l, unit, PortsBehind) \/ l \in late'
  PROVE  Pushed'
<1>1. \A l, u, p : Passed(l, u, p)' = Passed(l, u, p)
  BY DEF Passed
<1>2. \A x, y : Before(x, y)' = Before(x, y)
  BY DEF Before
<1>3. \A l : DiskAt(l)' = DiskAt(l)
  BY DEF DiskAt, Served, Function
<1>. DEFINE q == PortsBehind
<1>4. /\ devices \in Seq(DOMAIN link)
      /\ \A l \in DOMAIN link : DiskAt(l) /\ Passed(l, unit, q) => l \in late \union ToSet(devices)
      /\ \A i \in DOMAIN devices : devices[i] \in DOMAIN link
      /\ \A i \in DOMAIN devices :
            Passed(devices[i], unit, q) /\ (devices[i] \in late \/ DiskAt(devices[i]))
      /\ \A i, j \in DOMAIN devices : i < j => Before(devices[i], devices[j])
  BY DEF Pushed
<1>. HIDE DEF q
<1>5. \A l \in DOMAIN link' : DiskAt(l) /\ Passed(l, unit', q') => l \in late' \union ToSet(devices')
  BY <1>4 DEF q
<1>6. \A i \in DOMAIN devices' :
         Passed(devices'[i], unit', q') /\ (devices'[i] \in late' \/ DiskAt(devices'[i]))
  BY <1>4 DEF q
<1>7. \A i, j \in DOMAIN devices' : i < j => Before(devices'[i], devices'[j])
  BY <1>4
<1>. QED BY <1>1, <1>2, <1>3, <1>4, <1>5, <1>6, <1>7 DEF Pushed, q

\* A device that is pushed is behind all that were.
LEMMA OnePushed ==
  ASSUME Walking, Once, Pushed, LinkSound, UnitSound, at = "identify",
         UNCHANGED <<machine, pci_devices, late>>, devices' = Append(devices, Here),
         DOMAIN link' = DOMAIN link,
         \A l \in DOMAIN link :
           Passed(l, unit', PortsBehind') <=> Passed(l, unit, PortsBehind) \/ l = Here
  PROVE  Pushed'
<1>1. \A l, u, p : Passed(l, u, p)' = Passed(l, u, p)
  BY DEF Passed
<1>2. \A x, y : Before(x, y)' = Before(x, y)
  BY DEF Before
<1>3. \A l : DiskAt(l)' = DiskAt(l)
  BY DEF DiskAt, Served, Function
<1>4. /\ unit \in DOMAIN pci_devices /\ This \in Controllers /\ port \in Ports /\ Served(This)
      /\ AtPort
  <2>1. AtSata /\ AtPort
    BY DEF AtSata, AtPort
  <2>2. unit \in DOMAIN pci_devices
    BY DEF UnitSound, Walking
  <2>3. This \in DOMAIN machine.at
    BY <2>2 DEF This, Walking
  <2>. QED BY <2>1, <2>2, <2>3 DEF UnitSound, Controllers, Served, Unit
<1>5. Here \in DOMAIN link /\ Here[1] = This /\ Here[2] = port
  BY <1>4, LinkPlaces DEF Here, Walking, Ports, Unit
<1>6. Here \in late \/ DiskAt(Here)
  BY <1>4, <1>5 DEF UnitSound, DiskAt, Unit
<1>. DEFINE q == PortsBehind
            d == devices
            n == Len(d)
            h == Here
<1>7. /\ d \in Seq(DOMAIN link) /\ n \in Nat /\ DOMAIN d = 1..n
      /\ \A l \in DOMAIN link : DiskAt(l) /\ Passed(l, unit, q) => l \in late \union ToSet(d)
      /\ \A i \in DOMAIN d : d[i] \in DOMAIN link
      /\ \A i \in DOMAIN d : Passed(d[i], unit, q) /\ (d[i] \in late \/ DiskAt(d[i]))
      /\ \A i, j \in DOMAIN d : i < j => Before(d[i], d[j])
  BY DEF Pushed
<1>8. \A i \in DOMAIN d : Before(d[i], h)
  <2>. SUFFICES ASSUME NEW i \in DOMAIN d PROVE Before(d[i], h)
    OBVIOUS
  <2>1. q = port
    BY <1>4 DEF PortsBehind
  <2>2. PICK k \in DOMAIN pci_devices :
          pci_devices[k] = d[i][1] /\ (k < unit \/ (k = unit /\ d[i][2] < port))
    BY <1>7, <2>1 DEF Passed
  <2>3. (CHOOSE m \in DOMAIN pci_devices : pci_devices[m] = d[i][1]) = k
    BY <2>2, OnePlace
  <2>4. (CHOOSE m \in DOMAIN pci_devices : pci_devices[m] = h[1]) = unit
    BY <1>4, <1>5, OnePlace DEF This
  <2>5. k = unit => d[i][1] = h[1]
    BY <2>2, <1>5 DEF This
  <2>. QED BY <2>2, <2>3, <2>4, <2>5, <1>5 DEF Before
<1>9. \A l \in DOMAIN link : Passed(l, unit', q') <=> Passed(l, unit, q) \/ l = h
  OBVIOUS
<1>. HIDE DEF q, h
<1>10. /\ d' \in Seq(DOMAIN link) /\ DOMAIN d' = 1..n + 1
       /\ d'[n + 1] = h /\ \A i \in 1..n : d'[i] = d[i]
  <2>1. h \in DOMAIN link /\ d' = Append(d, h)
    BY <1>5 DEF h
  <2>. QED BY <2>1, <1>7
<1>. HIDE DEF d
<1>11. \A i \in DOMAIN d' : (i \in DOMAIN d /\ d'[i] = d[i]) \/ (i = n + 1 /\ d'[i] = h)
  BY <1>10, <1>7
<1>12. ToSet(d) \union {h} \subseteq ToSet(d')
  <2>1. n + 1 \in DOMAIN d' /\ DOMAIN d \subseteq DOMAIN d'
    BY <1>10, <1>7
  <2>. QED BY <2>1, <1>10, <1>7 DEF ToSet
<1>13. \A l \in DOMAIN link' : DiskAt(l) /\ Passed(l, unit', q') => l \in late' \union ToSet(d')
  BY <1>9, <1>12, <1>7
<1>14. \A i \in DOMAIN d' : Passed(d'[i], unit', q') /\ (d'[i] \in late' \/ DiskAt(d'[i]))
  BY <1>11, <1>9, <1>7, <1>6, <1>5 DEF h
<1>15. \A i, j \in DOMAIN d' : i < j => Before(d'[i], d'[j])
  <2>. SUFFICES ASSUME NEW i \in DOMAIN d', NEW j \in DOMAIN d', i < j PROVE Before(d'[i], d'[j])
    OBVIOUS
  <2>1. i \in DOMAIN d /\ d'[i] = d[i]
    BY <1>10, <1>7
  <2>. QED BY <2>1, <1>11, <1>7, <1>8
<1>. QED BY <1>1, <1>2, <1>3, <1>10, <1>13, <1>14, <1>15 DEF Pushed, q, d

\* The search for the next port passes those below it and no other.
LEMMA ToPortPasses ==
  ASSUME Walking, Once, LinkSound, UNCHANGED <<machine, pci_devices>>,
         unit \in DOMAIN pci_devices, Unit.kind = "sata", NEW p \in Nat, ToPort(p)
  PROVE  /\ \A l \in DOMAIN link : Passed(l, unit', PortsBehind') <=> Passed(l, unit, p)
         /\ \/ at' = "unit" /\ unit' = unit + 1
            \/ at' = "port" /\ unit' = unit /\ port' \in Ports
<1>1. unit \in Nat /\ This \in Controllers /\ Ports \in SUBSET Nat
  <2>1. This \in DOMAIN machine.at /\ unit \in Nat
    BY DEF This, Walking
  <2>2. This \in Controllers
    BY <2>1 DEF Controllers, Unit
  <2>. QED BY <2>1, <2>2, LinkPlaces DEF Walking, Ports, Unit
<1>2. \A l \in DOMAIN link : l[2] \in Nat /\ (l[1] = This => l[2] \in Ports)
  BY LinkPlaces DEF Walking, Ports, Unit
<1>d. \A k \in DOMAIN pci_devices : k \in Nat
  BY DEF Walking
<1>3. CASE PortsFrom(p) = {}
  <2>1. at' = "unit" /\ unit' = unit + 1 /\ PortsBehind' = 0
    BY <1>3 DEF ToPort, NextUnit, PortsBehind, AtPort
  <2>2. \A r \in Ports : r < p
    BY <1>3, <1>1 DEF PortsFrom
  <2>3. \A l \in DOMAIN link : Passed(l, unit + 1, 0) <=> Passed(l, unit, p)
    <3>. SUFFICES ASSUME NEW l \in DOMAIN link
                  PROVE  Passed(l, unit + 1, 0) <=> Passed(l, unit, p)
      OBVIOUS
    <3>1. l[2] \in Nat /\ (pci_devices[unit] = l[1] => l[2] < p)
      BY <1>2, <2>2 DEF This
    <3>. QED BY <3>1, <1>1, <1>d DEF Passed
  <2>. QED BY <2>1, <2>3
<1>4. CASE PortsFrom(p) # {}
  <2>1. PortsFrom(p) \in SUBSET Nat
    BY <1>1 DEF PortsFrom
  <2>2. \E q \in PortsFrom(p) : \A r \in PortsFrom(p) : q <= r
    BY <2>1, <1>4, Least
  <2>3. at' = "port" /\ unit' = unit
        /\ port' = (CHOOSE q \in PortsFrom(p) : \A r \in PortsFrom(p) : q <= r)
    BY <1>4 DEF ToPort
  <2>4. port' \in PortsFrom(p) /\ \A r \in PortsFrom(p) : port' <= r
    BY <2>2, <2>3
  <2>. DEFINE q == port'
  <2>5. q \in Ports /\ q \in Nat /\ q >= p /\ \A r \in Ports : r >= p => q <= r
    BY <2>4, <1>1 DEF PortsFrom
  <2>6. PortsBehind' = q
    BY <2>3 DEF PortsBehind, AtPort
  <2>. HIDE DEF q
  <2>7. \A l \in DOMAIN link : Passed(l, unit, q) <=> Passed(l, unit, p)
    <3>. SUFFICES ASSUME NEW l \in DOMAIN link
                  PROVE  Passed(l, unit, q) <=> Passed(l, unit, p)
      OBVIOUS
    <3>1. l[2] \in Nat /\ (pci_devices[unit] = l[1] => (l[2] < p <=> l[2] < q))
      BY <1>1, <1>2, <2>5 DEF This
    <3>. QED BY <3>1, <1>1, <1>d DEF Passed
  <2>. QED BY <2>3, <2>5, <2>6, <2>7 DEF q
<1>. QED BY <1>3, <1>4

\* A device that is left has no disk that the code would have served.
LEMMA NextUnitPasses ==
  ASSUME Walking, Once, LinkSound, UNCHANGED <<machine, pci_devices>>,
         unit \in DOMAIN pci_devices, NextUnit, ~AtPort, ~Served(This)
  PROVE  /\ \A l \in DOMAIN link : Passed(l, unit, PortsBehind) => Passed(l, unit', PortsBehind')
         /\ \A l \in DOMAIN link :
              DiskAt(l) /\ Passed(l, unit', PortsBehind') => Passed(l, unit, PortsBehind)
<1>1. PortsBehind = 0 /\ PortsBehind' = 0 /\ unit' = unit + 1
  BY DEF PortsBehind, AtPort, NextUnit
<1>2. \A k \in DOMAIN pci_devices : k \in Nat
  BY DEF Walking
<1>3. \A l \in DOMAIN link : l[2] \in Nat
  BY LinkPlaces DEF Walking
<1>4. \A l \in DOMAIN link : Passed(l, unit, 0) => Passed(l, unit + 1, 0)
  BY <1>2, <1>3 DEF Passed
<1>5. \A l \in DOMAIN link : DiskAt(l) /\ Passed(l, unit + 1, 0) => Passed(l, unit, 0)
  <2>. SUFFICES ASSUME NEW l \in DOMAIN link, DiskAt(l), Passed(l, unit + 1, 0)
                PROVE  Passed(l, unit, 0)
    OBVIOUS
  <2>1. pci_devices[unit] # l[1]
    BY DEF DiskAt, This
  <2>. QED BY <2>1, <1>2, <1>3 DEF Passed
<1>. QED BY <1>1, <1>4, <1>5

Ready == /\ Walking /\ Once /\ LinkSound /\ SettingUp
         /\ UnitSound /\ Pushed

\* Where nothing is passed nothing changes.
LEMMA NothingPassed ==
  ASSUME Ready, UNCHANGED <<machine, pci_devices, unit, devices, late>>,
         DOMAIN link' = DOMAIN link, PortsBehind' = PortsBehind
  PROVE  Pushed'
<1>1. \A l \in DOMAIN link : Passed(l, unit', PortsBehind') <=> Passed(l, unit, PortsBehind)
  OBVIOUS
<1>. QED BY <1>1, NothingPushed DEF Ready

\* A device that is left brings the next one.
LEMMA DeviceLeft ==
  ASSUME Ready, UNCHANGED <<machine, pci_devices, devices, late>>, DOMAIN link' = DOMAIN link,
         unit \in DOMAIN pci_devices, NextUnit, ~AtPort, ~Served(This)
  PROVE  UnitSound' /\ Pushed'
<1>1. Pushed'
  BY NextUnitPasses, NothingPushed DEF Ready
<1>2. at' = "unit" /\ unit' = unit + 1 /\ unit \in Nat
  BY DEF NextUnit, Ready, UnitSound
<1>3. UnitSound'
  BY <1>2 DEF UnitSound, AtSata, AtPort
<1>. QED BY <1>1, <1>3

\* While a device is being set up it is the same.
LEMMA SameDevice ==
  UNCHANGED <<machine, pci_devices, unit>> => This' = This /\ Unit' = Unit /\ Ports' = Ports
  BY DEF This, Unit, Ports, Function

\* The unit of a step that has one is in the list.
LEMMA UnitListed ==
  ASSUME Ready, unit <= Len(pci_devices)
  PROVE  /\ unit \in DOMAIN pci_devices /\ unit \in Nat /\ This \in DOMAIN machine.at
         /\ (Unit.kind = "sata" => This \in Controllers /\ Ports \in SUBSET Nat)
<1>1. unit \in DOMAIN pci_devices /\ unit \in Nat
  BY DEF Ready, UnitSound, Walking
<1>2. This \in DOMAIN machine.at
  BY <1>1 DEF This, Ready, Walking
<1>3. Unit.kind = "sata" => This \in Controllers
  BY <1>2 DEF Controllers, Unit
<1>. QED BY <1>1, <1>2, <1>3, LinkPlaces DEF Ready, Walking, Ports, Unit

\* Up to the vector no port is passed.
LEMMA BeforePorts ==
  ASSUME Ready, DOMAIN link' = DOMAIN link,
         SkipUnit \/ AllUnits \/ StartSata \/ StartXhci \/ (Went /\ ~AtPort), SettingUp'
  PROVE  UnitSound' /\ Pushed'
<1>0. /\ at \in {"unit", "handoff", "reset", "halt", "restart"} /\ ~AtPort /\ PortsBehind = 0
      /\ UNCHANGED <<machine, pci_devices, devices, late>>
  BY DEF SkipUnit, AllUnits, StartSata, StartXhci, Went, AtPort, PortsBehind, listing, found
<1>1. ASSUME UNCHANGED unit, at' \in {"done", "handoff", "reset", "halt", "restart", "vector"}
      PROVE  Pushed'
  <2>1. PortsBehind' = 0
    BY <1>1 DEF PortsBehind, AtPort
  <2>. QED BY <1>0, <1>1, <2>1, NothingPassed
<1>2. CASE SkipUnit
  <2>1. unit \in DOMAIN pci_devices /\ NextUnit
    BY <1>2, UnitListed DEF SkipUnit
  <2>2. ~Served(This)
    BY <1>2 DEF SkipUnit, Served, Unit
  <2>. QED BY <1>0, <2>1, <2>2, DeviceLeft
<1>3. CASE AllUnits
  <2>1. UNCHANGED unit /\ at' = "done" /\ unit > Len(pci_devices)
    BY <1>3 DEF AllUnits
  <2>2. UnitSound'
    BY <2>1, <1>0 DEF UnitSound, AtSata, AtPort, Ready
  <2>. QED BY <1>1, <2>1, <2>2
<1>4. CASE StartSata
  <2>1. /\ unit <= Len(pci_devices) /\ Unit.kind = "sata" /\ Unit.bar.type # "none"
        /\ \/ Unit.bar.type = "io" /\ NextUnit
           \/ Unit.bar.type # "io" /\ at' \in {"reset", "handoff"} /\ UNCHANGED unit
    BY <1>4 DEF StartSata, Ask
  <2>2. unit \in DOMAIN pci_devices
    BY <2>1, UnitListed
  <2>3. CASE Unit.bar.type = "io" /\ NextUnit
    <3>1. ~Served(This)
      BY <2>3 DEF Served, Unit
    <3>. QED BY <1>0, <2>2, <2>3, <3>1, DeviceLeft
  <2>4. CASE Unit.bar.type # "io" /\ at' \in {"reset", "handoff"} /\ UNCHANGED unit
    <3>1. Unit' = Unit
      BY <1>0, <2>4, SameDevice
    <3>2. UnitSound'
      BY <2>1, <2>4, <1>0, <3>1 DEF UnitSound, AtSata, AtPort, Ready
    <3>. QED BY <1>1, <2>4, <3>2
  <2>. QED BY <2>1, <2>3, <2>4
<1>5. CASE StartXhci
  <2>1. /\ unit <= Len(pci_devices) /\ Unit.kind = "xhci"
        /\ NextUnit \/ (at' = "halt" /\ UNCHANGED unit)
    BY <1>5 DEF StartXhci, Ask, SettingUp, AtSata, AtPort
  <2>2. unit \in DOMAIN pci_devices
    BY <2>1, UnitListed
  <2>3. CASE NextUnit
    <3>1. ~Served(This)
      BY <2>1 DEF Served, Unit
    <3>. QED BY <1>0, <2>2, <2>3, <3>1, DeviceLeft
  <2>4. CASE at' = "halt" /\ UNCHANGED unit
    <3>1. Unit' = Unit
      BY <1>0, <2>4, SameDevice
    <3>2. UnitSound'
      BY <2>1, <2>4, <1>0, <3>1 DEF UnitSound, AtSata, AtPort, Ready
    <3>. QED BY <1>1, <2>4, <3>2
  <2>. QED BY <2>1, <2>3, <2>4
<1>6. CASE Went /\ ~AtPort
  <2>1. unit <= Len(pci_devices) /\ unit \in DOMAIN pci_devices
    <3>1. at \notin {"unit", "done"}
      BY <1>6 DEF Went
    <3>2. unit <= Len(pci_devices)
      BY <3>1 DEF Ready, UnitSound
    <3>. QED BY <3>2, UnitListed
  <2>2. \/ at \in {"handoff", "reset"} /\ at' \in {"reset", "vector"} /\ UNCHANGED unit
        \/ at = "halt" /\ at' = "restart" /\ UNCHANGED unit
        \/ at = "restart" /\ NextUnit
    BY <1>6 DEF Went, Ask, AtPort
  <2>3. CASE at = "restart" /\ NextUnit
    <3>1. ~Served(This)
      BY <2>3 DEF Served, Unit, Ready, UnitSound
    <3>. QED BY <1>0, <2>1, <2>3, <3>1, DeviceLeft
  <2>4. CASE at \in {"handoff", "reset"} /\ at' \in {"reset", "vector"} /\ UNCHANGED unit
    <3>1. Unit' = Unit
      BY <1>0, <2>4, SameDevice
    <3>2. UnitSound'
      BY <2>1, <2>4, <1>0, <3>1 DEF UnitSound, AtSata, AtPort, Ready
    <3>. QED BY <1>1, <2>4, <3>2
  <2>5. CASE at = "halt" /\ at' = "restart" /\ UNCHANGED unit
    <3>1. Unit' = Unit
      BY <1>0, <2>5, SameDevice
    <3>2. UnitSound'
      BY <2>1, <2>5, <1>0, <3>1 DEF UnitSound, AtSata, AtPort, Ready
    <3>. QED BY <1>1, <2>5, <3>2
  <2>. QED BY <2>2, <2>3, <2>4, <2>5
<1>. QED BY <1>2, <1>3, <1>4, <1>5, <1>6

\* The search for a port leads to one or to the next device.
LEMMA ToPortSound ==
  ASSUME Ready, UNCHANGED <<machine, pci_devices>>, AtSata, NEW p \in Nat, ToPort(p),
         Unit.msi
  PROVE  UnitSound'
<1>1. /\ unit \in DOMAIN pci_devices /\ unit \in Nat \ {0} /\ Unit.kind = "sata"
      /\ Unit.bar.type \notin {"none", "io"} /\ unit <= Len(pci_devices)
  <2>1. at \notin {"unit", "done"}
    BY DEF AtSata, AtPort
  <2>2. unit \in Nat \ {0} /\ unit <= Len(pci_devices) /\ Unit.kind = "sata" /\ Unit.bar.type \notin {"none", "io"}
    BY <2>1 DEF Ready, UnitSound
  <2>. QED BY <2>2, UnitListed
<1>2. \/ at' = "unit" /\ unit' = unit + 1
      \/ at' = "port" /\ unit' = unit /\ port' \in Ports
  BY <1>1, ToPortPasses DEF Ready
<1>3. CASE at' = "unit" /\ unit' = unit + 1
  BY <1>1, <1>3 DEF UnitSound, AtSata, AtPort
<1>4. CASE at' = "port" /\ unit' = unit /\ port' \in Ports
  <2>1. Unit' = Unit /\ Ports' = Ports
    BY <1>4, SameDevice
  <2>. QED BY <1>1, <1>4, <2>1 DEF UnitSound, AtSata, AtPort
<1>. QED BY <1>2, <1>3, <1>4

\* With the vector the ports begin.
LEMMA VectorStep ==
  ASSUME Ready, DOMAIN link' = DOMAIN link, TakeMsi, SettingUp'
  PROVE  UnitSound' /\ Pushed'
<1>0. /\ at = "vector" /\ ~AtPort /\ AtSata /\ PortsBehind = 0
      /\ UNCHANGED <<machine, pci_devices, devices, late>>
  BY DEF TakeMsi, AtPort, AtSata, PortsBehind, listing, found
<1>1. unit \in DOMAIN pci_devices /\ Unit.kind = "sata"
  BY <1>0, UnitListed DEF Ready, UnitSound
<1>2. at' # "panic"
  BY DEF SettingUp, AtSata, AtPort
<1>3. (Unit.msi /\ ToPort(0)) \/ (~Unit.msi /\ NextUnit)
  BY <1>2 DEF TakeMsi
<1>4. CASE Unit.msi /\ ToPort(0)
  <2>1. \A l \in DOMAIN link : Passed(l, unit', PortsBehind') <=> Passed(l, unit, PortsBehind)
    BY <1>0, <1>1, <1>4, ToPortPasses DEF Ready
  <2>2. Pushed'
    BY <1>0, <2>1, NothingPushed DEF Ready
  <2>. QED BY <1>0, <1>4, <2>2, ToPortSound
<1>5. CASE ~Unit.msi /\ NextUnit
  <2>1. ~Served(This)
    BY <1>5 DEF Served, Unit
  <2>. QED BY <1>0, <1>1, <1>5, <2>1, DeviceLeft
<1>. QED BY <1>3, <1>4, <1>5

\* A port is set up and looked at; then it is behind or its drive is a disk or
\* was late.
LEMMA PortStep ==
  ASSUME Ready, LinkSound', DOMAIN link' = DOMAIN link, SettingUp',
         StopPort \/ (Went /\ AtPort) \/ PortMemory \/ Probe \/ Identified
  PROVE  UnitSound' /\ Pushed'
<1>0. /\ AtPort /\ AtSata /\ PortsBehind = port
      /\ UNCHANGED <<machine, pci_devices>>
  BY DEF StopPort, Went, PortMemory, Probe, Identified, AtPort, AtSata, PortsBehind, listing
<1>1. /\ unit \in DOMAIN pci_devices /\ unit \in Nat \ {0} /\ unit <= Len(pci_devices)
      /\ Unit.kind = "sata" /\ Unit.bar.type \notin {"none", "io"} /\ Unit.msi
      /\ port \in Ports /\ port \in Nat /\ This \in Controllers
  <2>1. at \notin {"unit", "done"}
    BY <1>0 DEF AtPort
  <2>2. unit \in Nat \ {0} /\ unit <= Len(pci_devices) /\ Unit.kind = "sata" /\ Unit.bar.type \notin {"none", "io"}
        /\ Unit.msi /\ port \in Ports
    BY <2>1, <1>0 DEF Ready, UnitSound
  <2>. QED BY <2>2, UnitListed
<1>2. Here \in DOMAIN link /\ Here[1] = This /\ Here[2] = port
  BY <1>1, LinkPlaces DEF Here, Ready, Walking, Ports, Unit
<1>3. \A l \in DOMAIN link : Passed(l, unit, port + 1) <=> Passed(l, unit, port) \/ l = Here
  <2>. SUFFICES ASSUME NEW l \in DOMAIN link
                PROVE  Passed(l, unit, port + 1) <=> Passed(l, unit, port) \/ l = Here
    OBVIOUS
  <2>1. l[2] \in Nat /\ l = <<l[1], l[2]>> /\ \A k \in DOMAIN pci_devices : k \in Nat
    BY LinkPlaces DEF Ready, Walking
  <2>2. l = Here <=> (pci_devices[unit] = l[1] /\ l[2] = port)
    BY <2>1, <1>2 DEF Here, This
  <2>3. l[2] < port + 1 <=> (l[2] < port \/ l[2] = port)
    BY <2>1, <1>1
  <2>4. \E k \in DOMAIN pci_devices : pci_devices[k] = l[1] /\ k = unit /\ l[2] = port
        <=> (pci_devices[unit] = l[1] /\ l[2] = port)
    BY <1>1
  <2>. QED BY <2>1, <2>2, <2>3, <1>1 DEF Passed
<1>4. CASE StopPort \/ Went \/ PortMemory
  <2>1. at' \in {"stop", "memory", "start", "probe"} /\ UNCHANGED <<unit, port, devices, late>>
    BY <1>4, <1>0 DEF StopPort, Went, PortMemory, Ask, SettingUp, AtSata, AtPort, found
  <2>2. PortsBehind' = PortsBehind /\ Unit' = Unit /\ Ports' = Ports
    BY <2>1, <1>0, SameDevice DEF PortsBehind, AtPort
  <2>3. UnitSound'
    BY <2>1, <2>2, <1>0, <1>1 DEF UnitSound, AtSata, AtPort
  <2>. QED BY <1>0, <2>1, <2>2, <2>3, NothingPassed
<1>5. CASE Probe
  <2>1. /\ late \subseteq late' /\ (link[Here] # "signed" => Here \in late')
        /\ UNCHANGED devices /\ at = "probe"
    BY <1>5 DEF Probe
  <2>2. \/ link[Here] \in {"down", "asleep"} /\ ToPort(port + 1)
        \/ link[Here] \in {"up", "signed"}
           /\ \E s \in Signatures : \/ IsDisk(s) /\ at' = "identify" /\ UNCHANGED <<unit, port>>
                                    \/ ~IsDisk(s) /\ ToPort(port + 1)
    BY <1>5 DEF Probe, Ask
  <2>3. \A s \in Signatures :
          link[Here] = "signed" =>
            (IsDisk(s) <=> Unit.drives[port] \in {"disk", "mute"})
    <3>1. link[Here] = "signed" => Unit.drives[port] \in {"disk", "mute", "atapi"}
      BY <1>2 DEF Ready, LinkSound, Unit
    <3>. QED BY <3>1 DEF Signatures, IsDisk
  <2>4. CASE ToPort(port + 1) /\ (Here \in late' \/ Unit.drives[port] \notin {"disk", "mute"})
    <3>1. port + 1 \in Nat
      BY <1>1
    <3>2. \A l \in DOMAIN link : Passed(l, unit', PortsBehind') <=> Passed(l, unit, PortsBehind) \/ l = Here
      BY <1>0, <1>1, <1>3, <2>4, <3>1, ToPortPasses DEF Ready
    <3>3. \A l \in DOMAIN link :
           DiskAt(l) /\ Passed(l, unit', PortsBehind') => Passed(l, unit, PortsBehind) \/ l \in late'
      BY <3>2, <2>4, <1>2 DEF DiskAt, Unit
    <3>4. Pushed'
      BY <1>0, <2>1, <3>2, <3>3, NothingPushed DEF Ready
    <3>. QED BY <1>0, <1>1, <2>4, <3>1, <3>4, ToPortSound
  <2>5. CASE /\ at' = "identify" /\ UNCHANGED <<unit, port>>
             /\ Here \in late' \/ Unit.drives[port] \in {"disk", "mute"}
    <3>1. PortsBehind' = PortsBehind /\ Unit' = Unit /\ Ports' = Ports /\ Here' = Here
      BY <2>5, <1>0, SameDevice DEF PortsBehind, AtPort, Here
    <3>2. UnitSound'
      BY <2>5, <3>1, <1>0, <1>1 DEF UnitSound, AtSata, AtPort
    <3>3. Pushed'
      BY <1>0, <2>1, <2>5, <3>1, NothingPushed DEF Ready
    <3>. QED BY <3>2, <3>3
  <2>. QED BY <2>1, <2>2, <2>3, <2>4, <2>5
<1>6. CASE Identified
  <2>1. at = "identify" /\ devices' = Append(devices, Here) /\ ToPort(port + 1) /\ UNCHANGED late
    BY <1>6 DEF Identified
  <2>2. port + 1 \in Nat
    BY <1>1
  <2>3. \A l \in DOMAIN link : Passed(l, unit', PortsBehind') <=> Passed(l, unit, PortsBehind) \/ l = Here
    BY <1>0, <1>1, <1>3, <2>1, <2>2, ToPortPasses DEF Ready
  <2>4. Pushed'
    BY <1>0, <2>1, <2>3, OnePushed DEF Ready
  <2>. QED BY <1>0, <1>1, <2>1, <2>2, <2>4, ToPortSound
<1>. QED BY <1>0, <1>4, <1>5, <1>6

\* Every step keeps the invariant about the drives.
LEMMA StepDriveInv == ListInv /\ DriveInv /\ [Next]_vars => DriveInv'
<1> SUFFICES ASSUME ListInv, DriveInv, [Next]_vars PROVE DriveInv'
  OBVIOUS
<1>1. Walking /\ LinkSound /\ ListInv'
  BY StepListInv DEF ListInv, DriveInv
<1>2. machine' = machine
  <2>1. CASE ListKept \/ StartPci \/ CheckNext \/ UNCHANGED vars
    BY <2>1 DEF ListKept, StartPci, CheckNext, vars, pciVars
  <2>. QED BY <2>1, OthersKeepList DEF Next, PciStep
<1>3. LinkSound' /\ DOMAIN link' = DOMAIN link
  BY <1>1, <1>2, LinkStep
<1>4. Configured' = Configured
  BY <1>2 DEF Configured, Present, Function
<1>5. CASE StartPci \/ CheckNext \/ Overrun
  <2>1. at \in {"off", "enumerate"} /\ at' \in {"enumerate", "fault"} /\ UNCHANGED devices
    BY <1>5 DEF StartPci, CheckNext, Overrun, found
  <2>2. ~SettingUp'
    BY <2>1 DEF SettingUp, AtSata, AtPort
  <2>. QED BY <1>3, <2>1, <2>2 DEF DriveInv
<1>6. CASE Enumerated
  <2>1. /\ at = "enumerate" /\ at' = "unit" /\ unit' = 1
        /\ UNCHANGED <<machine, pci_devices, devices, late>> /\ devices = <<>>
    BY <1>6 DEF Enumerated, listing, found, DriveInv
  <2>2. UnitSound'
    BY <2>1 DEF UnitSound, AtSata, AtPort
  <2>3. Pushed'
    <3>1. PortsBehind' = 0 /\ devices' = <<>> /\ DOMAIN devices' = {}
      BY <2>1 DEF PortsBehind, AtPort
    <3>2. \A l \in DOMAIN link : ~Passed(l, 1, 0)
      <4>1. \A k \in DOMAIN pci_devices : k \in Nat \ {0}
        BY <1>1 DEF Walking
      <4>2. \A l \in DOMAIN link : l[2] \in Nat
        BY <1>1, LinkPlaces DEF Walking
      <4>. QED BY <4>1, <4>2 DEF Passed
    <3>3. \A l, u, p : Passed(l, u, p)' = Passed(l, u, p)
      BY <2>1 DEF Passed
    <3>4. \A l \in DOMAIN link' : ~Passed(l, unit', PortsBehind')
      BY <1>3, <2>1, <3>1, <3>2
    <3>5. devices' \in Seq(DOMAIN link')
      BY <3>1
    <3>. QED BY <3>1, <3>3, <3>4, <3>5 DEF Pushed
  <2>. QED BY <1>3, <2>1, <2>2, <2>3 DEF DriveInv
<1>7. ASSUME at' \notin {"off", "enumerate"} \/ (UNCHANGED <<at, devices>>),
             Ready /\ SettingUp' => UnitSound' /\ Pushed',
             SettingUp' => SettingUp
      PROVE  DriveInv'
  <2>1. at' \in {"off", "enumerate"} => devices' = <<>>
    BY <1>7 DEF DriveInv
  <2>2. ASSUME Configured', SettingUp' PROVE UnitSound' /\ Pushed'
    <3>1. Configured /\ SettingUp /\ at # "off"
      BY <2>2, <1>4, <1>7 DEF SettingUp, AtSata, AtPort
    <3>2. Ready
      BY <3>1, <1>1 DEF Ready, ListInv, DriveInv
    <3>. QED BY <3>2, <2>2, <1>7
  <2>. QED BY <1>3, <2>1, <2>2 DEF DriveInv
<1>8. CASE CoreSide \/ StillWaiting \/ Hardware \/ UNCHANGED vars
  <2>1. UNCHANGED <<machine, pci_devices, at, unit, port, devices, late>>
    <3>1. CASE CoreSide \/ StillWaiting \/ UNCHANGED vars
      BY <3>1 DEF CoreSide, StillWaiting, vars, pciVars, listing, found
    <3>2. CASE Answer
      BY <3>2 DEF Answer, listing, found
    <3>3. CASE IdentifyFails
      BY <3>3 DEF IdentifyFails, listing
    <3>4. CASE \E l \in DOMAIN link : LinkUp(l)
      BY <3>4 DEF LinkUp, listing, found
    <3>. QED BY <1>8, <3>1, <3>2, <3>3, <3>4 DEF Hardware
  <2>2. ASSUME Ready PROVE UnitSound' /\ Pushed'
    <3>1. PortsBehind' = PortsBehind /\ Unit' = Unit /\ Ports' = Ports /\ Here' = Here
      BY <2>1, SameDevice DEF PortsBehind, AtPort, Here
    <3>2. UnitSound'
      BY <2>1, <2>2, <3>1 DEF UnitSound, AtSata, AtPort, Ready
    <3>. QED BY <1>3, <2>1, <2>2, <3>1, <3>2, NothingPassed
  <2>3. SettingUp' => SettingUp
    BY <2>1 DEF SettingUp, AtSata, AtPort
  <2>. QED BY <1>7, <2>1, <2>2, <2>3
<1>9. CASE SkipUnit \/ AllUnits \/ StartSata \/ StartXhci \/ (Went /\ ~AtPort)
  <2>1. at' \notin {"off", "enumerate"} /\ SettingUp
    BY <1>9 DEF SkipUnit, AllUnits, StartSata, StartXhci, Went, NextUnit, Ask, SettingUp, AtSata, AtPort
  <2>. QED BY <1>3, <1>7, <1>9, <2>1, BeforePorts
<1>10. CASE TakeMsi
  <2>1. at' \notin {"off", "enumerate"} /\ SettingUp
    BY <1>10 DEF TakeMsi, NextUnit, ToPort, SettingUp, AtSata, AtPort
  <2>. QED BY <1>3, <1>7, <1>10, <2>1, VectorStep
<1>11. CASE StopPort \/ (Went /\ AtPort) \/ PortMemory \/ Probe \/ Identified
  <2>1. at' \notin {"off", "enumerate"} /\ SettingUp
    BY <1>11 DEF StopPort, Went, PortMemory, Probe, Identified, Ask, NextUnit, ToPort, SettingUp, AtSata, AtPort
  <2>. QED BY <1>3, <1>7, <1>11, <2>1, PortStep
<1> QED BY <1>5, <1>6, <1>8, <1>9, <1>10, <1>11 DEF Next, PciStep

\* When all devices are set up the block devices are the drives.
LEMMA DriveInvExact == ListInv /\ DriveInv => DrivesExact
<1> SUFFICES ASSUME ListInv, DriveInv, Configured, at = "done" PROVE DrivesExact
  BY DEF DrivesExact
<1>1. /\ Walking /\ Once /\ Right /\ ListExact /\ UnitSound /\ Pushed /\ LinkSound
  BY ListInvExact DEF ListInv, DriveInv, SettingUp
<1>. DEFINE disks == {l \in DOMAIN link : /\ l[1] \in Findable /\ Served(l[1])
                                          /\ Function(l[1]).drives[l[2]] \in {"disk", "mute"}}
<1>2. disks \ late \subseteq ToSet(devices)
  <2>. SUFFICES ASSUME NEW l \in disks, l \notin late PROVE l \in ToSet(devices)
    OBVIOUS
  <2>1. PICK k \in DOMAIN pci_devices : pci_devices[k] = l[1]
    BY <1>1 DEF ListExact, ToSet
  <2>2. k < unit
    BY <1>1 DEF UnitSound, Walking
  <2>3. Passed(l, unit, PortsBehind) /\ DiskAt(l)
    BY <2>1, <2>2 DEF Passed, DiskAt
  <2>. QED BY <1>1, <2>3 DEF Pushed
<1>3. ToSet(devices) \subseteq disks \union late
  <2>. SUFFICES ASSUME NEW i \in DOMAIN devices, devices[i] \notin late PROVE devices[i] \in disks
    BY DEF ToSet
  <2>1. devices[i] \in DOMAIN link /\ Passed(devices[i], unit, PortsBehind) /\ DiskAt(devices[i])
    BY <1>1 DEF Pushed
  <2>2. devices[i][1] \in Findable
    BY <1>1, <2>1 DEF Passed, Right
  <2>. QED BY <2>1, <2>2 DEF DiskAt
<1>4. \A i, j \in DOMAIN devices : i < j => Before(devices[i], devices[j])
  BY <1>1 DEF Pushed
<1> QED BY <1>2, <1>3, <1>4 DEF DrivesExact

\* Whenever links come up and drives answer, on every machine whose buses are
\* numbered the block devices are the disks that were ready and at most drives
\* that were late besides, each once and in the order of controllers and ports.
THEOREM DrivesFound == Spec => []DrivesExact
<1>1. Init => ListInv /\ DriveInv
  <2>1. Init => ListInv
    BY DEF Init, PciInit, ListInv, Walking
  <2>2. Init => LinkSound
    BY DEF Init, PciInit, LinkSound
  <2>3. Init => DriveInv
    BY <2>2 DEF Init, PciInit, DriveInv, SettingUp, AtSata, AtPort
  <2>. QED BY <2>1, <2>3
<1>2. ListInv /\ DriveInv /\ [Next]_vars => (ListInv /\ DriveInv)'
  BY StepListInv, StepDriveInv
<1>3. ListInv /\ DriveInv => DrivesExact
  BY DriveInvExact
<1> QED BY <1>1, <1>2, <1>3, PTL DEF Spec

=============================================================================
