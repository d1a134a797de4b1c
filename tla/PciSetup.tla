-------------------------------- MODULE PciSetup --------------------------------
(***************************************************************************)
(* From the table of PCI groups to block devices: the enumeration and the  *)
(* BARs of src/src/high/PCI/PCI.cpp, Sata::init and Port::init of sata.cpp *)
(* and the constructor of xhci.cpp, on the boot processor after CoreStart. *)
(*                                                                         *)
(* The hardware moves by itself: a controller or a drive answers what it   *)
(* was asked, firmware gives a controller away, and after a controller's   *)
(* reset the links of its ports come up and their drives send a first      *)
(* message, each whenever it likes.  The code waits for an answer without  *)
(* a limit.                                                                *)
(***************************************************************************)
EXTENDS CoreStart, SequencesExt

CONSTANTS
  Machines,        \* the functions a machine may have, as [groups, at, frames]
  DeviceCount,     \* devices of a bus, 32 in the code
  FunctionCount,   \* functions of a device, 8 in the code
  FirstPagePorts,  \* ports whose registers lie in the first page, 30 in the code
  PortPages,       \* page_count_per_port
  WideExcess,      \* pages by which the size of a 64-bit BAR is taken too large
  ListLimit,       \* a bound on the list, for bridges that lead back
  MaxFailures      \* a bound on the identify commands that fail

\* A function is named by its group, bus, device and function.
Address(m, f) ==
  /\ f \in [1..4 -> Nat]
  /\ f[1] \in 1..m.groups /\ f[3] < DeviceCount /\ f[4] < FunctionCount

ASSUME PciAssumption ==
  /\ PortPages \in Nat \ {0} /\ WideExcess \in Nat
  /\ DeviceCount \in Nat \ {0} /\ FunctionCount \in Nat \ {0}
  /\ \A m \in Machines : m.groups \in Nat /\ \A f \in DOMAIN m.at :
       /\ Address(m, f) /\ m.at[f].multi \in BOOLEAN
       /\ m.at[f].kind = "bridge" => m.at[f].secondary \in Nat
       /\ (m.at[f].kind \in {"sata", "xhci"} /\ m.at[f].bar.type # "none") =>
            m.at[f].bar.pages \in Nat \ {0}
       /\ m.at[f].kind = "sata" => \A p \in DOMAIN m.at[f].drives :
            p \in Nat /\ m.at[f].drives[p] \in {"disk", "mute", "atapi", "sleeper", "empty"}

VARIABLES
  machine,
  calls,        \* the calls of check_... that are left, the next one first
  pci_devices,
  at,           \* where initPCI is
  unit,         \* the device of the list that is being set up
  port,         \* its port
  answered,     \* whether the hardware has done what it was asked last
  link,         \* <<function, port>> |-> "down", "up", "asleep" or "signed"
  window,       \* page of the uncached window |-> <<function, port>> it was mapped for,
                \* or <<function, -1>> for a BAR
  nextPage,     \* pci_bar_memory_next
  bars,         \* pci_bar_memory: BAR |-> its first page
  frames,       \* page frames that are left, in runs that alloc finds
  vectorOf,     \* function |-> the vector its controller took
  devices,      \* the block devices in the order of push_device
  late,         \* ports that were looked at before their drive was ready
  failures      \* ports whose drive did not identify itself

listing == <<calls, pci_devices>>
memory == <<window, nextPage, bars, frames>>
found == <<devices, late, failures>>
pciVars == <<machine, listing, at, unit, port, answered, link, memory, vectorOf, found>>

-----------------------------------------------------------------------------
(* Enumeration *)

Present(f) == f \in DOMAIN machine.at
Function(f) == machine.at[f]

\* A header that is not there reads as ones, which is a device of many functions.
ManyFunctions(f) == Present(f) => Function(f).multi

\* A call is named by its arguments: a group, a bus, a device, a function.
First(g) ==
  IF ManyFunctions(<<g, 0, 0, 0>>)
  THEN LET there == {f \in 0..FunctionCount - 1 : Present(<<g, 0, 0, f>>)}
       IN IF there = {} THEN <<>> ELSE << <<g, CHOOSE f \in there : \A h \in there : f <= h>> >>
  ELSE << <<g, 0>> >>

CheckAll(call) == Len(call) = 1 /\ calls' = First(call[1]) \o Tail(calls) /\ UNCHANGED pci_devices

CheckBus(call) ==
  /\ Len(call) = 2
  /\ calls' = [i \in 1..DeviceCount |-> Append(call, i - 1)] \o Tail(calls)
  /\ UNCHANGED pci_devices

\* Mutant: only devices of one function are asked.
FunctionsFirst(call) == 1

\* How many functions of a device are looked at.
FunctionsOf(call) == IF ManyFunctions(Append(call, 0)) THEN FunctionCount ELSE 1

CheckDevice(call) ==
  /\ Len(call) = 3
  /\ calls' = [i \in 1..FunctionsOf(call) |-> Append(call, i - 1)] \o Tail(calls)
  /\ UNCHANGED pci_devices

\* The bus behind a bridge is walked before the next function is looked at.
CheckFunction(call) ==
  /\ Len(call) = 4
  /\ pci_devices' = IF Present(call) THEN Append(pci_devices, call) ELSE pci_devices
  /\ calls' = IF Present(call) /\ Function(call).kind = "bridge"
              THEN << <<call[1], Function(call).secondary>> >> \o Tail(calls)
              ELSE Tail(calls)

CheckNext ==
  /\ at = "enumerate" /\ calls # <<>> /\ Len(pci_devices) < ListLimit
  /\ \/ CheckAll(Head(calls)) \/ CheckBus(Head(calls))
     \/ CheckDevice(Head(calls)) \/ CheckFunction(Head(calls))
  /\ UNCHANGED <<machine, at, unit, port, answered, link, memory, vectorOf, found, coreVars>>

\* A bridge that leads back to its own bus is walked until the stack is full.
Overrun ==
  /\ at = "enumerate" /\ Len(pci_devices) = ListLimit
  /\ at' = "fault"
  /\ UNCHANGED <<machine, listing, unit, port, answered, link, memory, vectorOf, found, coreVars>>

Enumerated ==
  /\ at = "enumerate" /\ calls = <<>> /\ Len(pci_devices) < ListLimit
  /\ at' = "unit" /\ unit' = 1
  /\ UNCHANGED <<machine, listing, port, answered, link, memory, vectorOf, found, coreVars>>

-----------------------------------------------------------------------------
(* allocate_uncached_virtual and getBAR *)

This == pci_devices[unit]
Unit == Function(This)

\* Mutant: the window moves on by one page for each call.
AfterOne(count) == nextPage + 1

\* The first page behind those that a call takes.
After(count) == nextPage + count

\* The upper half of a 64-bit BAR is masked like the lower one.
PagesOf(bar) == bar.pages + (IF bar.type = "wide" THEN WideExcess ELSE 0)

\* Prefetchable memory is reached through the mapping of all memory; of other
\* memory only the first page is mapped.
GetBar(bar) ==
  IF bar \in DOMAIN bars \/ bar.type \in {"io", "prefetchable"}
  THEN /\ bars' = [b \in DOMAIN bars \union {bar} |-> IF b \in DOMAIN bars THEN bars[b] ELSE -1]
       /\ UNCHANGED <<window, nextPage>>
  ELSE /\ nextPage' = After(PagesOf(bar))
       /\ bars' = [b \in DOMAIN bars \union {bar} |-> IF b = bar THEN nextPage ELSE bars[b]]
       /\ window' = [w \in DOMAIN window \union {nextPage} |-> IF w = nextPage THEN <<This, -1>> ELSE window[w]]

-----------------------------------------------------------------------------
(* generate: the constructors of the drivers *)

NextUnit == unit' = unit + 1 /\ at' = "unit"

SkipUnit ==
  /\ at = "unit" /\ unit <= Len(pci_devices)
  /\ Unit.kind \in {"sata", "xhci"} => Unit.bar.type = "none"
  /\ NextUnit
  /\ UNCHANGED <<machine, listing, port, answered, link, memory, vectorOf, found, coreVars>>

AllUnits ==
  /\ at = "unit" /\ unit > Len(pci_devices)
  /\ at' = "done"
  /\ UNCHANGED <<machine, listing, unit, port, answered, link, memory, vectorOf, found, coreVars>>

Ask(for) == at' = for /\ answered' = FALSE

\* Sata::init until its first wait; a controller behind I/O ports is left.
StartSata ==
  /\ at = "unit" /\ unit <= Len(pci_devices) /\ Unit.kind = "sata" /\ Unit.bar.type # "none"
  /\ GetBar(Unit.bar)
  /\ \/ Unit.bar.type = "io" /\ NextUnit /\ UNCHANGED answered
     \/ Unit.bar.type # "io" /\ Unit.handoff = "none" /\ Ask("reset") /\ UNCHANGED unit
     \/ Unit.bar.type # "io" /\ Unit.handoff # "none" /\ Ask("handoff") /\ UNCHANGED unit
  /\ UNCHANGED <<machine, listing, port, link, frames, vectorOf, found, coreVars>>

\* The constructor of xhci until its first wait.  I/O ports have no address:
\* an empty optional is dereferenced.
StartXhci ==
  /\ at = "unit" /\ unit <= Len(pci_devices) /\ Unit.kind = "xhci" /\ Unit.bar.type # "none"
  /\ GetBar(Unit.bar)
  /\ \/ Unit.bar.type = "io" /\ at' = "fault" /\ UNCHANGED <<unit, answered>>
     \/ Unit.bar.type # "io" /\ Unit.usable /\ Ask("halt") /\ UNCHANGED unit
     \/ Unit.bar.type # "io" /\ ~Unit.usable /\ NextUnit /\ UNCHANGED answered
  /\ UNCHANGED <<machine, listing, port, link, frames, vectorOf, found, coreVars>>

\* Sata::init and a port's stop and start sleep while they wait; wait_for and
\* xhci do not.
StillWaiting ==
  /\ at \in {"handoff", "reset", "stop", "start"} /\ ~answered
  /\ Slept
  /\ UNCHANGED <<pciVars, table, redirection, timerVector, round, bsp, hand>>

Ports == DOMAIN Unit.drives

Went ==
  /\ answered
  /\ \/ at = "handoff" /\ Ask("reset") /\ UNCHANGED unit
     \/ at = "halt" /\ Ask("restart") /\ UNCHANGED unit
     \/ at = "restart" /\ NextUnit /\ UNCHANGED answered
     \/ at = "reset" /\ at' = "vector" /\ UNCHANGED <<unit, answered>>
     \/ at = "stop" /\ at' = "memory" /\ UNCHANGED <<unit, answered>>
     \/ at = "start" /\ at' = "probe" /\ UNCHANGED <<unit, answered>>
  /\ UNCHANGED <<machine, listing, port, link, memory, vectorOf, found, coreVars>>

\* Mutant: the vector is taken and no handler registered for it.
MsiUnregistered(v) == handlers

\* The driver's handler, in place of what the vector had.
MsiRegistered(v) == [handlers EXCEPT ![v] = "sata"]

PortsFrom(p) == {q \in Ports : q >= p}
ToPort(p) ==
  IF PortsFrom(p) = {} THEN NextUnit /\ UNCHANGED port
  ELSE port' = (CHOOSE q \in PortsFrom(p) : \A r \in PortsFrom(p) : q <= r)
       /\ at' = "port" /\ UNCHANGED unit

TakeMsi ==
  /\ at = "vector"
  /\ \/ Free = {} /\ at' = "panic" /\ UNCHANGED <<unit, port, vectorOf, handlers>>
     \/ \E v \in Free :
          /\ Lowest(v)
          /\ handlers' = MsiRegistered(v)
          /\ IF Unit.msi
             THEN vectorOf' = [u \in DOMAIN vectorOf \union {This} |-> IF u = This THEN v ELSE vectorOf[u]]
                  /\ ToPort(0)
             ELSE NextUnit /\ UNCHANGED <<port, vectorOf>>
  /\ UNCHANGED <<machine, listing, answered, link, memory, found,
                 table, redirection, timerVector, round, bsp, hand>>

-----------------------------------------------------------------------------
(* Port::init and sendIdentify *)

Here == <<This, port>>

PortRun == nextPage..nextPage + PortPages - 1

\* Port::init stops the port's engines and waits until they have.  Registers
\* behind the first page of the BAR are not mapped.
StopPort ==
  /\ at = "port"
  /\ \/ port >= FirstPagePorts /\ at' = "fault" /\ UNCHANGED answered
     \/ port < FirstPagePorts /\ Ask("stop")
  /\ UNCHANGED <<machine, listing, unit, port, link, memory, vectorOf, found, coreVars>>

\* The command structures, the reset with its sleep, and start, which waits
\* again.  Without a run of frames the allocator has none or searches on for
\* ever (PhysicalAllocator).
PortMemory ==
  /\ at = "memory"
  /\ \/ /\ frames < PortPages
        /\ at' \in {"panic", "diverged"} /\ UNCHANGED <<answered, window, nextPage, frames, handlers>>
     \/ /\ frames >= PortPages
        /\ frames' = frames - PortPages
        /\ nextPage' = After(PortPages)
        /\ window' = [w \in DOMAIN window \union PortRun |-> IF w \in PortRun THEN Here ELSE window[w]]
        /\ Slept
        /\ Ask("start")
  /\ UNCHANGED <<machine, listing, unit, port, link, bars, vectorOf, found,
                 table, redirection, timerVector, round, bsp, hand>>

\* What the signature register may hold: before a drive's first message it is
\* whatever the controller puts there.
Signatures ==
  IF link[Here] # "signed" THEN {"none", "ata"}
  ELSE IF Unit.drives[port] = "atapi" THEN {"atapi"} ELSE {"ata"}

\* Mutant: every drive is taken for a disk.
IsDiskAny(s) == s # "none"

\* Every signature but none and that of an ATAPI drive is a disk's.
IsDisk(s) == s = "ata"

\* The reset of the port writes to another register, so nothing waits for the
\* link, and the status is read once.  What looks like a disk is sent the
\* identify command in slot 0.
Probe ==
  /\ at = "probe"
  /\ late' = IF link[Here] = "signed" THEN late ELSE late \union {Here}
  /\ \/ link[Here] \in {"down", "asleep"} /\ ToPort(port + 1) /\ UNCHANGED answered
     \/ link[Here] \in {"up", "signed"} /\ \E s \in Signatures :
          IF IsDisk(s) THEN Ask("identify") /\ UNCHANGED <<unit, port>>
          ELSE ToPort(port + 1) /\ UNCHANGED answered
  /\ UNCHANGED <<machine, listing, link, memory, vectorOf, devices, failures, coreVars>>

\* wait_for has seen slot 0 finished, or an error.  Sata::init does not look
\* which, and pushes a device without sectors when identify has failed.
Identified ==
  /\ at = "identify" /\ answered
  /\ devices' = Append(devices, Here)
  /\ ToPort(port + 1)
  /\ UNCHANGED <<machine, listing, answered, link, memory, vectorOf, late, failures, coreVars>>

-----------------------------------------------------------------------------
(* The hardware *)

\* What the code waits for; firmware need not give a controller away, and a
\* drive need not finish an identify command: a mute one never does, and an
\* ATAPI drive, to whom it is sent before its signature has come, refuses it.
Answering(for) ==
  CASE for = "handoff" -> Unit.handoff = "given"
    [] for = "identify" -> Unit.drives[port] = "disk"
    [] for \in {"reset", "halt", "restart", "stop", "start"} -> TRUE
    [] OTHER -> FALSE

\* A reset takes all links of the controller down.
Answer ==
  /\ ~answered /\ Answering(at)
  /\ answered' = TRUE
  /\ link' = [l \in DOMAIN link |-> IF at = "reset" /\ l[1] = This THEN "down" ELSE link[l]]
  /\ UNCHANGED <<machine, listing, at, unit, port, memory, vectorOf, found, coreVars>>

\* An error in PxSERR ends the wait for an identify command, whoever the drive.
IdentifyFails ==
  /\ at = "identify" /\ ~answered /\ Cardinality(failures) < MaxFailures
  /\ answered' = TRUE
  /\ failures' = failures \union {Here}
  /\ UNCHANGED <<machine, listing, at, unit, port, link, memory, vectorOf, devices, late, coreVars>>

\* While its ports are set up: the links may come up.
PortStages == {"vector", "port", "stop", "memory", "start", "probe", "identify"}

\* After the reset a link comes up, and then the drive sends its first message.
LinkUp(l) ==
  /\ at \in PortStages /\ l[1] = This
  /\ Function(l[1]).drives[l[2]] # "empty"
  /\ link' = [link EXCEPT ![l] =
       CASE @ = "down" -> IF Function(l[1]).drives[l[2]] = "sleeper" THEN "asleep" ELSE "up"
         [] @ = "up" -> "signed"
         [] @ \in {"asleep", "signed"} -> @]
  /\ UNCHANGED <<machine, listing, at, unit, port, answered, memory, vectorOf, found, coreVars>>

-----------------------------------------------------------------------------

Controllers == {f \in DOMAIN machine.at : Function(f).kind = "sata"}

PciInit ==
  /\ machine \in Machines
  /\ calls = <<>> /\ pci_devices = <<>> /\ at = "off" /\ unit = 0 /\ port = 0
  /\ answered = FALSE
  /\ link = [l \in UNION {{<<f, p>> : p \in DOMAIN Function(f).drives} : f \in Controllers} |-> "down"]
  /\ window = <<>> /\ nextPage = 0 /\ bars = <<>> /\ frames = machine.frames
  /\ vectorOf = <<>> /\ devices = <<>> /\ late = {} /\ failures = {}

\* Main::initPCI asks every group of the table in turn.
StartPci ==
  /\ bsp = "done" /\ at = "off"
  /\ at' = "enumerate" /\ calls' = [g \in 1..machine.groups |-> <<g>>]
  /\ UNCHANGED <<machine, pci_devices, unit, port, answered, link, memory, vectorOf, found, coreVars>>

PciStep ==
  \/ StartPci \/ CheckNext \/ Overrun \/ Enumerated \/ SkipUnit \/ AllUnits
  \/ StartSata \/ StartXhci \/ Went \/ TakeMsi \/ StopPort \/ PortMemory \/ Probe \/ Identified

=============================================================================
