---------------------------------- MODULE Boot ----------------------------------
(***************************************************************************)
(* Main::init between kheap::init and initFiles: CoreStart and then        *)
(* PciSetup on the boot processor, beside the processors that start and    *)
(* the hardware.                                                           *)
(***************************************************************************)
EXTENDS PciSetup

vars == <<coreVars, pciVars>>

Init == CoreInit /\ PciInit

CoreSide == CoreNext /\ UNCHANGED pciVars

Hardware == Answer \/ IdentifyFails \/ (at \in PortStages /\ \E l \in DOMAIN link : LinkUp(l))

Next == CoreSide \/ PciStep \/ StillWaiting \/ Hardware

Spec == Init /\ [][Next]_vars

\* Each processor runs on, the PIT ticks, and controllers and disks answer what
\* they were asked; no link has to come up, and nothing makes a mute drive, an
\* ATAPI drive or a firmware that keeps its controller answer.
Fairness ==
  /\ WF_vars(BspStep /\ UNCHANGED pciVars)
  /\ WF_vars(PciStep)
  /\ \A t \in Tables : \A c \in 1..Len(t) : WF_vars(c \in DOMAIN ap /\ ApStep(c) /\ UNCHANGED pciVars)
  /\ WF_vars(Answer)

FairSpec == Spec /\ Fairness

-----------------------------------------------------------------------------
(* What the enumeration should find *)

\* The functions of a device that software looks at by the rules of PCI: all,
\* if function 0 says that there are more.
Visible(f) ==
  f[4] = 0 \/ (Present(<<f[1], f[2], f[3], 0>>) /\ Function(<<f[1], f[2], f[3], 0>>).multi)

\* The buses that are reached from bus 0 of a group.
Reached(g) ==
  LET closed(B) == /\ 0 \in B
                   /\ \A f \in DOMAIN machine.at :
                        (f[1] = g /\ f[2] \in B /\ Visible(f) /\ Function(f).kind = "bridge") =>
                          Function(f).secondary \in B
      buses == {0} \union {Function(f).secondary : f \in {h \in DOMAIN machine.at : Function(h).kind = "bridge"}}
  IN {b \in buses : \A B \in SUBSET buses : closed(B) => b \in B}

\* The functions that software finds on them.
Findable == {f \in DOMAIN machine.at : f[2] \in Reached(f[1]) /\ Visible(f)}

\* Firmware has given every bus behind a bridge its number, every device has a
\* function 0, and each group has a host bridge.
Configured ==
  /\ \A f \in DOMAIN machine.at : Present(<<f[1], f[2], f[3], 0>>)
  /\ \A f \in DOMAIN machine.at : Function(f).kind = "bridge" => Function(f).secondary > f[2]
  /\ \A f, h \in DOMAIN machine.at :
       (f # h /\ f[1] = h[1] /\ Function(f).kind = "bridge" /\ Function(h).kind = "bridge") =>
         Function(f).secondary # Function(h).secondary
  /\ \A g \in 1..machine.groups : Present(<<g, 0, 0, 0>>)

\* The list holds each function of the machine once, for bridges behind
\* bridges and for devices of many functions as well.
ListExact ==
  (Configured /\ at \in {"unit", "done"}) =>
    /\ ToSet(pci_devices) = Findable
    /\ Len(pci_devices) = Cardinality(Findable)

-----------------------------------------------------------------------------
(* Controllers and drives *)

\* The controllers that the code sets up to their end.
Served(f) == /\ Function(f).kind = "sata" /\ Function(f).msi
             /\ Function(f).bar.type \notin {"none", "io"}

Before(d, e) ==
  LET place(x) == CHOOSE i \in DOMAIN pci_devices : pci_devices[i] = x[1]
  IN place(d) < place(e) \/ (d[1] = e[1] /\ d[2] < e[2])

\* However late its link comes up and whether or not it identifies itself, a
\* drive becomes at most one device, in the order of controllers and ports.
\* A disk that was ready in time becomes one, and nothing that was ready and is
\* no disk does.
DrivesExact ==
  (Configured /\ at = "done") =>
    LET disks == {l \in DOMAIN link : /\ l[1] \in Findable /\ Served(l[1])
                                      /\ Function(l[1]).drives[l[2]] \in {"disk", "mute"}}
    IN /\ disks \ late \subseteq ToSet(devices)
       /\ ToSet(devices) \subseteq disks \union late
       /\ \A i, j \in DOMAIN devices : i < j => Before(devices[i], devices[j])

\* A page of the uncached window that was mapped for a BAR or for the command
\* structures of a port keeps its mapping whatever is mapped after it.
WindowKept == [][\A w \in DOMAIN window : window'[w] = window[w]]_window

\* The vector of a controller leads to its driver.  get_free_interrupt_number
\* reserves nothing, so where no other processor was started, and nothing may
\* have slept before, the timer and the first controller can get one vector.
MsiHandled ==
  \A u, v \in DOMAIN vectorOf :
    /\ u # v => vectorOf[u] # vectorOf[v]
    /\ handlers[vectorOf[u]] = "sata" \/ (vectorOf[u] = timerVector /\ \A c \in DOMAIN stack : stack[c] = 0)

-----------------------------------------------------------------------------
(* The end of the start *)

\* A machine on which the devices can be set up.
Sound ==
  /\ Configured
  /\ \A f \in Controllers :
       Function(f).handoff # "kept" /\ \A p \in DOMAIN Function(f).drives : p < FirstPagePorts
  /\ \A f \in DOMAIN machine.at : Function(f).kind = "xhci" => Function(f).bar.type # "io"
  /\ machine.frames >= PortPages * Cardinality(DOMAIN link)
  /\ FirstVector + PinsBefore(Len(ioapics) + 1) + Cardinality(Controllers) < VectorCount - 1

\* The code waits for the identify command of a drive that will not finish it.
Hung == at = "identify" /\ ~answered /\ ~Answering(at)

\* Then all processors are up and initFiles is reached, though a start-up
\* message is lost, a link stays down or an identify fails, or the start is hung
\* for ever in the identify command of one drive: wait_for has no time-out
\* (sata.cpp:510), and this is the only place where such a machine stops.
BootEnds ==
  (Usual /\ Sound) =>
    \/ <>(at = "done" /\ \A c \in DOMAIN cores \ {1} : ap[c] = "up")
    \/ <>[]Hung

=============================================================================
