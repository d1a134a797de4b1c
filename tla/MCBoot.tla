--------------------------------- MODULE MCBoot ---------------------------------
(***************************************************************************)
(* Machines for TLC.  Vectors 0 to 1 belong to exceptions; a device has    *)
(* two functions and a bus two devices.                                    *)
(***************************************************************************)
EXTENDS Boot

Core(id, there) == [type |-> 0, apic_id |-> id, present |-> there]
IoApic(base, pins) == [type |-> 1, base |-> base, pins |-> pins]
Override(from, to) == [type |-> 2, from |-> from, to |-> to]

SomeTables == {
  << Core(0, TRUE), IoApic(0, 3) >>,
  << Core(0, TRUE), Core(1, TRUE), IoApic(0, 3), Override(0, 2) >>,
  << IoApic(0, 2), Core(0, TRUE), Override(1, 0), Core(2, TRUE), Override(0, 1), Core(1, TRUE),
     Core(3, TRUE) >>,
  \* a processor that is switched off; the boot processor is not the first
  << Core(0, TRUE), Core(1, FALSE), IoApic(0, 2) >>,
  << Core(1, TRUE), Core(0, TRUE), IoApic(0, 2) >>,
  \* no vector left; the line beyond the vectors
  << Core(0, TRUE), IoApic(0, 5), IoApic(5, 1) >>,
  << Core(0, TRUE), IoApic(0, 2), Override(0, 7) >> }

Bar(type, base, pages) == [type |-> type, base |-> base, pages |-> pages]

Host(many) == [kind |-> "host", multi |-> many]
Bridge(many, to) == [kind |-> "bridge", multi |-> many, secondary |-> to]
Ahci(bar, msi, handoff, ports) ==
  [kind |-> "sata", multi |-> FALSE, bar |-> bar, msi |-> msi, handoff |-> handoff, drives |-> ports]
Usb(bar, usable) == [kind |-> "xhci", multi |-> FALSE, bar |-> bar, usable |-> usable]

NoDrives == [p \in {} |-> "empty"]
Machine(groups, functions, free) == [groups |-> groups, at |-> functions, frames |-> free]

SomeMachines == {
  \* two controllers behind one another
  Machine(1, (<<1, 0, 0, 0>> :> Host(FALSE)) @@ (<<1, 0, 1, 0>> :> Bridge(TRUE, 1))
          @@ (<<1, 0, 1, 1>> :> Ahci(Bar("memory", 8, 1), TRUE, "given", 0 :> "disk" @@ 1 :> "atapi"))
          @@ (<<1, 1, 1, 0>> :> Ahci(Bar("wide", 9, 2), TRUE, "none", 1 :> "disk")), 6),
  \* bridges behind bridges, a host bridge of many functions, two groups, and a
  \* bridge that software does not see
  Machine(2, (<<1, 0, 0, 0>> :> Host(TRUE)) @@ (<<1, 0, 0, 1>> :> Bridge(FALSE, 1))
          @@ (<<1, 1, 0, 0>> :> Bridge(TRUE, 2)) @@ (<<1, 1, 0, 1>> :> Usb(Bar("memory", 3, 1), TRUE))
          @@ (<<1, 2, 1, 0>> :> Usb(Bar("wide", 5, 2), FALSE)) @@ (<<1, 2, 0, 0>> :> Host(FALSE))
          @@ (<<2, 0, 0, 0>> :> Host(FALSE)) @@ (<<2, 0, 0, 1>> :> Bridge(FALSE, 1))
          @@ (<<2, 1, 0, 0>> :> Host(FALSE))
          @@ (<<2, 0, 1, 0>> :> Ahci(Bar("prefetchable", 7, 1), TRUE, "none", 0 :> "sleeper" @@ 1 :> "empty")), 4),
  \* controllers that are left out, and one without ports
  Machine(1, (<<1, 0, 0, 0>> :> Ahci(Bar("io", 1, 1), TRUE, "none", NoDrives))
          @@ (<<1, 0, 1, 0>> :> Bridge(FALSE, 1))
          @@ (<<1, 1, 0, 0>> :> Ahci(Bar("none", 0, 0), TRUE, "none", 0 :> "disk"))
          @@ (<<1, 1, 1, 0>> :> Ahci(Bar("memory", 2, 1), FALSE, "none", 0 :> "disk")), 2),
  \* firmware that keeps its controller; too few frames; a port too many
  Machine(1, <<1, 0, 0, 0>> :> Ahci(Bar("memory", 2, 1), TRUE, "kept", 0 :> "disk"), 2),
  Machine(1, <<1, 0, 0, 0>> :> Ahci(Bar("memory", 2, 1), TRUE, "none", 0 :> "atapi" @@ 1 :> "disk"), 2),
  Machine(1, <<1, 0, 0, 0>> :> Ahci(Bar("memory", 2, 1), TRUE, "none", 0 :> "disk" @@ 2 :> "disk"), 4),
  \* a drive that does not answer; an xHCI controller behind I/O ports
  Machine(1, (<<1, 0, 0, 0>> :> Ahci(Bar("memory", 2, 1), TRUE, "none", 0 :> "mute" @@ 1 :> "disk"))
          @@ (<<1, 0, 1, 0>> :> Usb(Bar("memory", 3, 1), TRUE)), 4),
  Machine(1, <<1, 0, 0, 0>> :> Usb(Bar("io", 1, 1), TRUE), 0),
  \* a bridge without a number; a host bridge without its first function
  Machine(1, (<<1, 0, 0, 0>> :> Host(FALSE)) @@ (<<1, 0, 1, 0>> :> Bridge(FALSE, 0)), 0),
  Machine(1, <<1, 0, 0, 1>> :> Host(FALSE), 0) }

=============================================================================
