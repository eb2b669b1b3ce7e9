-------------------------------- MODULE Pci --------------------------------
(***************************************************************************)
(* PCI devices: configuration space behind an address port and a data      *)
(* port, base addresses (BAR), the list of capabilities, and the routing   *)
(* of MSI-X interrupts, with the three drivers that use them: VirtIO over  *)
(* PCI, its legacy form, and the gVNIC.                                    *)
(*                                                                         *)
(* Offsets and layouts are those of the configuration header: a register   *)
(* is a number, 0 where it is not listed; a capability header holds the    *)
(* identifier and, times 256, the offset of the next one, and what is      *)
(* above (times 65536) is its own.  A BAR holds its type in its low 4 bits.*)
(* A driver reads in two steps: out to the address port, in from the data  *)
(* port; drv is where each driver stands, to go on with the value read.    *)
(***************************************************************************)
EXTENDS Naturals, Sequences, FiniteSets, TLC

CONSTANTS Users,         \* drivers' goroutines
          DriverKinds,   \* subset of {"virtio", "legacy", "gve"}
          Devices,       \* slots, up to maxDevices
          Queues,        \* indices of virtual queues
          MaxPciCalls    \* bound: calls of EnableInterrupt

VARIABLES conf,         \* slot -> offset -> register
          confAddress,  \* CONFIG_ADDRESS: slot and offset
          tab,          \* memory of the MSI-X tables: address -> entry
          on,           \* slots with MSI-X enabled
          vec,          \* device: slot and queue -> its MSI-X entry, and the vector asked for
          drv           \* the drivers

pciVars == <<conf, confAddress, tab, on, vec, drv>>

VendorID == 0
RevisionID == 8
Bar0 == 16
CapabilitiesOffset == 52
VendorSpecific == 9
MSIX == 17
None == 65535

Reg(s, off) == IF off \in DOMAIN conf[s] THEN conf[s][off] ELSE 0

(* External: what may be plugged in.  Slot 0 is a bridge, another slot may *)
(* be empty; the devices sought differ in their BAR (32 or 64 bits wide, or*)
(* I/O), in their revision and in their capabilities.                      *)
Align(x, size) == (x \div size) * size

Header(id, next, own) == id + 256 * next + 65536 * own

Bridge == VendorID :> 1
Absent == VendorID :> None

Virtio(wide, rev, shape) ==
  LET bar == IF wide THEN (Bar0 + 16 :> 64 + 4) @@ (Bar0 + 20 :> 1) ELSE Bar0 + 16 :> 64
      common == (64 :> Header(VendorSpecific, 80, 1)) @@ (68 :> 4) @@ (72 :> 0) @@ (76 :> 16)
      config == (80 :> Header(VendorSpecific, 108, 4)) @@ (84 :> 4) @@ (88 :> 16) @@ (92 :> 16)
      notify == (108 :> Header(VendorSpecific, IF shape = "no msix" THEN 0 ELSE 96, 2))
                  @@ (112 :> 4) @@ (116 :> 64) @@ (120 :> 16) @@ (124 :> 2)
      msix == (96 :> Header(MSIX, 0, 1)) @@ (100 :> 32 + 4) @@ (104 :> 48 + 4)
  IN  (VendorID :> 2) @@ (RevisionID :> rev) @@ bar @@ msix @@ notify @@ config
        @@ (IF shape = "no common" THEN CapabilitiesOffset :> 80 ELSE (CapabilitiesOffset :> 64) @@ common)

Legacy(io, rev) ==
  (VendorID :> 3) @@ (RevisionID :> rev) @@ (Bar0 :> IF io THEN 32 + 1 ELSE 32) @@ (Bar0 + 4 :> 64)
    @@ (CapabilitiesOffset :> 96) @@ (96 :> Header(MSIX, 0, 1)) @@ (100 :> 32 + 1)

Gve(size) ==
  (VendorID :> 4) @@ (Bar0 :> 32) @@ (Bar0 + 4 :> 64) @@ (CapabilitiesOffset :> 96)
    @@ (96 :> Header(MSIX, 0, size - 1)) @@ (100 :> 32 + 1)

Sought == [virtio |-> 2, legacy |-> 3, gve |-> 4]

Idle(k) == [kind |-> k, pc |-> "idle", phase |-> "out", slot |-> 0, rev |-> 0, off |-> 0,
            word |-> 0, bar |-> 0, lo |-> 0, at |-> 0, len |-> 0, back |-> "none",
            common |-> FALSE, config |-> FALSE, multiplier |-> 0, msix |-> 0, size |-> 0, table |-> 0, id |-> 0, n |-> 0,
            last |-> <<0, 1, 0>>]

PciInit ==
  /\ \E s \in [1 .. Cardinality(Devices) - 1 ->
              {Absent} \cup {Virtio(w, 1, c) : w \in BOOLEAN, c \in {"full", "no msix", "no common"}}
                 \cup {Virtio(TRUE, 0, "full"), Legacy(TRUE, 0), Legacy(FALSE, 0), Legacy(TRUE, 1), Gve(3), Gve(2)}] :
       conf = [i \in Devices |-> IF i = 0 THEN Bridge ELSE s[i]]
  /\ confAddress = <<0, 0>> /\ tab = [a \in {} |-> 0] /\ on = {} /\ vec = [a \in {} |-> 0]
  /\ drv \in [Users -> {Idle(k) : k \in DriverKinds}]

-----------------------------------------------------------------------------
(* Configuration accesses.  Out is the first half of Read and Write.       *)

Offset(x) ==
  CASE x.pc = "vendor" -> VendorID
    [] x.pc = "rev" -> RevisionID
    [] x.pc = "init rev" -> RevisionID
    [] x.pc = "capptr" -> CapabilitiesOffset
    [] x.pc = "cap" -> x.off
    [] x.pc \in {"msix", "own"} -> x.off + x.word
    [] x.pc = "notify" -> x.off + 16
    [] x.pc = "bar" -> Bar0 + 4 * x.bar
    [] x.pc = "hi" -> Bar0 + 4 * x.bar + 4
    [] x.pc = "enable" -> x.msix

Out(u) ==
  /\ drv[u].phase = "out" /\ drv[u].pc \notin {"idle", "up", "failed", "entry"}
  /\ confAddress' = <<drv[u].slot, Offset(drv[u])>>
  /\ drv' = [drv EXCEPT ![u].phase = "in"]
  /\ UNCHANGED <<conf, tab, on, vec>>

Goto(x, pc) == [x EXCEPT !.pc = pc, !.phase = "out"]
Fail(x) == Goto(x, "failed")

(* The next slot of Probe, or the end of its loop.                         *)
NextSlot(x) == IF x.slot + 1 \in Devices THEN Goto([x EXCEPT !.slot = @ + 1], "vendor") ELSE Fail(x)

(* The next capability: Capabilities goes on to offset off, or is over and *)
(* Init checks what it has found (PCI.Init, LegacyPCI.Init, GVE.Init).     *)
Walk(x, off) ==
  IF off # 0 THEN Goto([x EXCEPT !.off = off, !.word = 0], "cap")
  ELSE IF x.kind = "virtio" /\ ~(x.common /\ x.config) THEN Fail(x)
  ELSE Goto(x, "up")

(* BaseAddress: the 64 bit type takes the next register too, and loses its *)
(* low bits only there; types other than these are 0.  Then whoever asked  *)
(* goes on: a capability whose region is empty is not mapped; the legacy   *)
(* device must have an I/O BAR and the gVNIC two that are not.             *)
BarType(val) == (val \div 2) % 4

BaseAddress(x, addr) ==
  CASE x.back = "own" ->
         LET type == x.n \div 65536
             mapped == addr + x.at # 0 /\ x.len # 0
         IN  IF type = 2 THEN Goto(x, "notify")
             ELSE Walk([x EXCEPT !.common = @ \/ (type = 1 /\ mapped), !.config = @ \/ (type = 4 /\ mapped)],
                       (x.n \div 256) % 256)
    [] x.back = "bar0" -> IF addr % 2 # 1 THEN Fail(x) ELSE Goto(x, "capptr")
    [] x.back = "gve" -> IF addr % 2 # 0 THEN Fail(x) ELSE IF x.bar = 0 THEN Goto([x EXCEPT !.bar = 1], "bar")
                                                             ELSE Goto(x, "capptr")
    [] x.back = "table" -> [Goto(x, "entry") EXCEPT !.lo = Align(addr, 16)]

(* addCapability of the three drivers; hdr is the header just read.        *)
addCapability(x, hdr) ==
  LET id == hdr % 256
      next == (hdr \div 256) % 256
  IN  CASE id = MSIX -> Goto([x EXCEPT !.word = 0], "msix")
        [] id = VendorSpecific /\ x.kind = "virtio" -> Goto([x EXCEPT !.word = 0], "own")
        [] id = VendorSpecific /\ x.kind = "legacy" -> Fail(x)
        [] OTHER -> Walk(x, next)

(* CapabilityMSIX.Unmarshal: header, table and pending bits, in turn.      *)
MsixWord(x, val) ==
  CASE x.word = 0 -> Goto([x EXCEPT !.word = 4,
                                     !.size = ((val \div 65536) % 2048) + 1, !.lo = (val \div 256) % 256], "msix")
    [] x.word = 4 -> Goto([x EXCEPT !.word = 8, !.table = val], "msix")
    [] x.word = 8 -> Walk([x EXCEPT !.msix = x.off], x.lo)

(* capability.Unmarshal: type, BAR, offset and length, then the address.   *)
OwnWord(x, val) ==
  CASE x.word = 0 -> Goto([x EXCEPT !.word = 4, !.n = val], "own")
    [] x.word = 4 -> Goto([x EXCEPT !.word = 8, !.bar = val % 8], "own")
    [] x.word = 8 -> Goto([x EXCEPT !.word = 12, !.at = val], "own")
    [] x.word = 12 -> Goto([x EXCEPT !.len = val, !.back = "own"], "bar")

(* probe, Probe, Init and EnableInterrupt: how a driver goes on with the   *)
(* value it has read.                                                      *)
Continue(x, val) ==
  CASE x.pc = "vendor" -> IF val = None THEN NextSlot(x) ELSE Goto([x EXCEPT !.n = val], "rev")
    [] x.pc = "rev" -> IF x.n = Sought[x.kind]
                       THEN IF x.kind = "gve" THEN Goto([x EXCEPT !.rev = val, !.bar = 0, !.back = "gve"], "bar")
                            ELSE Goto([x EXCEPT !.rev = val], "init rev")
                       ELSE NextSlot(x)
    [] x.pc = "init rev" -> IF (x.kind = "virtio" /\ val = 0) \/ (x.kind = "legacy" /\ val # 0) THEN Fail(x)
                            ELSE IF x.kind = "legacy" THEN Goto([x EXCEPT !.bar = 0, !.back = "bar0"], "bar")
                            ELSE Goto(x, "capptr")
    [] x.pc = "capptr" -> Walk(x, val)
    [] x.pc = "cap" -> addCapability(x, val)
    [] x.pc = "msix" -> MsixWord(x, val)
    [] x.pc = "own" -> OwnWord(x, val)
    [] x.pc = "notify" -> Walk([x EXCEPT !.multiplier = val], (x.n \div 256) % 256)
    [] x.pc = "bar" -> CASE BarType(val) = 0 -> BaseAddress(x, val)
                         [] BarType(val) = 2 -> Goto([x EXCEPT !.lo = Align(val, 16)], "hi")
                         [] OTHER -> BaseAddress(x, 0)
    [] x.pc = "hi" -> BaseAddress(x, 4096 * val + x.lo)

(* In: the second half of Read.                                            *)
In(u) ==
  /\ drv[u].phase = "in" /\ drv[u].pc # "enable"
  /\ LET val == Reg(confAddress[1], confAddress[2])
     IN  drv' = [drv EXCEPT ![u] = [Continue(drv[u], val) EXCEPT !.last = <<drv[u].slot, Offset(drv[u]), val>>]]
  /\ UNCHANGED <<conf, confAddress, tab, on, vec>>

Probe(u) ==
  /\ drv[u].pc = "idle"
  /\ drv' = [drv EXCEPT ![u] = Goto([@ EXCEPT !.slot = 0], "vendor")]
  /\ UNCHANGED <<conf, confAddress, tab, on, vec>>

(* EnableInterrupt of the drivers: VirtIO routes every queue through entry *)
(* 0, the gVNIC has an entry per kind of interrupt and wants three.        *)
Entry(x, index) == IF x.kind = "gve" THEN index ELSE 0

Calls == Cardinality(DOMAIN vec)

EnableInterrupt(u, id, index) ==
  /\ drv[u].pc = "up" /\ Calls < MaxPciCalls /\ <<drv[u].slot, index>> \notin DOMAIN vec
  /\ drv[u].msix # 0 /\ (drv[u].kind = "gve" => drv[u].size >= 3) /\ Entry(drv[u], index) < drv[u].size
  /\ drv' = [drv EXCEPT ![u] = Goto([@ EXCEPT !.id = id, !.n = index,
                                             !.bar = drv[u].table % 8, !.back = "table"], "bar")]
  /\ UNCHANGED <<conf, confAddress, tab, on, vec>>

MissingCapability(u) ==
  /\ drv[u].pc = "up" /\ (drv[u].msix = 0 \/ (drv[u].kind = "gve" /\ drv[u].size < 3))
  /\ drv' = [drv EXCEPT ![u] = Fail(@)]
  /\ UNCHANGED <<conf, confAddress, tab, on, vec>>

PutEntryRaw(u) ==
  /\ drv[u].pc = "entry"
  /\ tab' = (drv[u].lo + drv[u].table + 16 * Entry(drv[u], drv[u].n) :> drv[u].id) @@ tab
  /\ drv' = [drv EXCEPT ![u] = Goto(@, "enable")]
  /\ UNCHANGED <<conf, confAddress, on, vec>>

(* CapabilityMSIX.EnableInterrupt: the entry, 16 bytes from the one before,*)
(* in the table; the low bits of the table's offset name the BAR.          *)
PutEntry(u) ==
  /\ drv[u].pc = "entry"
  /\ tab' = (drv[u].lo + Align(drv[u].table, 8) + 16 * Entry(drv[u], drv[u].n) :> drv[u].id) @@ tab
  /\ drv' = [drv EXCEPT ![u] = Goto(@, "enable")]
  /\ UNCHANGED <<conf, confAddress, on, vec>>

(* The enable bit, and the queue's entry in the device.                    *)
WriteEnable(u) ==
  /\ drv[u].pc = "enable" /\ drv[u].phase = "in"
  /\ on' = on \cup {confAddress[1]}
  /\ vec' = (<<drv[u].slot, drv[u].n>> :> [entry |-> Entry(drv[u], drv[u].n), id |-> drv[u].id]) @@ vec
  /\ drv' = [drv EXCEPT ![u] = Goto(@, "up")]
  /\ UNCHANGED <<conf, confAddress, tab>>

PciStep(u) ==
  \/ Probe(u) \/ Out(u) \/ In(u) \/ MissingCapability(u) \/ PutEntry(u) \/ WriteEnable(u)
  \/ \E id \in {40, 41}, index \in Queues : EnableInterrupt(u, id, index)

PciNext == \E u \in Users : PciStep(u)

-----------------------------------------------------------------------------
(* Where the device's table really is: the BAR, both its registers, and    *)
(* the offset.                                                             *)
TableOf(s) ==
  LET cap == 96
      bir == Reg(s, cap + 4) % 8
      bar == Reg(s, Bar0 + 4 * bir)
  IN  (IF BarType(bar) = 2 THEN 4096 * Reg(s, Bar0 + 4 * bir + 4) ELSE 0) + Align(bar, 16) + Reg(s, cap + 4) - bir

(* The vector that the interrupts of a queue of the device in slot s take. *)
VectorOf(s, index) == tab[TableOf(s) + 16 * vec[<<s, index>>].entry]

(* A driver that is up has the device it sought, in the lowest slot that   *)
(* has one, with every capability it needs, and its last call of           *)
(* EnableInterrupt routes that queue to the vector asked for, through the  *)
(* table of this device; nothing else was written (Probe, Init,            *)
(* addCapability and EnableInterrupt).                                     *)
RoutedRight ==
  /\ \A u \in Users : LET x == drv[u] IN
       x.pc \in {"up", "entry", "enable"} =>
         /\ Reg(x.slot, VendorID) = Sought[x.kind]
         /\ \A s \in Devices : s < x.slot => Reg(s, VendorID) # Sought[x.kind]
         /\ x.kind = "virtio" => /\ x.common /\ x.config /\ Reg(x.slot, RevisionID) # 0
                                 /\ x.multiplier = Reg(x.slot, 124)
         /\ x.pc = "up" /\ <<x.slot, x.n>> \in DOMAIN vec => x.slot \in on /\ VectorOf(x.slot, x.n) = x.id
  /\ DOMAIN tab \subseteq {TableOf(s) + 16 * e : s \in Devices, e \in 0 .. 2}

(* "Read reads the device configuration space for a given function and     *)
(* register offset." (Device.Read)                                         *)
ConfigRead == \A u \in Users : drv[u].last[3] = Reg(drv[u].last[1], drv[u].last[2])

(* "EnableInterrupt enables MSI-X interrupt vector routing to a LAPIC      *)
(* instance for the indexed virtual queue." (PCI.EnableInterrupt): each    *)
(* queue keeps the vector it was routed to.                                *)
QueueVector == \A i \in DOMAIN vec : VectorOf(i[1], i[2]) = vec[i].id
=============================================================================
