-------------------------------- MODULE MCKvm --------------------------------
(***************************************************************************)
(* The devices of virtual machines for TLC: the rings and the              *)
(* bring-up of the gVNIC; VirtIO queues with device-writable and           *)
(* device-readable buffers, the memory of a queue, and the transports; the *)
(* PCI bus they are found on, with the routing of their interrupts; the    *)
(* requests of SEV guests to their host; the clock of KVM.  They share no  *)
(* state, so that each is explored while the others stand still.           *)
(***************************************************************************)
EXTENDS GveQueues, VirtQueuePop, GuestProofs

CONSTANTS Users, DriverKinds, Devices, MaxPciCalls

VARIABLES conf, confAddress, tab, on, vec, drv

VARIABLE part       \* the part that is explored

adminVars == <<adminInits, step, adminPc, adminCnt, ring, dma, regs, adminDoorbell, events, using, late>>
devVars == <<transport, valid, offered, accept, status, dfeatures, qsel, qaddr, qvector, msix,
             routed, notified, features, notifyOff, asked, wrong, phase>>
sevVars == <<layout, seqNo, gpc, request, answer, outcome, firmware, lost, guestCalls, rmp,
             validated, range, private, entries, cur>>
clockVars == <<shared, hpc, updates, vpc, version, timeInfo, adjusted>>
pciVars == <<conf, confAddress, tab, on, vec, drv>>
gveVars == <<rxVars, txVars, adminVars>>
queueVars == <<popVars, pushVars, lifeVars>>
guestVars == <<sevVars, clockVars>>

Bus == INSTANCE Pci

MCInit ==
    /\ part \in {"rx", "tx", "admin", "pop", "push", "life", "transport", "sev", "clock", "pci"}
    /\ RxInit /\ TxInit /\ Admin!Init
    /\ PopInit /\ PushInit /\ LifeInit /\ Transport!Init
    /\ Guest!Init /\ Guest!ClockInit /\ Bus!PciInit
    /\ part # "clock" => version = 0
    /\ part # "transport" => ~valid /\ ~accept /\ transport = "mmio" /\ offered = {"eventidx"}
    /\ part # "pci" =>
           /\ \A s \in Devices \ {0} : conf[s] = Bus!Absent
           /\ \A u \in Users : drv[u].kind = CHOOSE k \in DriverKinds : TRUE

MCNext ==
    \/ part = "rx" /\ RxNext
       /\ UNCHANGED <<part, txVars, adminVars, queueVars, devVars, guestVars, pciVars>>
    \/ part = "tx" /\ TxNext
       /\ UNCHANGED <<part, rxVars, adminVars, queueVars, devVars, guestVars, pciVars>>
    \/ part = "admin" /\ Admin!Next
       /\ UNCHANGED <<part, rxVars, txVars, queueVars, devVars, guestVars, pciVars>>
    \/ part = "pop" /\ PopNext
       /\ UNCHANGED <<part, gveVars, pushVars, lifeVars, devVars, guestVars, pciVars>>
    \/ part = "push" /\ PushNext
       /\ UNCHANGED <<part, gveVars, popVars, lifeVars, devVars, guestVars, pciVars>>
    \/ part = "life" /\ LifeNext
       /\ UNCHANGED <<part, gveVars, popVars, pushVars, devVars, guestVars, pciVars>>
    \/ part = "transport" /\ Transport!Next
       /\ UNCHANGED <<part, gveVars, queueVars, guestVars, pciVars>>
    \/ part = "sev" /\ Guest!Next
       /\ UNCHANGED <<part, gveVars, queueVars, devVars, clockVars, pciVars>>
    \/ part = "clock" /\ Guest!ClockNext
       /\ UNCHANGED <<part, gveVars, queueVars, devVars, sevVars, pciVars>>
    \/ part = "pci" /\ Bus!PciNext
       /\ UNCHANGED <<part, gveVars, queueVars, devVars, guestVars>>

MCSpec ==
    /\ MCInit
    /\ [][MCNext]_<<part, gveVars, queueVars, devVars, guestVars, pciVars>>
    /\ WF_rxVars(part = "rx" /\ Receive)
    /\ WF_clockVars(part = "clock" /\ Guest!HwWrite) /\ WF_clockVars(part = "clock" /\ Guest!Guest)

MCOffered == {{"net", "eventidx", "version1", "packed"},
              {"version1", "notifdata", "packed"}, {"eventidx"}}
MCWanted == {{"net", "version1", "packed"}, {"eventidx", "notifdata"}, {}}

\* Every frame the device of the gVNIC delivers is consumed, as long as Receive is
\* called.
RxDrained == part = "rx" => Drained

\* The time of the guest follows the last update of the host.
Follows == part = "clock" => Guest!Follows

\* A driver of a PCI device that is up drives the device it has sought, and the last
\* EnableInterrupt has routed its queue to the vector asked for, through the table
\* of this device.
RoutedRight == Bus!RoutedRight

\* "EnableInterrupt enables MSI-X interrupt vector routing to a LAPIC instance for
\* the indexed virtual queue."
QueueVector == Bus!QueueVector

=============================================================================
