---------------------------- MODULE VirtTransport ----------------------------
(***************************************************************************)
(* The three VirtIO transports (kvm/virtio/mmio.go, pci.go, legacy.go):    *)
(* reset and feature negotiation, and the per-queue registers, which are   *)
(* all reached through one queue select register.                          *)
(*                                                                         *)
(* A transport is used by one goroutine; each operation is a step.         *)
(***************************************************************************)
EXTENDS Integers, FiniteSets

CONSTANTS
    Transports,     \* transports: "mmio", "pci" or "legacy"
    Queues,         \* queue indices of the device, 0 .. n - 1
    DevOffered,        \* sets of features devices offer
    Wanted,         \* sets of features drivers ask for
    MsixIDs         \* interrupt ids

Reserved == {"eventidx", "version1", "packed", "notifdata"}    \* bits 24-49
Low == {"net", "eventidx"}                              \* bits 0-31

None == -1

VARIABLES
    transport,  \* the transport of this device
    valid,      \* the device is what the transport expects
    offered,    \* device: features it offers
    accept,     \* device: whether it accepts what the driver picks
    status,     \* device: status register, a set of bits
    dfeatures,  \* device: driver feature register
    qsel,       \* device: queue select register
    qaddr,      \* device: address of each queue, None until it is set
    qvector,    \* device: MSI-X entry of each queue
    msix,       \* device: interrupt id in MSI-X entry 0
    routed,     \* id that EnableInterrupt was last called with for each queue
    notified,   \* device: queues that were notified
    features,   \* driver: negotiated features
    notifyOff,  \* driver: queueNotifyOff
    asked,      \* features the last Init asked for
    wrong,      \* a notification that went to another queue
    phase       \* what the caller has done: the order of calls

irq == <<qvector, msix, routed>>
dev == <<transport, valid, offered, accept, status, dfeatures, qsel, qaddr, notified>>
vars == <<dev, irq, features, notifyOff, asked, wrong, phase>>

\* negotiate: unsupported features go, device type ones go, and of the rest the
\* ones the driver asked for stay
negotiate(device, driver) == ((device \ {"packed", "notifdata"}) \cap Reserved) \cap driver

\* legacy devices only have the first 32 feature bits
Visible(F) == IF transport = "legacy" THEN F \cap Low ELSE F

Init ==
    /\ transport \in Transports /\ valid \in BOOLEAN
    /\ offered \in DevOffered /\ accept \in BOOLEAN
    /\ status = {} /\ dfeatures = {} /\ qsel = 0
    /\ qaddr = [q \in Queues |-> None] /\ qvector = [q \in Queues |-> None]
    /\ msix = None /\ routed = [q \in Queues |-> None]
    /\ notified = {}
    /\ features = {} /\ notifyOff = 0 /\ asked = {} /\ wrong = FALSE
    /\ phase = "new"

\* negotiate of each transport: the outcome, and the bit the device leaves set
FeaturesOkMMIO == IF accept THEN {"FeaturesOk"} ELSE {}
FeaturesOkPCI == IF accept THEN {"FeaturesOk"} ELSE {}
FeaturesOkLegacy == {}

\* reset, acknowledge, negotiate; an error if the device refuses the features
Handshake(wanted, ok, failed) ==
    /\ asked' = wanted
    /\ features' = negotiate(Visible(offered), wanted)
    /\ dfeatures' = Visible(features')
    /\ status' = {"Acknowledge", "Driver"} \cup ok
    /\ phase' = IF failed THEN "failed" ELSE "init"
    /\ qaddr' = [q \in Queues |-> None] /\ qvector' = [q \in Queues |-> None]
    /\ qsel' = 0 /\ notified' = {}
    /\ UNCHANGED <<transport, valid, offered, accept, msix, routed, notifyOff, wrong>>

InitMMIO(wanted) ==
    transport = "mmio" /\ valid /\ Handshake(wanted, FeaturesOkMMIO, FeaturesOkMMIO = {})

\* mutant: the answer of the device is not looked at
InitPCIAnyway(wanted) ==
    transport = "pci" /\ valid /\ Handshake(wanted, FeaturesOkPCI \cup {"FeaturesOk"}, FALSE)

InitPCI(wanted) ==
    transport = "pci" /\ valid /\ Handshake(wanted, FeaturesOkPCI, FeaturesOkPCI = {})

\* a legacy device has no way to refuse
InitLegacy(wanted) ==
    transport = "legacy" /\ valid /\ Handshake(wanted, FeaturesOkLegacy, FALSE)

\* the wrong magic, version or revision, or no such capability: Init returns an
\* error before the reset
InitInvalid ==
    /\ ~valid
    /\ phase' = "failed"
    /\ UNCHANGED <<dev, irq, features, notifyOff, asked, wrong>>

\* QueueReady and MaxQueueSize read registers of the selected queue,
\* SetQueueSize writes one, except on legacy devices where it does nothing
ReadQueue(q) ==
    /\ phase \in {"init", "ready"}
    /\ qsel' = q
    /\ UNCHANGED <<transport, valid, offered, accept, status, dfeatures, qaddr, irq, notified,
                   features, notifyOff, asked, wrong, phase>>

\* SetQueue: the areas of the queue are written and it is enabled; queue q has
\* its areas at address q
SetQueue(q) ==
    /\ phase = "init"
    /\ qsel' = q
    /\ qaddr' = [qaddr EXCEPT ![qsel'] = q]
    /\ UNCHANGED <<transport, valid, offered, accept, status, dfeatures, irq, notified,
                   features, notifyOff, asked, wrong, phase>>

\* EnableInterrupt: the id is written to MSI-X entry 0, which the queue is then
\* given; MMIO has no MSI-X
EnableInterrupt(q, id) ==
    /\ transport # "mmio" /\ phase \in {"init", "ready"}
    /\ msix' = id
    /\ qsel' = q
    /\ qvector' = [qvector EXCEPT ![qsel'] = 0]
    /\ routed' = [routed EXCEPT ![q] = id]
    /\ UNCHANGED <<transport, valid, offered, accept, status, dfeatures, qaddr, notified,
                   features, notifyOff, asked, wrong, phase>>

\* SetReady; PCI also reads the notification offset of the selected queue,
\* which is its index
SetReady ==
    /\ phase = "init"
    /\ notifyOff' = IF transport = "pci" THEN qsel ELSE notifyOff
    /\ status' = status \cup {"DriverOk"}
    /\ phase' = "ready"
    /\ UNCHANGED <<transport, valid, offered, accept, dfeatures, qsel, qaddr, irq, notified,
                   features, asked, wrong>>

\* The queue that QueueNotify reaches.  MMIO and legacy devices have one register
\* that takes the index; PCI ones have an address for each queue, computed as
\* index * offset * multiplier with the one offset read in SetReady.
NotifyMMIO(q) == q
NotifyLegacy(q) == q
NotifyPCI(q) == q * notifyOff
NotifyTarget(q) ==
    CASE transport = "mmio" -> NotifyMMIO(q)
      [] transport = "pci" -> NotifyPCI(q)
      [] transport = "legacy" -> NotifyLegacy(q)

QueueNotify(q) ==
    /\ phase = "ready" /\ qaddr[q] # None
    /\ notified' = notified \cup {NotifyTarget(q)}
    /\ wrong' = (wrong \/ NotifyTarget(q) # q)
    /\ UNCHANGED <<transport, valid, offered, accept, status, dfeatures, qsel, qaddr, irq,
                   features, notifyOff, asked, phase>>

Next ==
    \/ \E wanted \in Wanted : InitMMIO(wanted) \/ InitPCI(wanted) \/ InitLegacy(wanted)
    \/ InitInvalid
    \/ \E q \in Queues : \/ ReadQueue(q) \/ SetQueue(q) \/ QueueNotify(q)
                         \/ \E id \in MsixIDs : EnableInterrupt(q, id)
    \/ SetReady

Spec == Init /\ [][Next]_vars

-----------------------------------------------------------------------------

\* Driver and device agree on the features, never more than both sides want nor
\* one the driver cannot handle; a device is only told that the driver is ready
\* when all earlier steps of the handshake are in force, and one that is not
\* what it should be or refuses the features is never driven.
Negotiated ==
    /\ dfeatures = features
    /\ features \subseteq (offered \cap asked) \ {"packed", "notifdata"}
    /\ "DriverOk" \in status =>
         /\ {"Acknowledge", "Driver"} \subseteq status
         /\ transport # "legacy" => accept /\ "FeaturesOk" \in status
    /\ notified # {} => "DriverOk" \in status /\ valid

=============================================================================
