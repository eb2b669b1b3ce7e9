----------------------------- MODULE GveQueues ------------------------------
(***************************************************************************)
(* The receive ring of the Google Virtual NIC driver (kvm/gvnic/queue.go,  *)
(* gve.go) and the device that fills it.                                   *)
(*                                                                         *)
(* The driver finds new frames by a sequence number in 1..7 that the       *)
(* device writes in each descriptor; nothing clears a consumed descriptor, *)
(* so what tells a new one from the one of the previous lap is the number  *)
(* alone.  Frames are the naturals, in the order the device delivers them. *)
(* cnt and fill are unbounded counts here; the code holds U32 of them.     *)
(*                                                                         *)
(* The transmit ring (gve.go Transmit, queue.go txQueue) and the device    *)
(* that drains it.  A frame is copied to the page head % Pages of the      *)
(* queue page list and described in the slot head % TxSize; the device     *)
(* says how many it is done with in a counter it writes to memory.  Frames *)
(* are numbered by the value of head when they are sent; head and done are *)
(* unbounded counts, too.                                                  *)
(***************************************************************************)
EXTENDS Integers

CONSTANTS
    RxSize,           \* RxQueueEntries
    RxCounterMod,     \* 2^32, the range of the driver's uint32 counters
    Runts,          \* frames whose length is not more than rxPadLen
    RxMaxFrames       \* bound: frames the device delivers

RxSlots == 0 .. RxSize - 1
RxU32(x) == x % RxCounterMod
flagsMask == 7

\* RingSize is a power of two for this device, so that the slot index survives
\* the wrap of the counter, and no power of two is a multiple of 7
ASSUME RxAssumption ==
    /\ RxSize \in Nat \ {0}
    /\ RxCounterMod \in Nat
    /\ \E q \in 2 .. RxCounterMod : RxCounterMod = RxSize * q
    /\ RxSize % flagsMask # 0
    /\ Runts \subseteq Nat
    /\ RxMaxFrames \in Nat

RxNone == -1

VARIABLES
    rxCnt,        \* rxQueue.cnt: frames consumed
    fill,       \* rxQueue.fill: buffers posted
    seqno,      \* rxQueue.seqno
    rxDoorbell,   \* the device's doorbell register
    produced,   \* frames the device has delivered
    rxDesc,       \* descriptor ring: sequence number, and the frame whose length it has
    page,       \* buffer of each slot: the frame in it
    rxPc,         \* where Receive is
    got         \* what Receive has read: the length field, and the data

rxVars == <<rxCnt, fill, seqno, rxDoorbell, produced, rxDesc, page, rxPc, got>>

\* initRxQueue
RxInit ==
    /\ rxCnt = 0 /\ fill = RxSize /\ seqno = 1
    /\ rxDoorbell = RxU32(RxSize)
    /\ produced = 0
    /\ rxDesc = [s \in RxSlots |-> [seq |-> 0, len |-> RxNone]]
    /\ page = [s \in RxSlots |-> RxNone]
    /\ rxPc = "idle"
    /\ got = [len |-> RxNone, frame |-> RxNone]

\* the device puts a frame in the next buffer the driver posted
Deliver ==
    /\ produced < RxMaxFrames
    /\ RxU32(produced) # rxDoorbell
    /\ LET slot == produced % RxSize
       IN  /\ page' = [page EXCEPT ![slot] = produced]
           /\ rxDesc' = [rxDesc EXCEPT ![slot] =
                          [seq |-> (produced % flagsMask) + 1, len |-> produced]]
    /\ produced' = produced + 1
    /\ UNCHANGED <<rxCnt, fill, seqno, rxDoorbell, rxPc, got>>

rxIdx == RxU32(rxCnt) % RxSize

\* Receive reads the length first ...
ReadLen ==
    /\ rxPc = "idle"
    /\ got' = [got EXCEPT !.len = rxDesc[rxIdx].len]
    /\ rxPc' = "seq"
    /\ UNCHANGED <<rxCnt, fill, seqno, rxDoorbell, produced, rxDesc, page>>

\* mutant: any descriptor that was ever written is taken for a new one
CheckSeqNonZero ==
    /\ rxPc = "seq"
    /\ rxPc' = IF rxDesc[rxIdx].seq # 0 THEN "copy" ELSE "idle"
    /\ UNCHANGED <<rxCnt, fill, seqno, rxDoorbell, produced, rxDesc, page, got>>

\* mutant: the last sequence number is not taken for a valid one
CheckSeqShort ==
    /\ rxPc = "seq"
    /\ rxPc' = IF rxDesc[rxIdx].seq = seqno /\ seqno < flagsMask THEN "copy" ELSE "idle"
    /\ UNCHANGED <<rxCnt, fill, seqno, rxDoorbell, produced, rxDesc, page, got>>

\* ... and then the sequence number; a mismatch means there is no frame yet
CheckSeq ==
    /\ rxPc = "seq"
    /\ rxPc' = IF rxDesc[rxIdx].seq = seqno THEN "copy" ELSE "idle"
    /\ UNCHANGED <<rxCnt, fill, seqno, rxDoorbell, produced, rxDesc, page, got>>

\* the data is copied out, unless the length says there is none
Copy ==
    /\ rxPc = "copy"
    /\ got' = [got EXCEPT !.frame =
                 IF got.len = RxNone \/ got.len \in Runts THEN RxNone ELSE page[rxIdx]]
    /\ rxPc' = "next"
    /\ UNCHANGED <<rxCnt, fill, seqno, rxDoorbell, produced, rxDesc, page>>

\* mutant: buffers are posted again one frame too early
RecycleEarly ==
    /\ fill' = IF RxU32(fill - (rxCnt + 1)) > RxSize \div 2 THEN fill
               ELSE rxCnt + 1 + RxSize + 1
    /\ rxDoorbell' = RxU32(fill')

\* when half of the posted buffers is drained the consumed ones are posted
Recycle ==
    /\ fill' = IF RxU32(fill - (rxCnt + 1)) > RxSize \div 2 THEN fill
               ELSE rxCnt + 1 + RxSize
    /\ rxDoorbell' = RxU32(fill')

\* rxQueue.next, deferred to the end of Receive
Advance ==
    /\ rxPc = "next"
    /\ rxCnt' = rxCnt + 1
    /\ seqno' = IF seqno = flagsMask THEN 1 ELSE seqno + 1
    /\ Recycle
    /\ rxPc' = "idle"
    /\ got' = [len |-> RxNone, frame |-> RxNone]
    /\ UNCHANGED <<produced, rxDesc, page>>

Receive == ReadLen \/ CheckSeq \/ Copy \/ Advance

RxNext == Deliver \/ Receive

\* the network stack polls Receive (or is woken for each interrupt) for ever;
\* the device is under no obligation
RxSpec == RxInit /\ [][RxNext]_rxVars /\ WF_rxVars(Receive)

-----------------------------------------------------------------------------

RxTypeOK ==
    /\ rxCnt \in Nat /\ fill \in Nat /\ produced \in Nat
    /\ seqno \in 1 .. flagsMask
    /\ rxDoorbell \in Nat
    /\ rxDesc \in [RxSlots -> [seq : 0 .. flagsMask, len : Nat \cup {RxNone}]]
    /\ page \in [RxSlots -> Nat \cup {RxNone}]
    /\ rxPc \in {"idle", "seq", "copy", "next"}
    /\ got \in [len : Nat \cup {RxNone}, frame : Nat \cup {RxNone}]

\* Receive takes a descriptor only when the device has written it since the
\* slot was last consumed: the 3-bit sequence number is never matched by what
\* an earlier lap left in the ring.
NoStaleFrame == rxPc \in {"copy", "next"} => rxCnt < produced

\* The data Receive returns, if any, is that of the next frame in order: it is
\* never one already returned or a later one, and the device does not overwrite
\* it while it is being copied.
InOrder == rxPc = "next" => got.frame \in {rxCnt, RxNone}

\* The device always has a buffer posted when the driver is drained, so the
\* ring cannot come to a stop with both sides waiting.
Posted == RxU32(rxDoorbell - rxCnt) > RxSize \div 2

\* Every frame the device delivers is consumed, as long as Receive is called: the
\* driver consumes for ever, or comes to stand where nothing is left to consume.
Drained == []<><<rxCnt' = rxCnt + 1>>_rxCnt \/ <>[](rxCnt = produced)

\* "Receive receives a single Ethernet frame": a frame that has data is returned
\* with its own length and data.
FrameWhole == rxPc = "next" /\ rxCnt \notin Runts => got = [len |-> rxCnt, frame |-> rxCnt]

-----------------------------------------------------------------------------
(* The transmit ring.                                                     *)

CONSTANTS
    TxSize,           \* TxQueueEntries
    Pages,          \* TxPagesPerQpl
    TxCounterMod,     \* 2^32, the range of the driver's uint32 counters
    TxMaxFrames       \* bound: frames that are sent

\* both sizes the device reports divide the range of the counter: the slot and
\* the page indices have no jump where it wraps
ASSUME TxAssumption ==
    /\ TxSize \in Nat \ {0} /\ Pages \in Nat \ {0}
    /\ TxCounterMod \in Nat \ {0}
    /\ \E q \in 2 .. TxCounterMod : TxCounterMod = TxSize * q
    /\ \E q \in 2 .. TxCounterMod : TxCounterMod = Pages * q
    /\ TxMaxFrames \in Nat

TxSlots == 0 .. TxSize - 1
PageIds == 0 .. Pages - 1
TxU32(x) == x % TxCounterMod
TxNone == -1

VARIABLES
    head,       \* txQueue.head: frames queued
    inflight,   \* frames in flight, as Transmit computed it
    txPc,         \* where Transmit is
    full,       \* Transmit returned "tx queue full"
    qpl,        \* the frame in each page
    txDesc,       \* the page each descriptor points at
    txDoorbell,   \* the device's doorbell register
    fetched,    \* device: descriptors it has read
    pending,    \* device: the pages of the descriptors it has read and not sent
    done,       \* device: frames it has sent
    counter,    \* the event counter the device writes, as of the last flush
    wire        \* the last frame that went out

txDriver == <<head, inflight, txPc, full, qpl, txDesc, txDoorbell>>
txDevice == <<fetched, pending, done, counter, wire>>
txVars == <<txDriver, txDevice>>

\* initTxQueue
TxInit ==
    /\ head = 0 /\ inflight = 0 /\ txPc = "idle" /\ full = FALSE
    /\ qpl = [p \in PageIds |-> TxNone]
    /\ txDesc = [s \in TxSlots |-> 0]
    /\ txDoorbell = 0
    /\ fetched = 0 /\ pending = [s \in TxSlots |-> TxNone] /\ done = 0 /\ counter = 0
    /\ wire = TxNone

txIdx == TxU32(head) % TxSize
qplOff == TxU32(head) % Pages

\* mutant: one frame more than there are pages
CheckRoomPages ==
    /\ txPc = "idle"
    /\ inflight' = TxU32(head - counter)
    /\ IF inflight' >= TxSize \/ inflight' > Pages
         THEN full' = TRUE /\ txPc' = "idle"
         ELSE full' = FALSE /\ txPc' = "copy"
    /\ UNCHANGED <<head, qpl, txDesc, txDoorbell, txDevice>>

\* Transmit reads the event counter and returns if the ring is full ...
CheckRoom ==
    /\ txPc = "idle"
    /\ inflight' = TxU32(head - counter)
    /\ IF inflight' >= TxSize \/ inflight' >= Pages
         THEN full' = TRUE /\ txPc' = "idle"
         ELSE full' = FALSE /\ txPc' = "copy"
    /\ UNCHANGED <<head, qpl, txDesc, txDoorbell, txDevice>>

\* ... copies the frame ...
CopyFrame ==
    /\ txPc = "copy"
    /\ qpl' = [qpl EXCEPT ![qplOff] = head]
    /\ txPc' = "desc"
    /\ UNCHANGED <<head, inflight, full, txDesc, txDoorbell, txDevice>>

\* ... fills the descriptor ...
FillDesc ==
    /\ txPc = "desc"
    /\ txDesc' = [txDesc EXCEPT ![txIdx] = qplOff]
    /\ txPc' = "ring"
    /\ UNCHANGED <<head, inflight, full, qpl, txDoorbell, txDevice>>

\* ... and rings the doorbell: txQueue.next
Ring ==
    /\ txPc = "ring"
    /\ head' = head + 1
    /\ txDoorbell' = TxU32(head')
    /\ txPc' = "idle"
    /\ UNCHANGED <<inflight, full, qpl, txDesc, txDevice>>

Transmit ==
    \/ head < TxMaxFrames /\ CheckRoom
    \/ CopyFrame
    \/ FillDesc
    \/ Ring

\* the device reads the next descriptor ...
Fetch ==
    /\ TxU32(fetched) # txDoorbell
    /\ pending' = [pending EXCEPT ![fetched % TxSize] = txDesc[fetched % TxSize]]
    /\ fetched' = fetched + 1
    /\ UNCHANGED <<txDriver, done, counter, wire>>

\* ... sends the oldest frame it has read the descriptor of ...
Send ==
    /\ done < fetched
    /\ wire' = qpl[pending[done % TxSize]]
    /\ done' = done + 1
    /\ UNCHANGED <<txDriver, fetched, pending, counter>>

\* ... and tells how many it has sent
Report ==
    /\ counter # TxU32(done)
    /\ counter' = TxU32(done)
    /\ UNCHANGED <<txDriver, fetched, pending, done, wire>>

TxNext == Transmit \/ Fetch \/ Send \/ Report

\* Transmit runs to its end and is called again; the device drains the ring
TxSpec ==
    /\ TxInit /\ [][TxNext]_txVars
    /\ WF_txVars(Transmit) /\ WF_txVars(Fetch) /\ WF_txVars(Send) /\ WF_txVars(Report)

-----------------------------------------------------------------------------

TxTypeOK ==
    /\ head \in Nat /\ inflight \in Nat
    /\ txPc \in {"idle", "copy", "desc", "ring"}
    /\ full \in BOOLEAN
    /\ qpl \in [PageIds -> Nat \cup {TxNone}]
    /\ txDesc \in [TxSlots -> PageIds]
    /\ txDoorbell \in Nat
    /\ fetched \in Nat /\ done \in Nat /\ counter \in Nat
    /\ pending \in [TxSlots -> PageIds \cup {TxNone}]
    /\ wire \in Nat \cup {TxNone}

\* What goes out is what was queued, in order: neither the page nor the
\* descriptor of a frame is reused before the device is done with it, across
\* the wrap of the counter too.
SentIntact == done > 0 => wire = done - 1

\* There is never more in flight than there are descriptors and pages, however
\* old the counter value is that Transmit decided on.
RingBound == head - done <= TxSize /\ head - done <= Pages

=============================================================================
