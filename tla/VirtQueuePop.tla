---------------------------- MODULE VirtQueuePop ----------------------------
(***************************************************************************)
(* A VirtIO split queue of device-writable buffers (kvm/virtio/queue.go    *)
(* with flags Write): the device fills available buffers and returns them  *)
(* in the used ring, in any order; Pop copies the next used buffer out and *)
(* makes it available again.                                               *)
(*                                                                         *)
(* avail, used, last and taken are unbounded counts; the rings hold U16 of *)
(* them.  The data in a buffer is the number of its completion.            *)
(***************************************************************************)
EXTENDS Integers, FiniteSets

CONSTANTS
    PopSize,       \* queue size
    PopIndexMod,   \* 2^16, the range of the ring indices
    Large,      \* completions that do not fit the buffer of a small Pop
    MaxUsed     \* bound: buffers the device completes

\* the size of a split queue is a power of two
ASSUME PopAssumption ==
    /\ PopSize \in Nat \ {0}
    /\ PopIndexMod \in Nat
    /\ \E q \in 2 .. PopIndexMod : PopIndexMod = PopSize * q
    /\ Large \subseteq Nat
    /\ MaxUsed \in Nat

Slots == 0 .. PopSize - 1      \* ring positions, and descriptors
U16(x) == x % PopIndexMod
None == -1

VARIABLES
    popAvail,      \* Available.index
    popAring,      \* Available ring: the descriptor at each position
    last,       \* Used.last
    popBuf,        \* data in each descriptor's buffer
    popPc,         \* where Pop is
    id,         \* the descriptor Pop is at
    popGot,        \* what Pop copied
    toosmall,   \* Pop returned an error
    popTaken,      \* device: available entries it has read
    popHolds,      \* device: descriptors it has read and not returned
    popUsed,       \* Used.index
    uring       \* Used ring: the descriptor at each position

driver == <<popAvail, popAring, last, popPc, id, popGot, toosmall>>
device == <<popTaken, popHolds, popUsed, uring, popBuf>>
popVars == <<driver, device>>

\* VirtualQueue.Init: all buffers are immediately available
PopInit ==
    /\ popAvail = PopSize
    /\ popAring = [s \in Slots |-> s]
    /\ last = 0
    /\ popBuf = [s \in Slots |-> None]
    /\ popPc = "idle" /\ id = 0 /\ popGot = None /\ toosmall = FALSE
    /\ popTaken = 0 /\ popHolds = {} /\ popUsed = 0
    /\ uring = [s \in Slots |-> 0]

\* mutant: an empty ring is not noticed
CheckUsedEmpty(small) ==
    /\ popPc = "idle"
    /\ id' = uring[U16(last) % PopSize]
    /\ toosmall' = (small /\ last \in Large)
    /\ popPc' = IF toosmall' THEN "idle" ELSE "copy"
    /\ UNCHANGED <<popAvail, popAring, last, popGot, device>>

\* Pop finds the next used buffer, unless there is none or it is too large for
\* the caller's
CheckUsed(small) ==
    /\ popPc = "idle"
    /\ U16(popUsed) # U16(last)
    /\ id' = uring[U16(last) % PopSize]
    /\ toosmall' = (small /\ last \in Large)
    /\ popPc' = IF toosmall' THEN "idle" ELSE "copy"
    /\ UNCHANGED <<popAvail, popAring, last, popGot, device>>

\* ... copies it ...
Read ==
    /\ popPc = "copy"
    /\ popGot' = popBuf[id]
    /\ popPc' = "offer"
    /\ UNCHANGED <<popAvail, popAring, last, id, toosmall, device>>

\* ... and offers it again: first the ring entry ...
SetRingIndex ==
    /\ popPc = "offer"
    /\ popAring' = [popAring EXCEPT ![U16(popAvail) % PopSize] = id]
    /\ popPc' = "index"
    /\ UNCHANGED <<popAvail, last, id, popGot, toosmall, device>>

\* mutant: the index moves past an entry that was not written
SetIndexTwo ==
    /\ popPc = "index"
    /\ popAvail' = popAvail + 2
    /\ last' = last + 1
    /\ popPc' = "idle"
    /\ UNCHANGED <<popAring, id, popGot, toosmall, device>>

\* ... then the index
SetIndex ==
    /\ popPc = "index"
    /\ popAvail' = popAvail + 1
    /\ last' = last + 1
    /\ popPc' = "idle"
    /\ UNCHANGED <<popAring, id, popGot, toosmall, device>>

Pop == (\E small \in BOOLEAN : CheckUsed(small)) \/ Read \/ SetRingIndex \/ SetIndex

\* the device reads an available entry ...
PopTake ==
    /\ U16(popTaken) # U16(popAvail)
    /\ popHolds' = popHolds \cup {popAring[popTaken % PopSize]}
    /\ popTaken' = popTaken + 1
    /\ UNCHANGED <<driver, popUsed, uring, popBuf>>

\* ... fills a buffer it has and returns it
Complete ==
    /\ popUsed < MaxUsed
    /\ \E d \in popHolds :
         /\ popBuf' = [popBuf EXCEPT ![d] = popUsed]
         /\ uring' = [uring EXCEPT ![popUsed % PopSize] = d]
         /\ popHolds' = popHolds \ {d}
    /\ popUsed' = popUsed + 1
    /\ UNCHANGED <<driver, popTaken>>

PopNext == Pop \/ PopTake \/ Complete

\* the caller polls, with a buffer that is large enough
PopSpec == /\ PopInit /\ [][PopNext]_popVars
        /\ WF_popVars(CheckUsed(FALSE) \/ Read \/ SetRingIndex \/ SetIndex)

-----------------------------------------------------------------------------

\* The descriptor of an available entry, and of a used one, by its count.
Offer(k) == popAring[k % PopSize]
Return(k) == uring[k % PopSize]
PopOffered(k) == popTaken <= k /\ k < popAvail
Returned(k) == last <= k /\ k < popUsed

PopTypeOK ==
    /\ popAvail \in Nat /\ last \in Nat /\ popTaken \in Nat /\ popUsed \in Nat
    /\ popAring \in [Slots -> Slots] /\ uring \in [Slots -> Slots]
    /\ popBuf \in [Slots -> Nat \cup {None}]
    /\ popPc \in {"idle", "copy", "offer", "index"}
    /\ id \in Slots /\ popGot \in Nat \cup {None} /\ toosmall \in BOOLEAN
    /\ popHolds \subseteq Slots

\* Every descriptor is in one place: on offer, with the device, or returned;
\* no entry of the available ring is overwritten before the device reads it,
\* no descriptor is offered twice and none is lost, whatever order the device
\* returns them in.
OnePlace ==
    /\ popAvail = last + PopSize
    /\ last <= popUsed /\ popUsed <= popTaken /\ popTaken <= popAvail
    /\ Cardinality(popHolds) = popTaken - popUsed
    /\ \A j, k \in 0 .. popAvail :
         /\ PopOffered(j) /\ PopOffered(k) /\ j # k => Offer(j) # Offer(k)
         /\ Returned(j) /\ Returned(k) /\ j # k => Return(j) # Return(k)
         /\ PopOffered(j) /\ Returned(k) => Offer(j) # Return(k)
         /\ PopOffered(j) => Offer(j) \notin popHolds
         /\ Returned(k) => Return(k) \notin popHolds

\* The data Pop returns is that of the next completion, and the device does
\* not write to the buffer while it is copied.
PopInOrder == popPc \in {"offer", "index"} => popGot = last

=============================================================================
