---------------------------- MODULE VirtQueuePush ---------------------------
(***************************************************************************)
(* A VirtIO split queue of device-readable buffers (kvm/virtio/queue.go    *)
(* without flag Write): Push fills the next buffer in turn and makes it    *)
(* available; the device reads it and counts it in the used index.         *)
(*                                                                         *)
(* Push does not look at the used ring.  That its caller has no more than  *)
(* Size buffers in flight, and that the device returns buffers in order,   *)
(* are assumptions on the two sides, stated as guards of PushBegin and     *)
(* Send.  A frame, its data and its length are its number.                 *)
(***************************************************************************)
EXTENDS DmaHeap, Sequences, FiniteSets

CONSTANTS
    PushSize,       \* queue size
    PushIndexMod,   \* 2^16, the range of the ring indices
    OffsetMod,  \* 2^16, the range of the byte offset of a descriptor
    MaxFrames   \* bound: frames that are pushed

PushSlots == 0 .. PushSize - 1      \* ring positions, and descriptors
PushU16(x) == x % PushIndexMod
NoFrame == -1
descSize == 16              \* bytes of a descriptor
lenOffset == 8              \* of its length field

VARIABLES
    pushAvail,      \* Available.index
    pushAring,      \* Available ring
    pushBuf,        \* data in each descriptor's buffer
    len,        \* length field of each descriptor in memory
    pushPc, index,  \* where Push is, and the descriptor it is at
    pushTaken,      \* device: entries it has read
    pushHolds,      \* device: entries it has read and not sent: number and descriptor
    pushUsed,       \* Used.index
    sent        \* device: the last frame sent: its number, the data and length found

pushDriver == <<pushAvail, pushAring, pushBuf, len, pushPc, index>>
pushDevice == <<pushTaken, pushHolds, pushUsed, sent>>
pushVars == <<pushDriver, pushDevice>>

\* VirtualQueue.PushInit
PushInit ==
    /\ pushAvail = 0
    /\ pushAring = [s \in PushSlots |-> s]
    /\ pushBuf = [s \in PushSlots |-> NoFrame] /\ len = [s \in PushSlots |-> NoFrame]
    /\ pushPc = "idle" /\ index = 0
    /\ pushTaken = 0 /\ pushHolds = {} /\ pushUsed = 0
    /\ sent = [n |-> 0, data |-> 0, len |-> 0]

\* Push takes the descriptor the ring has at the next position
PushBegin ==
    /\ pushPc = "idle"
    /\ pushAvail < MaxFrames
    /\ pushAvail - pushUsed < PushSize
    /\ index' = pushAring[PushU16(pushAvail) % PushSize]
    /\ pushPc' = "len"
    /\ UNCHANGED <<pushAvail, pushAring, pushBuf, len, pushDevice>>

\* the descriptors whose length field is at a byte offset
AtOffset(off) == {d \in PushSlots : lenOffset + d * descSize = off}

\* ... writes its length field, at an offset computed in 16 bits ...
PutLength ==
    /\ pushPc = "len"
    /\ LET off == (lenOffset + index * descSize) % OffsetMod
       IN  len' = [d \in PushSlots |-> IF d \in AtOffset(off) THEN pushAvail ELSE len[d]]
    /\ pushPc' = "data"
    /\ UNCHANGED <<pushAvail, pushAring, pushBuf, index, pushDevice>>

\* mutant: the data goes to the next descriptor's buffer
WriteDataNext ==
    /\ pushPc = "data"
    /\ pushBuf' = [pushBuf EXCEPT ![(index + 1) % PushSize] = pushAvail]
    /\ pushPc' = "offer"
    /\ UNCHANGED <<pushAvail, pushAring, len, index, pushDevice>>

\* ... its data ...
WriteData ==
    /\ pushPc = "data"
    /\ pushBuf' = [pushBuf EXCEPT ![index] = pushAvail]
    /\ pushPc' = "offer"
    /\ UNCHANGED <<pushAvail, pushAring, len, index, pushDevice>>

\* ... the ring entry ...
PushOffer ==
    /\ pushPc = "offer"
    /\ pushAring' = [pushAring EXCEPT ![PushU16(pushAvail) % PushSize] = index]
    /\ pushPc' = "index"
    /\ UNCHANGED <<pushAvail, pushBuf, len, index, pushDevice>>

\* ... and the index
PushIndex ==
    /\ pushPc = "index"
    /\ pushAvail' = pushAvail + 1
    /\ pushPc' = "idle"
    /\ UNCHANGED <<pushAring, pushBuf, len, index, pushDevice>>

Push == PushBegin \/ PutLength \/ WriteData \/ PushOffer \/ PushIndex

\* the device reads an available entry ...
PushFetch ==
    /\ PushU16(pushTaken) # PushU16(pushAvail)
    /\ pushHolds' = pushHolds \cup {[n |-> pushTaken, desc |-> pushAring[pushTaken % PushSize]]}
    /\ pushTaken' = pushTaken + 1
    /\ UNCHANGED <<pushDriver, pushUsed, sent>>

\* ... and sends the oldest one it has
PushSend ==
    /\ \E h \in pushHolds :
         /\ \A g \in pushHolds : h.n <= g.n
         /\ sent' = [n |-> h.n, data |-> pushBuf[h.desc], len |-> len[h.desc]]
         /\ pushHolds' = pushHolds \ {h}
    /\ pushUsed' = pushUsed + 1
    /\ UNCHANGED <<pushDriver, pushTaken>>

PushNext == Push \/ PushFetch \/ PushSend

PushSpec == PushInit /\ [][PushNext]_pushVars

-----------------------------------------------------------------------------

\* Frames go out in the order they were pushed, each with its own data and
\* length: the buffer of a frame in flight is not filled again, and no entry is
\* offered before it is complete.
FramesIntact == sent.data = sent.n /\ sent.len = sent.n

-----------------------------------------------------------------------------
(***************************************************************************)
(* The memory of a VirtIO queue (kvm/virtio/queue.go Init and Destroy) in  *)
(* a DMA region it shares with another goroutine: one buffer is reserved   *)
(* for all descriptors, each descriptor holds the address of its slice,    *)
(* and Destroy releases the address of every descriptor.  Each call into   *)
(* the region is a step of its own: Destroy holds no lock.                 *)
(***************************************************************************)

CONSTANTS
    N,          \* queue size
    Length,     \* bytes of a descriptor buffer
    TableSize,  \* bytes of the descriptor table and the rings
    Foreign,    \* sizes another goroutine may reserve
    MaxForeign, \* bound: buffers the other goroutine holds
    MaxInits    \* bound: calls of Init

VARIABLES
    pc,         \* where Init or Destroy is
    descs,      \* VirtualQueue.Descriptors: their addresses
    base,       \* address of the buffer that Init reserved for them
    table,      \* VirtualQueue.desc
    i,          \* the descriptor Destroy is at
    foreign,    \* addresses the other goroutine holds
    inits       \* calls of Init so far

queue == <<pc, descs, base, table, i, inits>>
lifeVars == <<used, failed, queue, foreign>>

LifeInit ==
    /\ Init
    /\ pc = "none" /\ descs = << >> /\ base = 0 /\ table = 0 /\ i = 1
    /\ foreign = {} /\ inits = 0

\* the address a request was placed at
Placed == CHOOSE a \in DOMAIN used' \ DOMAIN used : TRUE

\* mutant: the slices are counted from 1
InitBuffersShift ==
    /\ pc = "none" /\ inits < MaxInits
    /\ Take(N * Length, Word, TRUE)
    /\ IF failed' THEN UNCHANGED <<queue, foreign>>
       ELSE /\ base' = Placed
            /\ descs' = descs \o [k \in 1 .. N |-> Placed + Length * k]
            /\ pc' = "table" /\ inits' = inits + 1
            /\ UNCHANGED <<table, i, foreign>>

\* Init reserves one buffer for all descriptors and appends them ...
InitBuffers ==
    /\ pc = "none" /\ inits < MaxInits
    /\ Take(N * Length, Word, TRUE)
    /\ IF failed' THEN UNCHANGED <<queue, foreign>>
       ELSE /\ base' = Placed
            /\ descs' = descs \o [k \in 1 .. N |-> Placed + Length * (k - 1)]
            /\ pc' = "table" /\ inits' = inits + 1
            /\ UNCHANGED <<table, i, foreign>>

\* ... and then one for the table
InitTable ==
    /\ pc = "table"
    /\ Take(TableSize, Word, TRUE)
    /\ ~failed'
    /\ table' = Placed /\ pc' = "up"
    /\ UNCHANGED <<descs, base, i, inits, foreign>>

DestroyBegin ==
    /\ pc = "up"
    /\ pc' = "descs" /\ i' = 1
    /\ UNCHANGED <<used, failed, descs, base, table, inits, foreign>>

\* Region.Release of an address: nothing happens if no reserved block is there
Release(a) == Give(a, TRUE)

\* Descriptor.Destroy of each descriptor in turn
DestroyDesc ==
    /\ pc = "descs" /\ i <= Len(descs)
    /\ Release(descs[i])
    /\ i' = i + 1
    /\ UNCHANGED <<pc, descs, base, table, inits, foreign>>

\* the table goes last; the list of descriptors is kept
DestroyTable ==
    /\ pc = "descs" /\ i > Len(descs)
    /\ Release(table)
    /\ pc' = "none"
    /\ UNCHANGED <<descs, base, table, i, inits, foreign>>

\* another goroutine
ForeignReserve ==
    \E n \in Foreign :
        /\ Cardinality(foreign) < MaxForeign
        /\ Take(n, Word, TRUE) /\ ~failed'
        /\ foreign' = foreign \cup {Placed}
        /\ UNCHANGED queue

ForeignRelease ==
    \E a \in foreign :
        /\ Release(a)
        /\ foreign' = foreign \ {a}
        /\ UNCHANGED queue

LifeNext ==
    \/ InitBuffers \/ InitTable
    \/ DestroyBegin \/ DestroyDesc \/ DestroyTable
    \/ ForeignReserve \/ ForeignRelease

LifeSpec == LifeInit /\ [][LifeNext]_lifeVars

-----------------------------------------------------------------------------

\* The descriptors of the last Init are slices of the buffer that it reserved.  A queue
\* that is up for the first time has memory of its own behind them and behind the table.
QueueBacked ==
    pc = "up" =>
        /\ \A k \in Len(descs) - N + 1 .. Len(descs) :
              Bytes(descs[k], Length) \subseteq Bytes(base, N * Length)
        /\ inits = 1 => /\ base \in DOMAIN used /\ used[base].size = N * Length
                        /\ table \in DOMAIN used /\ used[table].size = TableSize
                        /\ base \notin foreign /\ table \notin foreign

=============================================================================
