------------------------------- MODULE KvmProofs ------------------------------
(***************************************************************************)
(* Proofs about the queues of the KVM guest's devices.                     *)
(*                                                                         *)
(* GveQueues: the receive ring never takes a stale descriptor and returns  *)
(* the frames in order, for every ring size that is not a multiple of 7    *)
(* and divides the range of the counters; the transmit ring sends each     *)
(* frame once, in order and intact, for all sizes that divide that range.  *)
(*                                                                         *)
(* VirtQueuePop: the queue keeps every descriptor in exactly one place and *)
(* pops the completions in order, for every queue size and whatever order  *)
(* the device returns buffers in.                                          *)
(***************************************************************************)
EXTENDS FiniteSets, GveQueues, VirtQueuePop, ModFacts

\* What a slot holds: nothing yet, or the newest frame that was delivered to
\* it, which is one of the last Size frames.
SlotOK(s) ==
    \/ /\ page[s] = RxNone
       /\ rxDesc[s].seq = 0
       /\ s >= produced
    \/ /\ page[s] \in Nat
       /\ page[s] % RxSize = s
       /\ produced - RxSize <= page[s]
       /\ page[s] < produced
       /\ rxDesc[s].seq = (page[s] % flagsMask) + 1

\* The inductive invariant: the three counters are at most a lap apart, and
\* each slot holds what its position says.
RxIInv ==
    /\ RxTypeOK
    /\ rxDoorbell = RxU32(fill)
    /\ rxCnt <= produced /\ produced <= fill /\ fill <= rxCnt + RxSize
    /\ fill - rxCnt > RxSize \div 2
    /\ seqno = (rxCnt % flagsMask) + 1
    /\ \A s \in RxSlots : SlotOK(s)
    /\ NoStaleFrame
    /\ InOrder

\* Every proof below uses the assumption on the constants in this form.
LEMMA RxConsts ==
    /\ RxSize \in Nat \ {0}
    /\ RxCounterMod \in Nat \ {0}
    /\ RxCounterMod >= 2 * RxSize
    /\ RxSize % 7 # 0
    /\ \E q \in Nat \ {0} : RxCounterMod = RxSize * q
    /\ RxMaxFrames \in Nat
    /\ flagsMask = 7
<1>1. PICK q \in 2 .. RxCounterMod : RxCounterMod = RxSize * q
  BY RxAssumption
<1>2. PICK r \in Nat : q = 2 + r
  <2>1. q - 2 \in Nat /\ q = 2 + (q - 2)
    BY RxAssumption
  <2>2. QED BY <2>1
<1>3. RxSize * q = 2 * RxSize + RxSize * r /\ RxSize * r \in Nat
  BY <1>2, RxAssumption
<1>4. RxCounterMod >= 2 * RxSize
  BY <1>1, <1>3, RxAssumption
<1>5. q \in Nat \ {0} /\ RxCounterMod \in Nat \ {0}
  BY <1>4, RxAssumption
<1>6. QED BY <1>1, <1>4, <1>5, RxAssumption DEF flagsMask

\* The slot Receive reads is that of the count, across the wrap of the counter.
LEMMA IdxIsCnt ==
    ASSUME rxCnt \in Nat
    PROVE  rxIdx = rxCnt % RxSize /\ rxIdx \in RxSlots
<1>1. PICK q \in Nat \ {0} : RxCounterMod = RxSize * q
  BY RxConsts
<1>2. RxSize \in Nat \ {0} /\ RxCounterMod \in Nat \ {0} /\ rxCnt \in Int
  BY RxConsts
<1>3. (rxCnt % RxCounterMod) % RxSize = rxCnt % RxSize
  BY <1>1, <1>2, ModMod, Zenon
<1>4. rxCnt % RxSize \in 0 .. RxSize - 1
  BY <1>2, DivMod
<1>5. QED BY <1>1, <1>3, <1>4 DEF rxIdx, RxU32, RxSlots

\* The sequence number steps through 1..7 with the count.
LEMMA SeqStep ==
    ASSUME NEW k \in Nat
    PROVE  ((k + 1) % 7) + 1 = IF (k % 7) + 1 = 7 THEN 1 ELSE (k % 7) + 2
OBVIOUS

\* A frame one lap older than the count has another sequence number.
LEMMA LapSeq ==
    ASSUME NEW k \in Int
    PROVE  (k - RxSize) % 7 # k % 7
<1>1. PICK S \in Nat \ {0} : S = RxSize /\ S % 7 # 0
  BY RxConsts
<1>2. (k - S) % 7 # k % 7
  BY <1>1
<1>3. QED BY <1>1, <1>2

\* A new frame leaves the other slots as they should be.
LEMMA SlotsAfterDeliver ==
    ASSUME RxTypeOK, \A s \in RxSlots : SlotOK(s), Deliver
    PROVE  \A s \in RxSlots : SlotOK(s)'
<1> DEFINE slot == produced % RxSize
<1>1. /\ RxSize \in Nat \ {0} /\ produced \in Nat
      /\ page \in [RxSlots -> Nat \cup {RxNone}]
      /\ rxDesc \in [RxSlots -> [seq : 0 .. flagsMask, len : Nat \cup {RxNone}]]
  BY RxConsts DEF RxTypeOK
<1>2. slot \in RxSlots
  BY <1>1, DivMod DEF RxSlots
<1>3. /\ page' = [page EXCEPT ![slot] = produced]
      /\ rxDesc' = [rxDesc EXCEPT ![slot] =
                     [seq |-> (produced % flagsMask) + 1, len |-> produced]]
      /\ produced' = produced + 1
  BY DEF Deliver
<1>4. TAKE s \in RxSlots
<1>5. CASE s = slot
  <2>1. page'[s] = produced /\ rxDesc'[s].seq = (produced % flagsMask) + 1
    BY <1>1, <1>3, <1>5
  <2>2. QED BY <1>1, <1>3, <1>5, <2>1 DEF SlotOK
<1>6. CASE s # slot
  <2>1. page'[s] = page[s] /\ rxDesc'[s] = rxDesc[s]
    BY <1>1, <1>3, <1>6
  <2>2. SlotOK(s)
    OBVIOUS
  <2>3. CASE page[s] = RxNone /\ rxDesc[s].seq = 0 /\ s >= produced
    <3>1. s # produced
      <4>1. ASSUME s = produced PROVE produced % RxSize = produced
        <5>1. produced \in 0 .. RxSize - 1
          BY <4>1 DEF RxSlots
        <5>2. RxSize \in Nat \ {0}
          BY RxConsts
        <5>3. QED BY <5>1, <5>2, ModSmall
      <4>2. QED BY <1>6, <4>1
    <3>2. s >= produced + 1
      BY <1>1, <2>3, <3>1 DEF RxSlots
    <3>3. QED BY <1>3, <2>1, <2>3, <3>2 DEF SlotOK
  <2>4. CASE /\ page[s] \in Nat
             /\ page[s] % RxSize = s
             /\ produced - RxSize <= page[s]
             /\ page[s] < produced
             /\ rxDesc[s].seq = (page[s] % flagsMask) + 1
    <3>1. page[s] # produced - RxSize
      <4>0. produced \in Int
        BY <1>1
      <4>1. (produced - RxSize) % RxSize = produced % RxSize
        BY <1>1, <4>0, ModLap, Zenon
      <4>2. QED BY <1>6, <2>4, <4>1
    <3>2. produced + 1 - RxSize <= page[s]
      BY <1>1, <2>4, <3>1
    <3>3. QED BY <1>1, <1>3, <2>1, <2>4, <3>2 DEF SlotOK
  <2>5. QED BY <2>2, <2>3, <2>4 DEF SlotOK
<1>7. QED BY <1>5, <1>6

\* A descriptor with the expected sequence number is a new one.
LEMMA SeqIsNew ==
    ASSUME RxIInv, rxDesc[rxIdx].seq = seqno
    PROVE  rxCnt < produced
<1>1. /\ RxSize \in Nat \ {0} /\ rxCnt \in Nat /\ produced \in Nat
      /\ rxCnt <= produced
      /\ seqno = (rxCnt % 7) + 1
  BY RxConsts DEF RxIInv, RxTypeOK
<1>2. SUFFICES ASSUME rxCnt = produced PROVE FALSE
  BY <1>1
<1>3. rxIdx = rxCnt % RxSize /\ rxIdx \in RxSlots
  BY <1>1, IdxIsCnt
<1>4. PICK k \in Int : k = page[rxIdx] /\ k % RxSize = rxCnt % RxSize /\ rxCnt - RxSize <= k /\ k < rxCnt
                       /\ rxDesc[rxIdx].seq = (k % 7) + 1
  <2>1. SlotOK(rxIdx)
    BY <1>3 DEF RxIInv
  <2>2. rxDesc[rxIdx].seq # 0
    BY <1>1
  <2>3. QED BY <1>2, <1>3, <2>1, <2>2, RxConsts DEF SlotOK
<1>5. k = rxCnt - RxSize
  <2>1. k \in Int /\ rxCnt \in Int
    BY <1>1
  <2>2. QED BY <1>1, <1>4, <2>1, LapBack, Zenon
<1>6. (rxCnt - RxSize) % 7 # rxCnt % 7
  BY <1>1, LapSeq
<1>7. k % 7 = rxCnt % 7
  BY <1>1, <1>4
<1>8. QED BY <1>5, <1>6, <1>7

\* The page of an undelivered count holds that very frame.
LEMMA PageIsNext ==
    ASSUME RxIInv, rxCnt < produced
    PROVE  page[rxIdx] = rxCnt
<1>1. /\ RxSize \in Nat \ {0} /\ rxCnt \in Nat /\ produced \in Nat
      /\ produced <= rxCnt + RxSize
  BY RxConsts DEF RxIInv, RxTypeOK
<1>2. rxIdx = rxCnt % RxSize /\ rxIdx \in RxSlots
  BY <1>1, IdxIsCnt
<1>3. SlotOK(rxIdx)
  BY <1>2 DEF RxIInv
<1>4. ~(rxIdx >= produced)
  <2>1. rxCnt % RxSize <= rxCnt
    BY <1>1
  <2>2. QED BY <1>1, <1>2, <2>1 DEF RxSlots
<1>5. PICK k \in Nat : /\ k = page[rxIdx] /\ k % RxSize = rxCnt % RxSize
                       /\ produced - RxSize <= k /\ k < produced
  BY <1>2, <1>3, <1>4 DEF SlotOK
<1>6. produced - RxSize <= rxCnt /\ k \in Int /\ rxCnt \in Int /\ produced \in Int
  BY <1>1
<1>7. k = rxCnt
  BY <1>1, <1>5, <1>6, SameLap
<1>8. QED BY <1>5, <1>7

\* The empty ring satisfies the invariant.
LEMMA RxInitInv == RxInit => RxIInv
<1> SUFFICES ASSUME RxInit PROVE RxIInv
  OBVIOUS
<1>2. RxU32(RxSize) \in Nat
  BY RxConsts, DivMod DEF RxU32
<1>3. RxTypeOK
  BY <1>2, RxConsts DEF RxInit, RxTypeOK, RxNone
<1>4. \A s \in RxSlots : SlotOK(s)
  BY RxConsts DEF RxInit, SlotOK, RxSlots
<1>5. RxSize > RxSize \div 2 /\ seqno = (rxCnt % flagsMask) + 1
  BY RxConsts DEF RxInit
<1>6. QED BY <1>3, <1>4, <1>5, RxConsts DEF RxInit, RxIInv, NoStaleFrame, InOrder

\* Posting again moves fill to one lap ahead of the count.
LEMMA RecycleStep ==
    ASSUME RxIInv, rxPc = "next", Advance
    PROVE  /\ fill' \in Nat /\ rxDoorbell' = RxU32(fill')
           /\ rxCnt' \in Nat /\ rxCnt' = rxCnt + 1
           /\ produced <= fill' /\ fill' <= rxCnt' + RxSize
           /\ fill' - rxCnt' > RxSize \div 2
<1>1. /\ RxSize \in Nat \ {0} /\ RxCounterMod \in Nat \ {0} /\ RxCounterMod >= 2 * RxSize
      /\ rxCnt \in Nat /\ fill \in Nat /\ produced \in Nat
      /\ rxCnt < produced /\ produced <= fill /\ fill <= rxCnt + RxSize
  BY RxConsts DEF RxIInv, RxTypeOK, NoStaleFrame
<1>2. fill - (rxCnt + 1) \in 0 .. RxCounterMod - 1
  BY <1>1
<1>3. RxU32(fill - (rxCnt + 1)) = fill - (rxCnt + 1)
  BY <1>1, <1>2 DEF RxU32
<1>4. /\ rxCnt' = rxCnt + 1
      /\ rxDoorbell' = RxU32(fill')
      /\ fill' = IF fill - (rxCnt + 1) > RxSize \div 2 THEN fill ELSE rxCnt + 1 + RxSize
  BY <1>3 DEF Advance, Recycle
<1>5. RxSize > RxSize \div 2
  BY <1>1
<1>6. QED BY <1>1, <1>4, <1>5

\* Every step of the driver or the device keeps the invariant.
LEMMA RxStep == RxIInv /\ [RxNext]_rxVars => RxIInv'
<1> SUFFICES ASSUME RxIInv, [RxNext]_rxVars PROVE RxIInv'
  OBVIOUS
<1>2. CASE Deliver
  <2>1. RxTypeOK /\ produced \in Nat /\ fill \in Nat /\ RxSize \in Nat \ {0}
    BY RxConsts DEF RxIInv, RxTypeOK
  <2>2. \A s \in RxSlots : SlotOK(s)'
    BY <1>2, SlotsAfterDeliver DEF RxIInv
  <2>3. produced # fill
    BY <1>2 DEF Deliver, RxIInv
  <2>4. produced' = produced + 1 /\ UNCHANGED <<rxCnt, fill, seqno, rxDoorbell, rxPc, got>>
    BY <1>2 DEF Deliver
  <2>5. RxTypeOK'
    <3>1. produced % RxSize \in RxSlots
      BY <2>1, DivMod DEF RxSlots
    <3>2. (produced % flagsMask) + 1 \in 0 .. flagsMask
      BY <2>1, RxConsts
    <3>3. page' \in [RxSlots -> Nat \cup {RxNone}]
      BY <1>2, <2>1, <3>1 DEF Deliver, RxTypeOK
    <3>4. rxDesc' \in [RxSlots -> [seq : 0 .. flagsMask, len : Nat \cup {RxNone}]]
      BY <1>2, <2>1, <3>1, <3>2 DEF Deliver, RxTypeOK
    <3>5. QED BY <2>1, <2>4, <3>3, <3>4 DEF RxTypeOK
  <2>6. rxCnt \in Nat
    BY <2>1 DEF RxTypeOK
  <2>7. QED
    BY <2>1, <2>2, <2>3, <2>4, <2>5, <2>6 DEF RxIInv, NoStaleFrame, InOrder, RxU32
<1>3. CASE ReadLen
  <2>1. rxIdx \in RxSlots
    BY IdxIsCnt DEF RxIInv, RxTypeOK
  <2>2. RxTypeOK'
    BY <1>3, <2>1 DEF ReadLen, RxIInv, RxTypeOK
  <2>3. \A s \in RxSlots : SlotOK(s)'
    BY <1>3 DEF ReadLen, RxIInv, SlotOK
  <2>4. QED BY <1>3, <2>2, <2>3 DEF ReadLen, RxIInv, NoStaleFrame, InOrder, RxU32
<1>4. CASE CheckSeq
  <2>1. NoStaleFrame'
    BY <1>4, SeqIsNew DEF CheckSeq, NoStaleFrame
  <2>2. RxTypeOK'
    BY <1>4 DEF CheckSeq, RxIInv, RxTypeOK
  <2>3. \A s \in RxSlots : SlotOK(s)'
    BY <1>4 DEF CheckSeq, RxIInv, SlotOK
  <2>4. QED BY <1>4, <2>1, <2>2, <2>3 DEF CheckSeq, RxIInv, InOrder, RxU32
<1>5. CASE Copy
  <2>1. rxCnt < produced
    BY <1>5 DEF Copy, RxIInv, NoStaleFrame
  <2>2. page[rxIdx] = rxCnt /\ rxCnt \in Nat
    BY <2>1, PageIsNext DEF RxIInv, RxTypeOK
  <2>3. got'.frame \in {rxCnt, RxNone} /\ got' \in [len : Nat \cup {RxNone}, frame : Nat \cup {RxNone}]
    BY <1>5, <2>2 DEF Copy, RxIInv, RxTypeOK
  <2>4. RxTypeOK'
    BY <1>5, <2>3 DEF Copy, RxIInv, RxTypeOK
  <2>5. \A s \in RxSlots : SlotOK(s)'
    BY <1>5 DEF Copy, RxIInv, SlotOK
  <2>6. QED BY <1>5, <2>1, <2>3, <2>4, <2>5 DEF Copy, RxIInv, NoStaleFrame, InOrder, RxU32
<1>6. CASE Advance
  <2>1. rxPc = "next" /\ rxCnt < produced /\ rxCnt \in Nat /\ produced \in Nat
    BY <1>6 DEF Advance, RxIInv, NoStaleFrame, RxTypeOK
  <2>2. /\ fill' \in Nat /\ rxDoorbell' = RxU32(fill')
        /\ rxCnt' \in Nat /\ rxCnt' = rxCnt + 1
        /\ produced <= fill' /\ fill' <= rxCnt' + RxSize
        /\ fill' - rxCnt' > RxSize \div 2
    BY <1>6, <2>1, RecycleStep
  <2>3. seqno' = (rxCnt' % 7) + 1 /\ seqno' \in 1 .. 7
    <3>1. seqno = (rxCnt % 7) + 1 /\ seqno' = IF seqno = 7 THEN 1 ELSE seqno + 1
      BY <1>6, RxConsts DEF Advance, RxIInv
    <3>2. ((rxCnt + 1) % 7) + 1 = IF (rxCnt % 7) + 1 = 7 THEN 1 ELSE (rxCnt % 7) + 2
      BY <2>1, SeqStep
    <3>3. rxCnt % 7 \in 0 .. 6
      BY <2>1
    <3>4. QED BY <2>2, <3>1, <3>2, <3>3
  <2>4. rxDoorbell' \in Nat
    <3>1. fill' \in Int /\ RxCounterMod \in Nat \ {0}
      BY <2>2, RxConsts
    <3>3. fill' % RxCounterMod \in Nat
      BY <3>1, ModNat, Zenon
    <3>4. rxDoorbell' = fill' % RxCounterMod
      BY <2>2 DEF RxU32
    <3>5. QED BY <3>3, <3>4
  <2>5. RxTypeOK'
    BY <1>6, <2>2, <2>3, <2>4, RxConsts DEF Advance, RxIInv, RxTypeOK, RxNone
  <2>6. \A s \in RxSlots : SlotOK(s)'
    BY <1>6 DEF Advance, RxIInv, SlotOK
  <2>7. rxCnt' <= produced'
    BY <1>6, <2>1, <2>2 DEF Advance
  <2>8. QED
    BY <1>6, <2>2, <2>3, <2>5, <2>6, <2>7, RxConsts
    DEF Advance, RxIInv, NoStaleFrame, InOrder
<1>7. CASE UNCHANGED rxVars
  BY <1>7 DEF rxVars, RxIInv, RxTypeOK, SlotOK, NoStaleFrame, InOrder, RxU32
<1>8. QED BY <1>2, <1>3, <1>4, <1>5, <1>6, <1>7 DEF RxNext, Receive

\* Receive never takes a descriptor the device has not written in this lap.
THEOREM NeverStale == RxSpec => []NoStaleFrame
<1>1. RxIInv => NoStaleFrame
  BY DEF RxIInv
<1>2. QED BY <1>1, RxInitInv, RxStep, PTL DEF RxSpec

\* The data Receive returns is that of the next frame in order.
THEOREM FramesInOrder == RxSpec => []InOrder
<1>1. RxIInv => InOrder
  BY DEF RxIInv
<1>2. QED BY <1>1, RxInitInv, RxStep, PTL DEF RxSpec

\* More than half of the ring is posted whenever Receive is not being called,
\* whatever the wrap of the counters.
THEOREM AlwaysPosted == RxSpec => []Posted
<1>1. ASSUME RxIInv PROVE Posted
  <2>1. /\ RxCounterMod \in Nat \ {0} /\ fill \in Int /\ rxCnt \in Int
        /\ rxDoorbell = fill % RxCounterMod
        /\ fill - rxCnt \in 0 .. RxCounterMod - 1
        /\ fill - rxCnt > RxSize \div 2
    <3>1. RxCounterMod \in Nat \ {0} /\ RxSize \in Nat /\ RxSize < RxCounterMod
      BY RxConsts
    <3>2. fill \in Nat /\ rxCnt \in Nat /\ produced \in Nat
      BY <1>1 DEF RxIInv, RxTypeOK
    <3>3. rxDoorbell = fill % RxCounterMod
      BY <1>1 DEF RxIInv, RxU32
    <3>4. rxCnt <= produced /\ produced <= fill /\ fill <= rxCnt + RxSize /\ fill - rxCnt > RxSize \div 2
      BY <1>1 DEF RxIInv
    <3>5. fill - rxCnt \in 0 .. RxCounterMod - 1
      BY <3>1, <3>2, <3>4
    <3>6. QED BY <3>1, <3>2, <3>3, <3>4, <3>5
  <2>2. ((fill % RxCounterMod) - rxCnt) % RxCounterMod = fill - rxCnt
    BY <2>1, WrapDiff, Zenon
  <2>3. QED BY <2>1, <2>2 DEF Posted, RxU32
<1>2. QED BY <1>1, RxInitInv, RxStep, PTL DEF RxSpec

-----------------------------------------------------------------------------
(***************************************************************************)
(* Proof that the transmit ring of GveTx sends what was queued, in order,  *)
(* for every ring and page list size that divides the range of the         *)
(* counters.                                                               *)
(***************************************************************************)

\* r is the count the device last reported; what Transmit checked against it
\* still bounds what is really in flight.
Reported(r) ==
    /\ r <= done
    /\ counter = TxU32(r)
    /\ head - r <= TxSize /\ head - r <= Pages
    /\ txPc # "idle" => /\ head - r < TxSize /\ head - r < Pages
                      /\ inflight >= head - done

\* The inductive invariant: the counts are ordered, and the pages and the
\* descriptors of all frames in flight are in place.
TxIInv ==
    /\ TxTypeOK
    /\ txDoorbell = TxU32(head)
    /\ done <= fetched /\ fetched <= head
    /\ \E r \in Nat : Reported(r)
    /\ \A k \in Nat : done <= k /\ k < head => qpl[k % Pages] = k
    /\ \A k \in Nat : fetched <= k /\ k < head => txDesc[k % TxSize] = k % Pages
    /\ \A k \in Nat : done <= k /\ k < fetched => pending[k % TxSize] = k % Pages
    /\ txPc \in {"desc", "ring"} => qpl[head % Pages] = head
    /\ txPc = "ring" => txDesc[head % TxSize] = head % Pages
    /\ SentIntact

\* Every proof below uses the assumption on the constants in this form.
LEMMA TxConsts ==
    /\ TxSize \in Nat \ {0} /\ Pages \in Nat \ {0}
    /\ TxCounterMod \in Nat \ {0}
    /\ TxCounterMod > TxSize
    /\ \E q \in Nat \ {0} : TxCounterMod = TxSize * q
    /\ \E q \in Nat \ {0} : TxCounterMod = Pages * q
<1>1. PICK q \in 2 .. TxCounterMod : TxCounterMod = TxSize * q
  BY TxAssumption
<1>2. PICK r \in Nat : q = 2 + r
  <2>1. q - 2 \in Nat /\ q = 2 + (q - 2)
    BY TxAssumption
  <2>2. QED BY <2>1
<1>3. TxSize * q = 2 * TxSize + TxSize * r /\ TxSize * r \in Nat
  BY <1>2, TxAssumption
<1>4. TxCounterMod > TxSize
  BY <1>1, <1>3, TxAssumption
<1>5. \A x \in 2 .. TxCounterMod : x \in Nat \ {0}
  BY TxAssumption
<1>6. QED BY <1>4, <1>5, TxAssumption, Zenon

\* The slot and the page of a frame do not depend on the wrap of the counter.
LEMMA Places ==
    ASSUME head \in Nat
    PROVE  /\ txIdx = head % TxSize /\ txIdx \in TxSlots
           /\ qplOff = head % Pages /\ qplOff \in PageIds
<1>1. PICK q \in Nat \ {0} : TxCounterMod = TxSize * q
  BY TxConsts
<1>2. PICK p \in Nat \ {0} : TxCounterMod = Pages * p
  BY TxConsts
<1>3. /\ TxSize \in Nat \ {0} /\ Pages \in Nat \ {0} /\ TxCounterMod \in Nat \ {0}
      /\ head \in Int
  BY TxConsts
<1>4. (head % TxCounterMod) % TxSize = head % TxSize
  BY <1>1, <1>3, ModMod, Zenon
<1>5. (head % TxCounterMod) % Pages = head % Pages
  BY <1>2, <1>3, ModMod, Zenon
<1>6. head % TxSize \in 0 .. TxSize - 1 /\ head % Pages \in 0 .. Pages - 1
  BY <1>3, DivMod
<1>7. QED BY <1>4, <1>5, <1>6 DEF txIdx, qplOff, TxU32, TxSlots, PageIds

\* Indices of any count.
LEMMA InRange ==
    ASSUME NEW k \in Nat
    PROVE  k % TxSize \in TxSlots /\ k % Pages \in PageIds /\ TxU32(k) \in Nat
<1>1. /\ TxSize \in Nat \ {0} /\ Pages \in Nat \ {0} /\ TxCounterMod \in Nat \ {0}
      /\ k \in Int
  BY TxConsts
<1>2. k % TxSize \in 0 .. TxSize - 1 /\ k % Pages \in 0 .. Pages - 1
  BY <1>1, DivMod
<1>3. k % TxCounterMod \in Nat
  BY <1>1, ModNat
<1>4. QED BY <1>2, <1>3 DEF TxSlots, PageIds, TxU32

\* Frames less than a lap apart use different slots and different pages.
LEMMA Apart ==
    ASSUME NEW k \in Nat, NEW h \in Nat, k < h
    PROVE  /\ h - k < TxSize => k % TxSize # h % TxSize
           /\ h - k < Pages => k % Pages # h % Pages
<1>1. TxSize \in Nat \ {0} /\ Pages \in Nat \ {0} /\ k \in Int /\ h \in Int
  BY TxConsts
<1>2. ASSUME h - k < TxSize PROVE k % TxSize # h % TxSize
  <2>1. h < k + TxSize
    BY <1>1, <1>2
  <2>2. QED BY <1>1, <2>1, ModApart, Zenon
<1>3. ASSUME h - k < Pages PROVE k % Pages # h % Pages
  <2>1. h < k + Pages
    BY <1>1, <1>3
  <2>2. QED BY <1>1, <2>1, ModApart, Zenon
<1>4. QED BY <1>2, <1>3

\* The empty ring satisfies the invariant.
LEMMA TxInitInv == TxInit => TxIInv
<1> SUFFICES ASSUME TxInit PROVE TxIInv
  OBVIOUS
<1>1. 0 \in PageIds /\ 0 % TxCounterMod = 0
  BY TxConsts DEF PageIds
<1>2. TxTypeOK
  BY <1>1, Zenon DEF TxInit, TxTypeOK
<1>3. Reported(0)
  BY <1>1, TxConsts DEF TxInit, Reported, TxU32
<1>4. txDoorbell = TxU32(head)
  BY <1>1 DEF TxInit, TxU32
<1>5. QED BY <1>2, <1>3, <1>4 DEF TxInit, TxIInv, SentIntact

\* What CheckRoom decides on is the exact distance to the reported count.
LEMMA RoomExact ==
    ASSUME TxIInv, NEW r \in Nat, Reported(r)
    PROVE  TxU32(head - counter) = head - r
<1>1. /\ head \in Nat /\ done \in Nat /\ TxCounterMod \in Nat \ {0}
      /\ TxSize \in Nat /\ TxSize < TxCounterMod /\ done <= head
  BY TxConsts DEF TxIInv, TxTypeOK
<1>2. counter = r % TxCounterMod /\ head - r <= TxSize /\ r <= done
  BY DEF Reported, TxU32
<1>3. head - r \in 0 .. TxCounterMod - 1 /\ head \in Int /\ r \in Int
  BY <1>1, <1>2
<1>4. (head - (r % TxCounterMod)) % TxCounterMod = head - r
  BY <1>1, <1>3, WrapDiff2, Zenon
<1>5. QED BY <1>2, <1>4 DEF TxU32

\* The facts about the types that the steps need.
LEMMA Types ==
    ASSUME TxIInv
    PROVE  /\ TxTypeOK
           /\ head \in Nat /\ done \in Nat /\ fetched \in Nat /\ inflight \in Nat
           /\ TxSize \in Nat \ {0} /\ Pages \in Nat \ {0}
           /\ done <= fetched /\ fetched <= head
           /\ head - done <= TxSize /\ head - done <= Pages
           /\ txPc # "idle" => head - done < TxSize /\ head - done < Pages
<1>1. PICK r \in Nat : Reported(r)
  BY DEF TxIInv
<1>2. TxTypeOK /\ done <= fetched /\ fetched <= head
  BY DEF TxIInv
<1>3. head \in Nat /\ done \in Nat /\ fetched \in Nat /\ inflight \in Nat
  BY <1>2 DEF TxTypeOK
<1>4. TxSize \in Nat \ {0} /\ Pages \in Nat \ {0}
  BY TxConsts
<1>5. /\ head - done <= TxSize /\ head - done <= Pages
      /\ txPc # "idle" => head - done < TxSize /\ head - done < Pages
  BY <1>1, <1>3, <1>4 DEF Reported
<1>6. QED BY <1>2, <1>3, <1>4, <1>5

\* Whatever CheckRoom decides, it decides on a bound that still holds.
LEMMA CheckRoomStep ==
    ASSUME TxIInv, CheckRoom PROVE TxIInv'
<1>1. PICK r \in Nat : Reported(r)
  BY DEF TxIInv
<1>2. inflight' = head - r
  BY <1>1, RoomExact DEF CheckRoom
<1>3. UNCHANGED <<head, qpl, txDesc, txDoorbell, fetched, pending, done, counter, wire>>
  BY DEF CheckRoom, txDevice
<1>4. /\ inflight' \in Nat
      /\ txPc' \in {"idle", "copy"} /\ full' \in BOOLEAN
      /\ txPc' # "idle" => inflight' < TxSize /\ inflight' < Pages
  <2>1. inflight' \in Nat
    BY <1>1, <1>2, Types DEF Reported
  <2>2. full' \in BOOLEAN /\ txPc' \in {"idle", "copy"}
    BY Zenon DEF CheckRoom
  <2>3. txPc' # "idle" => ~(inflight' >= TxSize \/ inflight' >= Pages)
    BY DEF CheckRoom
  <2>4. QED BY <2>1, <2>2, <2>3, Types
<1>5. TxTypeOK'
  BY <1>3, <1>4, Types DEF TxTypeOK
<1>6. Reported(r)'
  BY <1>1, <1>2, <1>3, <1>4, Types DEF Reported, TxU32
<1>7. QED BY <1>3, <1>4, <1>5, <1>6 DEF TxIInv, SentIntact, TxU32

\* The page is not that of a frame in flight.
LEMMA CopyFrameStep ==
    ASSUME TxIInv, CopyFrame PROVE TxIInv'
<1>1. PICK r \in Nat : Reported(r)
  BY DEF TxIInv
<1>2. UNCHANGED <<head, inflight, full, txDesc, txDoorbell, fetched, pending, done, counter, wire>>
  BY DEF CopyFrame, txDevice
<1>3. qplOff = head % Pages /\ qplOff \in PageIds
  BY Places, Types
<1>4. qpl' = [qpl EXCEPT ![head % Pages] = head] /\ txPc = "copy" /\ txPc' = "desc"
  BY <1>3 DEF CopyFrame
<1>5. TxTypeOK'
  BY <1>2, <1>3, <1>4, Types DEF TxTypeOK
<1>6. Reported(r)'
  BY <1>1, <1>2, <1>4 DEF Reported, TxU32
<1>7. ASSUME NEW k \in Nat, done <= k, k < head PROVE qpl'[k % Pages] = k
  <2>1. k % Pages # head % Pages
    <3>1. head - k < Pages
      BY <1>4, <1>7, Types
    <3>2. QED BY <1>7, <3>1, Apart, Types
  <2>2. k % Pages \in PageIds
    BY InRange
  <2>3. qpl[k % Pages] = k
    BY <1>7 DEF TxIInv
  <2>4. QED BY <1>4, <2>1, <2>2, <2>3, Types DEF TxTypeOK
<1>8. qpl'[head % Pages] = head
  BY <1>3, <1>4, Types DEF TxTypeOK
<1>9. QED BY <1>2, <1>4, <1>5, <1>6, <1>7, <1>8 DEF TxIInv, SentIntact, TxU32

\* The descriptor is not that of a frame the device has yet to fetch.
LEMMA FillDescStep ==
    ASSUME TxIInv, FillDesc PROVE TxIInv'
<1>1. PICK r \in Nat : Reported(r)
  BY DEF TxIInv
<1>2. UNCHANGED <<head, inflight, full, qpl, txDoorbell, fetched, pending, done, counter, wire>>
  BY DEF FillDesc, txDevice
<1>3. /\ qplOff = head % Pages /\ qplOff \in PageIds
      /\ txIdx = head % TxSize /\ txIdx \in TxSlots
  BY Places, Types
<1>4. txDesc' = [txDesc EXCEPT ![head % TxSize] = head % Pages] /\ txPc = "desc" /\ txPc' = "ring"
  BY <1>3 DEF FillDesc
<1>5. TxTypeOK'
  BY <1>2, <1>3, <1>4, Types DEF TxTypeOK
<1>6. Reported(r)'
  BY <1>1, <1>2, <1>4 DEF Reported, TxU32
<1>7. ASSUME NEW k \in Nat, fetched <= k, k < head PROVE txDesc'[k % TxSize] = k % Pages
  <2>1. k % TxSize # head % TxSize
    <3>1. head - k < TxSize
      BY <1>4, <1>7, Types
    <3>2. QED BY <1>7, <3>1, Apart, Types
  <2>2. k % TxSize \in TxSlots
    BY InRange
  <2>3. txDesc[k % TxSize] = k % Pages
    BY <1>7 DEF TxIInv
  <2>4. QED BY <1>4, <2>1, <2>2, <2>3, Types DEF TxTypeOK
<1>8. txDesc'[head % TxSize] = head % Pages
  BY <1>3, <1>4, Types DEF TxTypeOK
<1>9. qpl[head % Pages] = head
  BY <1>4 DEF TxIInv
<1>10. QED BY <1>2, <1>4, <1>5, <1>6, <1>7, <1>8, <1>9 DEF TxIInv, SentIntact, TxU32

\* Ringing the doorbell makes the frame one of those in flight.
LEMMA RingStep ==
    ASSUME TxIInv, Ring PROVE TxIInv'
<1>1. PICK r \in Nat : Reported(r)
  BY DEF TxIInv
<1>2. UNCHANGED <<inflight, full, qpl, txDesc, fetched, pending, done, counter, wire>>
  BY DEF Ring, txDevice
<1>3. head' = head + 1 /\ txDoorbell' = TxU32(head') /\ txPc = "ring" /\ txPc' = "idle"
  BY DEF Ring
<1>4. head' \in Nat /\ txDoorbell' \in Nat
  BY <1>3, Types, InRange
<1>5. TxTypeOK'
  BY <1>2, <1>3, <1>4, Types DEF TxTypeOK
<1>6. Reported(r)'
  BY <1>1, <1>2, <1>3, Types DEF Reported, TxU32
<1>7. ASSUME NEW k \in Nat, k < head' PROVE k < head \/ k = head
  BY <1>3, <1>7, Types
<1>8. qpl[head % Pages] = head /\ txDesc[head % TxSize] = head % Pages
  BY <1>3 DEF TxIInv
<1>9. \A k \in Nat : done' <= k /\ k < head' => qpl'[k % Pages] = k
  BY <1>2, <1>7, <1>8 DEF TxIInv
<1>10. \A k \in Nat : fetched' <= k /\ k < head' => txDesc'[k % TxSize] = k % Pages
  BY <1>2, <1>7, <1>8 DEF TxIInv
<1>11. fetched' <= head' /\ done' <= fetched'
  BY <1>2, <1>3, Types
<1>12. QED BY <1>2, <1>3, <1>5, <1>6, <1>9, <1>10, <1>11 DEF TxIInv, SentIntact, TxU32

\* The device keeps the page of the descriptor it reads.
LEMMA FetchStep ==
    ASSUME TxIInv, Fetch PROVE TxIInv'
<1>1. PICK r \in Nat : Reported(r)
  BY DEF TxIInv
<1>2. UNCHANGED <<head, inflight, txPc, full, qpl, txDesc, txDoorbell, done, counter, wire>>
  BY DEF Fetch, txDriver
<1>3. fetched < head /\ fetched' = fetched + 1 /\ fetched' \in Nat
  <2>1. fetched # head
    BY DEF Fetch, TxIInv
  <2>2. QED BY <2>1, Types DEF Fetch
<1>4. fetched % TxSize \in TxSlots
  BY InRange, Types
<1>5. pending' = [pending EXCEPT ![fetched % TxSize] = fetched % Pages] /\ fetched % Pages \in PageIds
  <2>1. fetched \in Nat /\ fetched <= fetched
    BY Types
  <2>2. txDesc[fetched % TxSize] = fetched % Pages
    BY <1>3, <2>1 DEF TxIInv
  <2>3. QED BY <2>2, InRange, Types DEF Fetch
<1>6. TxTypeOK'
  BY <1>2, <1>3, <1>4, <1>5, Types DEF TxTypeOK
<1>7. Reported(r)'
  BY <1>1, <1>2 DEF Reported, TxU32
<1>8. ASSUME NEW k \in Nat, done <= k, k < fetched' PROVE pending'[k % TxSize] = k % Pages
  <2>1. CASE k = fetched
    BY <1>4, <1>5, <2>1, Types DEF TxTypeOK
  <2>2. CASE k < fetched
    <3>1. k % TxSize # fetched % TxSize
      <4>1. fetched - k < TxSize
        BY <1>3, <1>8, Types
      <4>2. QED BY <2>2, <4>1, Apart, Types
    <3>2. k % TxSize \in TxSlots /\ pending[k % TxSize] = k % Pages
      BY <1>8, <2>2, InRange DEF TxIInv
    <3>3. QED BY <1>5, <3>1, <3>2, Types DEF TxTypeOK
  <2>3. QED BY <1>3, <1>8, <2>1, <2>2, Types
<1>9. \A k \in Nat : fetched' <= k /\ k < head => txDesc[k % TxSize] = k % Pages
  <2>1. \A k \in Nat : fetched' <= k => fetched <= k
    BY <1>3, Types
  <2>2. QED BY <2>1 DEF TxIInv
<1>10. done <= fetched' /\ fetched' <= head
  BY <1>3, Types
<1>11. QED BY <1>2, <1>6, <1>7, <1>8, <1>9, <1>10 DEF TxIInv, SentIntact, TxU32

\* The frame that goes out is the oldest one in flight.
LEMMA SendStep ==
    ASSUME TxIInv, Send PROVE TxIInv'
<1>1. PICK r \in Nat : Reported(r)
  BY DEF TxIInv
<1>2. UNCHANGED <<head, inflight, txPc, full, qpl, txDesc, txDoorbell, fetched, pending, counter>>
  BY Zenon DEF Send, txDriver
<1>3. done < fetched /\ done' = done + 1 /\ done' \in Nat
  <2>1. done \in Nat
    BY Types
  <2>2. done < fetched /\ done' = done + 1
    BY DEF Send
  <2>3. QED BY <2>1, <2>2
<1>4. wire' = done
  <2>1. done \in Nat /\ done <= done /\ done < head
    BY <1>3, Types
  <2>2. pending[done % TxSize] = done % Pages
    BY <1>3, <2>1 DEF TxIInv
  <2>3. qpl[done % Pages] = done
    BY <2>1 DEF TxIInv
  <2>4. QED BY <2>2, <2>3 DEF Send
<1>5. TxTypeOK'
  BY <1>2, <1>3, <1>4, Types DEF TxTypeOK
<1>6. Reported(r)'
  <2>1. head \in Nat /\ done \in Nat /\ inflight \in Nat
    BY Types
  <2>2. QED BY <1>1, <1>2, <1>3, <2>1 DEF Reported, TxU32
<1>7. \A k \in Nat : done' <= k => done <= k
  BY <1>3, Types
<1>8. done' <= fetched' /\ SentIntact'
  BY <1>2, <1>3, <1>4, Types DEF SentIntact
<1>9. QED BY <1>2, <1>5, <1>6, <1>7, <1>8 DEF TxIInv, TxU32

\* The report is the true count.
LEMMA ReportStep ==
    ASSUME TxIInv, Report PROVE TxIInv'
<1>1. UNCHANGED <<head, inflight, txPc, full, qpl, txDesc, txDoorbell, fetched, pending, done, wire>>
  BY DEF Report, txDriver
<1>2. counter' = TxU32(done) /\ counter' \in Nat
  BY InRange, Types DEF Report
<1>3. TxTypeOK'
  BY <1>1, <1>2, Types DEF TxTypeOK
<1>4. Reported(done)'
  <2>1. txPc # "idle" => inflight >= head - done
    BY DEF TxIInv, Reported
  <2>2. QED BY <1>1, <1>2, <2>1, Types DEF Reported, TxU32
<1>5. done' \in Nat
  BY <1>1, Types
<1>6. QED BY <1>1, <1>3, <1>4, <1>5 DEF TxIInv, SentIntact, TxU32

\* Every step of Transmit or the device keeps the invariant.
LEMMA TxStep == TxIInv /\ [TxNext]_txVars => TxIInv'
<1> SUFFICES ASSUME TxIInv, [TxNext]_txVars PROVE TxIInv'
  OBVIOUS
<1>1. CASE UNCHANGED txVars
  BY <1>1, Zenon DEF txVars, txDriver, txDevice, TxIInv, TxTypeOK, Reported, SentIntact, TxU32
<1>2. QED
  BY <1>1, CheckRoomStep, CopyFrameStep, FillDescStep, RingStep, FetchStep,
     SendStep, ReportStep DEF TxNext, Transmit

\* The frames go out intact and in the order they were queued.
THEOREM FramesSentIntact == TxSpec => []SentIntact
<1>1. TxIInv => SentIntact
  BY DEF TxIInv
<1>2. QED BY <1>1, TxInitInv, TxStep, PTL DEF TxSpec

\* There is never more in flight than there are descriptors and pages.
THEOREM TxRingBounded == TxSpec => []RingBound
<1>1. TxIInv => RingBound
  BY Types DEF RingBound
<1>2. QED BY <1>1, TxInitInv, TxStep, PTL DEF TxSpec

-----------------------------------------------------------------------------
(* VirtQueuePop.                                                          *)

INSTANCE FiniteSetTheorems

\* The counts are in order and at most a lap apart.
Counts ==
    /\ popAvail = last + PopSize
    /\ last <= popUsed /\ popUsed <= popTaken /\ popTaken <= popAvail
    /\ IsFiniteSet(popHolds) /\ Cardinality(popHolds) = popTaken - popUsed

\* A descriptor is in one place only.
PlacedOnce ==
    /\ \A j, k \in Nat : PopOffered(j) /\ PopOffered(k) /\ j # k => Offer(j) # Offer(k)
    /\ \A j, k \in Nat : Returned(j) /\ Returned(k) /\ j # k => Return(j) # Return(k)
    /\ \A j, k \in Nat : PopOffered(j) /\ Returned(k) => Offer(j) # Return(k)
    /\ \A j \in Nat : PopOffered(j) => Offer(j) \notin popHolds
    /\ \A k \in Nat : Returned(k) => Return(k) \notin popHolds

\* Returned buffers hold the data of their completion.
Filled == \A k \in Nat : Returned(k) => popBuf[Return(k)] = k

\* What Pop is in the middle of.
Popping ==
    /\ popPc # "idle" => last < popUsed /\ id = Return(last)
    /\ popPc = "index" => Offer(popAvail) = id
    /\ PopInOrder

\* The inductive invariant.
PopIInv == PopTypeOK /\ Counts /\ PlacedOnce /\ Filled /\ Popping

\* Every proof below uses the assumption on the constants in this form.
LEMMA Consts ==
    /\ PopSize \in Nat \ {0}
    /\ PopIndexMod \in Nat \ {0}
    /\ \E q \in Nat \ {0} : PopIndexMod = PopSize * q
<1>1. \A q \in 2 .. PopIndexMod : q \in Nat \ {0} /\ PopIndexMod # 0
  BY PopAssumption
<1>2. QED BY <1>1, PopAssumption

\* The position of a count does not depend on the wrap of the index.
LEMMA Position ==
    ASSUME NEW k \in Nat
    PROVE  U16(k) % PopSize = k % PopSize /\ k % PopSize \in Slots
<1>1. PICK q \in Nat \ {0} : PopIndexMod = PopSize * q
  BY Consts
<1>2. PopSize \in Nat \ {0} /\ PopIndexMod \in Nat \ {0} /\ k \in Int
  BY Consts
<1>3. (k % PopIndexMod) % PopSize = k % PopSize
  BY <1>1, <1>2, ModMod, Zenon
<1>4. k % PopSize \in 0 .. PopSize - 1
  BY <1>2, DivMod
<1>5. QED BY <1>3, <1>4 DEF U16, Slots

\* Counts less than a lap apart have different positions.
LEMMA Distinct ==
    ASSUME NEW j \in Nat, NEW k \in Nat, j # k, j < k + PopSize, k < j + PopSize
    PROVE  j % PopSize # k % PopSize
<1>1. PopSize \in Nat \ {0} /\ j \in Int /\ k \in Int
  BY Consts
<1>2. CASE j < k
  BY <1>1, <1>2, ModApart, Zenon
<1>3. CASE k < j
  BY <1>1, <1>3, ModApart, Zenon
<1>4. QED BY <1>1, <1>2, <1>3

\* The types, in the form the steps use.
LEMMA PopTypes ==
    ASSUME PopTypeOK
    PROVE  /\ popAvail \in Nat /\ last \in Nat /\ popTaken \in Nat /\ popUsed \in Nat
           /\ popAring \in [Slots -> Slots] /\ uring \in [Slots -> Slots]
           /\ popBuf \in [Slots -> Nat \cup {None}]
           /\ id \in Slots /\ popHolds \subseteq Slots
           /\ PopSize \in Nat \ {0}
BY Consts DEF PopTypeOK

\* A new queue satisfies the invariant.
LEMMA PopInitInv == PopInit => PopIInv
<1> SUFFICES ASSUME PopInit PROVE PopIInv
  OBVIOUS
<1>1. 0 \in Slots /\ PopSize \in Nat \ {0}
  BY Consts DEF Slots
<1>2. PopTypeOK
  BY <1>1, Zenon DEF PopInit, PopTypeOK
<1>3. Counts
  BY <1>1, FS_EmptySet DEF PopInit, Counts
<1>4. PlacedOnce
  <2>1. ASSUME NEW j \in Nat, NEW k \in Nat, PopOffered(j), PopOffered(k), j # k
        PROVE  Offer(j) # Offer(k)
    <3>1. j % PopSize # k % PopSize
      <4>1. popAvail = PopSize /\ popTaken = 0
        BY DEF PopInit
      <4>2. j < PopSize /\ k < PopSize
        BY <2>1, <4>1 DEF PopOffered
      <4>3. QED BY <1>1, <2>1, <4>2, Distinct
    <3>2. j % PopSize \in Slots /\ k % PopSize \in Slots
      BY Position
    <3>3. QED BY <3>1, <3>2 DEF PopInit, Offer
  <2>2. \A k \in Nat : ~Returned(k)
    BY DEF PopInit, Returned
  <2>3. QED BY <2>1, <2>2 DEF PopInit, PlacedOnce
<1>5. Filled
  BY DEF PopInit, Filled, Returned
<1>6. Popping
  BY DEF PopInit, Popping, PopInOrder
<1>7. QED BY <1>2, <1>3, <1>4, <1>5, <1>6 DEF PopIInv

\* Looking at the used ring only fetches the next returned descriptor.
LEMMA CheckUsedStep ==
    ASSUME PopIInv, NEW small \in BOOLEAN, CheckUsed(small) PROVE PopIInv'
<1>1. UNCHANGED <<popAvail, popAring, last, popGot, popTaken, popHolds, popUsed, uring, popBuf>>
  BY DEF CheckUsed, device
<1>2. last < popUsed
  <2>1. last # popUsed
    BY DEF CheckUsed
  <2>2. QED BY <2>1, PopTypes DEF PopIInv, Counts
<1>3. id' = Return(last) /\ id' \in Slots
  <2>1. U16(last) % PopSize = last % PopSize /\ last % PopSize \in Slots
    BY Position, PopTypes DEF PopIInv
  <2>2. QED BY <2>1, PopTypes DEF PopIInv, CheckUsed, Return
<1>4. popPc' \in {"idle", "copy"} /\ toosmall' \in BOOLEAN
  BY DEF CheckUsed
<1>5. PopTypeOK'
  BY <1>1, <1>3, <1>4 DEF PopIInv, PopTypeOK
<1>6. Popping'
  BY <1>1, <1>2, <1>3, <1>4 DEF Popping, PopInOrder, Return
<1>7. QED
  BY <1>1, <1>5, <1>6, Zenon DEF PopIInv, Counts, PlacedOnce, Filled, PopOffered, Returned, Offer, Return

\* The data copied is that of the next completion.
LEMMA ReadStep ==
    ASSUME PopIInv, Read PROVE PopIInv'
<1>1. UNCHANGED <<popAvail, popAring, last, id, toosmall, popTaken, popHolds, popUsed, uring, popBuf>>
  BY DEF Read, device
<1>2. last < popUsed /\ id = Return(last) /\ last \in Nat
  BY PopTypes DEF Read, PopIInv, Popping
<1>3. popGot' = last
  <2>1. Returned(last)
    BY <1>2 DEF Returned
  <2>2. QED BY <1>2, <2>1 DEF Read, PopIInv, Filled
<1>4. popPc' = "offer"
  BY DEF Read
<1>5. PopTypeOK'
  BY <1>1, <1>2, <1>3, <1>4 DEF PopIInv, PopTypeOK
<1>6. Popping'
  BY <1>1, <1>2, <1>3, <1>4 DEF Popping, PopInOrder, Return
<1>7. QED
  BY <1>1, <1>5, <1>6, Zenon DEF PopIInv, Counts, PlacedOnce, Filled, PopOffered, Returned, Offer, Return

\* The entry that is written is one the device has read already.
LEMMA SetRingIndexStep ==
    ASSUME PopIInv, SetRingIndex PROVE PopIInv'
<1>1. UNCHANGED <<popAvail, last, id, popGot, toosmall, popTaken, popHolds, popUsed, uring, popBuf>>
  BY DEF SetRingIndex, device
<1>2. /\ last < popUsed /\ id = Return(last)
      /\ popPc = "offer" /\ popPc' = "index"
  BY DEF SetRingIndex, PopIInv, Popping
<1>3. /\ U16(popAvail) % PopSize = popAvail % PopSize /\ popAvail % PopSize \in Slots
  BY Position, PopTypes DEF PopIInv
<1>4. popAring' = [popAring EXCEPT ![popAvail % PopSize] = id]
  BY <1>3, Zenon DEF SetRingIndex
<1>5. popAvail < popTaken + PopSize
  BY <1>2, PopTypes DEF PopIInv, Counts
<1>6. \A j \in Nat : PopOffered(j) => Offer(j)' = Offer(j)
  <2> SUFFICES ASSUME NEW j \in Nat, PopOffered(j) PROVE popAring'[j % PopSize] = popAring[j % PopSize]
    BY DEF Offer
  <2>1. popTaken <= j /\ j < popAvail
    BY DEF PopOffered
  <2>2. j # popAvail /\ j < popAvail + PopSize /\ popAvail < j + PopSize
    BY <1>5, <2>1, PopTypes DEF PopIInv
  <2>3. j % PopSize # popAvail % PopSize
    BY <2>2, Distinct, PopTypes DEF PopIInv
  <2>4. j % PopSize \in Slots
    BY Position
  <2>5. QED BY <1>3, <1>4, <2>3, <2>4, PopTypes DEF PopIInv
<1>7. Offer(popAvail)' = id
  BY <1>1, <1>3, <1>4, PopTypes DEF PopIInv, Offer
<1>8. PopTypeOK'
  BY <1>1, <1>2, <1>3, <1>4 DEF PopIInv, PopTypeOK
<1>9. Popping'
  BY <1>1, <1>2, <1>7 DEF PopIInv, Popping, PopInOrder, Return
<1>10. \A j \in Nat : PopOffered(j)' <=> PopOffered(j)
  BY <1>1 DEF PopOffered
<1>11. PlacedOnce'
  BY <1>1, <1>6, <1>10 DEF PopIInv, PlacedOnce, Returned, Return
<1>12. QED BY <1>1, <1>8, <1>9, <1>11, Zenon DEF PopIInv, Counts, Filled, Returned, Return

\* The popped descriptor goes from the returned ones to the offered ones.
LEMMA SetIndexStep ==
    ASSUME PopIInv, SetIndex PROVE PopIInv'
<1>1. UNCHANGED <<popAring, id, popGot, toosmall, popTaken, popHolds, popUsed, uring, popBuf>>
  BY DEF SetIndex, device
<1>2. /\ last < popUsed /\ id = Return(last) /\ Offer(popAvail) = id
      /\ popPc = "index" /\ popPc' = "idle"
      /\ popAvail' = popAvail + 1 /\ last' = last + 1
  BY DEF SetIndex, PopIInv, Popping
<1>3. popAvail \in Nat /\ last \in Nat /\ popUsed \in Nat /\ popTaken \in Nat
  BY PopTypes DEF PopIInv
<1>4. PopTypeOK'
  BY <1>1, <1>2, <1>3 DEF PopIInv, PopTypeOK
<1>5. Counts'
  BY <1>1, <1>2, <1>3, PopTypes DEF PopIInv, Counts
<1>6. Popping'
  BY <1>1, <1>2 DEF Popping, PopInOrder
<1>7. Returned(last)
  BY <1>2, <1>3 DEF Returned
<1>8. \A j \in Nat : PopOffered(j)' => PopOffered(j) \/ j = popAvail
  BY <1>1, <1>2, <1>3 DEF PopOffered
<1>9. \A k \in Nat : Returned(k)' => Returned(k) /\ k # last
  BY <1>1, <1>2, <1>3 DEF Returned
<1>10. \A k \in Nat : Offer(k)' = Offer(k) /\ Return(k)' = Return(k)
  BY <1>1 DEF Offer, Return
<1>11. PlacedOnce'
  <2>1. \A j, k \in Nat : PopOffered(j)' /\ PopOffered(k)' /\ j # k => Offer(j) # Offer(k)
    BY <1>2, <1>3, <1>7, <1>8 DEF PopIInv, PlacedOnce
  <2>2. \A j, k \in Nat : PopOffered(j)' /\ Returned(k)' => Offer(j) # Return(k)
    BY <1>2, <1>3, <1>7, <1>8, <1>9 DEF PopIInv, PlacedOnce
  <2>3. \A j \in Nat : PopOffered(j)' => Offer(j) \notin popHolds
    BY <1>2, <1>3, <1>7, <1>8 DEF PopIInv, PlacedOnce
  <2>4. QED BY <1>1, <1>9, <1>10, <2>1, <2>2, <2>3 DEF PopIInv, PlacedOnce
<1>12. Filled'
  BY <1>1, <1>9, <1>10 DEF PopIInv, Filled
<1>13. QED BY <1>4, <1>5, <1>6, <1>11, <1>12 DEF PopIInv

\* The device takes the oldest offered descriptor.
LEMMA PopTakeStep ==
    ASSUME PopIInv, PopTake PROVE PopIInv'
<1>1. UNCHANGED <<popAvail, popAring, last, popPc, id, popGot, toosmall, popUsed, uring, popBuf>>
  BY DEF PopTake, driver
<1>2. popAvail \in Nat /\ last \in Nat /\ popUsed \in Nat /\ popTaken \in Nat
  BY PopTypes DEF PopIInv
<1>3. popTaken < popAvail /\ popTaken' = popTaken + 1
  <2>1. popTaken # popAvail
    BY DEF PopTake
  <2>2. QED BY <1>2, <2>1 DEF PopIInv, Counts, PopTake
<1>4. PopOffered(popTaken)
  BY <1>2, <1>3 DEF PopOffered
<1>5. popHolds' = popHolds \cup {Offer(popTaken)} /\ Offer(popTaken) \notin popHolds
  BY <1>2, <1>4 DEF PopTake, Offer, PopIInv, PlacedOnce
<1>6. Offer(popTaken) \in Slots
  BY <1>2, Position, PopTypes DEF PopIInv, Offer
<1>7. PopTypeOK'
  BY <1>1, <1>2, <1>3, <1>5, <1>6 DEF PopIInv, PopTypeOK
<1>8. Counts'
  <2>1. IsFiniteSet(popHolds') /\ Cardinality(popHolds') = Cardinality(popHolds) + 1
    BY <1>5, FS_AddElement DEF PopIInv, Counts
  <2>2. QED BY <1>1, <1>2, <1>3, <2>1 DEF PopIInv, Counts
<1>9. \A j \in Nat : PopOffered(j)' => PopOffered(j) /\ j # popTaken
  BY <1>1, <1>2, <1>3 DEF PopOffered
<1>10. \A k \in Nat : /\ Offer(k)' = Offer(k) /\ Return(k)' = Return(k)
                      /\ Returned(k)' <=> Returned(k)
  BY <1>1 DEF Offer, Return, Returned
<1>11. PlacedOnce'
  <2>1. \A j \in Nat : PopOffered(j)' => Offer(j) \notin popHolds'
    BY <1>2, <1>4, <1>5, <1>9 DEF PopIInv, PlacedOnce
  <2>2. \A k \in Nat : Returned(k) => Return(k) \notin popHolds'
    BY <1>2, <1>4, <1>5 DEF PopIInv, PlacedOnce
  <2>3. QED BY <1>9, <1>10, <2>1, <2>2 DEF PopIInv, PlacedOnce
<1>12. Filled' /\ Popping'
  BY <1>1, <1>10 DEF PopIInv, Filled, Popping, PopInOrder, Offer, Return
<1>13. QED BY <1>7, <1>8, <1>11, <1>12 DEF PopIInv

\* The device returns any descriptor it holds.
LEMMA CompleteStep ==
    ASSUME PopIInv, Complete PROVE PopIInv'
<1>1. UNCHANGED <<popAvail, popAring, last, popPc, id, popGot, toosmall, popTaken>>
  BY DEF Complete, driver
<1>2. popAvail \in Nat /\ last \in Nat /\ popUsed \in Nat /\ popTaken \in Nat /\ PopSize \in Nat
  BY PopTypes DEF PopIInv
<1>3. PICK d \in popHolds : /\ popBuf' = [popBuf EXCEPT ![d] = popUsed]
                         /\ uring' = [uring EXCEPT ![popUsed % PopSize] = d]
                         /\ popHolds' = popHolds \ {d}
                         /\ popUsed' = popUsed + 1
  BY Zenon DEF Complete
<1>4. d \in Slots /\ popUsed % PopSize \in Slots
  BY <1>2, <1>3, Position, PopTypes DEF PopIInv
<1>5. /\ IsFiniteSet(popHolds') /\ Cardinality(popHolds') = Cardinality(popHolds) - 1
      /\ popUsed < popTaken
  <2>1. IsFiniteSet(popHolds') /\ Cardinality(popHolds') = Cardinality(popHolds) - 1
    BY <1>3, FS_RemoveElement DEF PopIInv, Counts
  <2>2. Cardinality(popHolds') \in Nat
    BY <2>1, FS_CardinalityType
  <2>3. QED BY <1>2, <2>1, <2>2 DEF PopIInv, Counts
<1>6. PopTypeOK'
  BY <1>1, <1>2, <1>3, <1>4 DEF PopIInv, PopTypeOK
<1>7. Counts'
  BY <1>1, <1>2, <1>3, <1>5 DEF PopIInv, Counts
<1>8. \A k \in Nat : Returned(k) => Return(k)' = Return(k)
  <2> SUFFICES ASSUME NEW k \in Nat, Returned(k) PROVE uring'[k % PopSize] = uring[k % PopSize]
    BY DEF Return
  <2>1. last <= k /\ k < popUsed
    BY DEF Returned
  <2>2. k # popUsed /\ k < popUsed + PopSize /\ popUsed < k + PopSize
    BY <1>2, <1>5, <2>1 DEF PopIInv, Counts
  <2>3. k % PopSize # popUsed % PopSize
    BY <1>2, <2>2, Distinct, Zenon
  <2>4. k % PopSize \in Slots
    BY Position
  <2>5. QED BY <1>3, <1>4, <2>3, <2>4, PopTypes DEF PopIInv
<1>9. \A k \in Nat : k = popUsed => Return(k)' = d
  BY <1>3, <1>4, PopTypes DEF PopIInv, Return
<1>10. \A k \in Nat : Returned(k)' => Returned(k) \/ k = popUsed
  BY <1>1, <1>2, <1>3 DEF Returned
<1>11. \A j \in Nat : Offer(j)' = Offer(j) /\ (PopOffered(j)' <=> PopOffered(j))
  BY <1>1 DEF Offer, PopOffered
<1>12. PlacedOnce'
  <2>1. \A j, k \in Nat : PopOffered(j) /\ Returned(k)' => Offer(j) # Return(k)'
    BY <1>2, <1>3, <1>8, <1>9, <1>10 DEF PopIInv, PlacedOnce
  <2>2. \A j, k \in Nat : Returned(j)' /\ Returned(k)' /\ j # k => Return(j)' # Return(k)'
    BY <1>2, <1>3, <1>8, <1>9, <1>10 DEF PopIInv, PlacedOnce
  <2>3. \A k \in Nat : Returned(k)' => Return(k)' \notin popHolds'
    BY <1>2, <1>3, <1>8, <1>9, <1>10 DEF PopIInv, PlacedOnce
  <2>4. \A j \in Nat : PopOffered(j) => Offer(j) \notin popHolds'
    BY <1>3 DEF PopIInv, PlacedOnce
  <2>5. QED BY <1>11, <2>1, <2>2, <2>3, <2>4 DEF PopIInv, PlacedOnce
<1>13. Filled'
  <2> SUFFICES ASSUME NEW k \in Nat, Returned(k)' PROVE popBuf'[Return(k)'] = k
    BY DEF Filled
  <2>1. CASE k = popUsed
    BY <1>3, <1>4, <1>9, <2>1, PopTypes DEF PopIInv
  <2>2. CASE k # popUsed
    <3>1. Returned(k) /\ Return(k)' = Return(k)
      BY <1>8, <1>10, <2>2
    <3>2. Return(k) # d
      BY <1>3, <3>1 DEF PopIInv, PlacedOnce
    <3>3. popBuf[Return(k)] = k
      BY <3>1 DEF PopIInv, Filled
    <3>4. Return(k) \in Slots
      BY Position, PopTypes DEF PopIInv, Return
    <3>5. QED BY <1>3, <3>1, <3>2, <3>3, <3>4, PopTypes DEF PopIInv
  <2>3. QED BY <2>1, <2>2
<1>14. Popping'
  <2>1. popPc # "idle" => last < popUsed /\ Returned(last)
    BY <1>2 DEF PopIInv, Popping, Returned
  <2>2. \A k \in Nat : k = last /\ popPc # "idle" => Return(k)' = Return(k)
    BY <1>8, <2>1
  <2>3. popPc # "idle" => Return(last)' = Return(last)
    BY <1>1, <1>2, <2>2 DEF Return
  <2>4. popPc # "idle" => last < popUsed'
    BY <1>2, <1>3, <2>1
  <2>5. Offer(popAvail)' = Offer(popAvail)
    BY <1>1 DEF Offer
  <2>6. QED BY <1>1, <2>3, <2>4, <2>5 DEF PopIInv, Popping, PopInOrder
<1>15. QED BY <1>6, <1>7, <1>12, <1>13, <1>14 DEF PopIInv

\* Every step of the driver and of the device keeps the invariant.
LEMMA PopStep == PopIInv /\ [PopNext]_popVars => PopIInv'
<1> SUFFICES ASSUME PopIInv, [PopNext]_popVars PROVE PopIInv'
  OBVIOUS
<1>1. CASE PopNext
  BY <1>1, CheckUsedStep, ReadStep, SetRingIndexStep, SetIndexStep, PopTakeStep, CompleteStep
     DEF PopNext, Pop
<1>2. CASE UNCHANGED popVars
  BY <1>2, Zenon DEF popVars, driver, device, PopIInv, PopTypeOK, Counts, PlacedOnce, Filled, Popping, PopInOrder,
              PopOffered, Returned, Offer, Return
<1>3. QED BY <1>1, <1>2

\* Pop returns the completions in the order the device made them, whatever the
\* queue size, the width of the ring indices and the order of completion.
THEOREM PoppedInOrder == PopSpec => []PopInOrder
<1>1. PopIInv => PopInOrder
  BY DEF PopIInv, Popping
<1>2. QED BY <1>1, PopInitInv, PopStep, PTL DEF PopSpec

\* A descriptor is in one place only: offered to the device, held by it, or
\* returned and not yet popped.
THEOREM DescriptorsOnePlace == PopSpec => []OnePlace
<1>1. PopIInv => OnePlace
  BY PopTypes DEF PopIInv, PlacedOnce, OnePlace, Counts, PopOffered, Returned
<1>2. QED BY <1>1, PopInitInv, PopStep, PTL DEF PopSpec

=============================================================================
