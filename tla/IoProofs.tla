------------------------------ MODULE IoProofs ------------------------------
(***************************************************************************)
(* Proof that the rings of EnetRing keep the order of frames, for every    *)
(* ring size: each frame is in one place, at the distance from the         *)
(* positions of the driver and the MAC that its age says.                  *)
(***************************************************************************)
EXTENDS Naturals, Sequences, TLAPS

CONSTANTS size, MaxFrames, Events, MaxCalls

VARIABLES rx, rxIndex, rxPc, rxHw, arrived, seen, tx, txIndex, txPc, txHw, pushed, sent
VARIABLES eir, mmfr, busy, pc, loaded, calls, result, hpc, hloaded, lost

Ring == INSTANCE EnetRing

\* New makes rings of a descriptor at least.
RingConstants == size \in Nat \ {0}
ASSUME RingAssumption == RingConstants

\* How far slot i is ahead of another, and the slot that is c ahead, around the ring.
Dist(from, i) == IF i >= from THEN i - from ELSE i - from + size
Ahead(from, c) == IF from + c < size THEN from + c ELSE from + c - size

\* The types of the receive side; the last descriptor, and no other, wraps.
RxType ==
    /\ rxIndex \in Ring!Slots /\ rxHw \in Ring!Slots
    /\ rxPc \in {"idle", "copy", "release"}
    /\ DOMAIN rx = Ring!Slots
    /\ \A i \in Ring!Slots : DOMAIN rx[i] = {"status", "frame", "len"}
    /\ \A i \in Ring!Slots : "wrap" \in rx[i].status <=> i = size - 1
    /\ arrived \in Seq(Ring!Kinds)
    /\ seen \in Seq(Nat)

\* The driver holds c frames: those in the c slots from its position on, up to the
\* position of the MAC, are the newest c in the order of arrival.
Held(c) ==
    /\ c \in 0 .. size /\ c <= Len(arrived)
    /\ rxHw = Ahead(rxIndex, c)
    /\ \A i \in Ring!Slots : "own" \in rx[i].status <=> Dist(rxIndex, i) >= c
    /\ \A i \in Ring!Slots : Dist(rxIndex, i) < c => rx[i].frame = Len(arrived) - c + Dist(rxIndex, i) + 1
    /\ rxPc # "idle" => c > 0

\* The callers have seen all good frames among the first p, in the order of arrival.
Handed(p) ==
    /\ \A i \in 1 .. Len(seen) : seen[i] \in 1 .. p /\ arrived[seen[i]] = "good"
    /\ \A i, j \in 1 .. Len(seen) : i < j => seen[i] < seen[j]
    /\ \A k \in 1 .. p : arrived[k] = "good" => \E j \in 1 .. Len(seen) : seen[j] = k

\* The inductive invariant of the receive ring: each frame that arrived is held by the
\* driver or done with.
RxInv ==
    /\ RxType
    /\ \E c \in 0 .. size : Held(c) /\ Handed(Len(arrived) - c + (IF rxPc = "release" THEN 1 ELSE 0))

\* The types of the transmit side.
TxType ==
    /\ txIndex \in Ring!Slots /\ txHw \in Ring!Slots
    /\ txPc \in {"idle", "write", "wrap", "ready"}
    /\ DOMAIN tx = Ring!Slots
    /\ \A i \in Ring!Slots : DOMAIN tx[i] = {"status", "frame", "len"}
    /\ pushed \in Nat
    /\ sent \in Seq(Nat \X Nat)

\* The MAC holds the c frames that follow the ones it has sent, in the c slots from
\* its position on, up to the position of the driver.
Given(c) ==
    /\ c \in 0 .. size
    /\ txIndex = Ahead(txHw, c)
    /\ \A i \in Ring!Slots : "own" \in tx[i].status <=> Dist(txHw, i) < c
    /\ \A i \in Ring!Slots : Dist(txHw, i) < c =>
          LET k == Len(sent) + Dist(txHw, i) + 1 IN tx[i].frame = k /\ tx[i].len = k
    /\ pushed = Len(sent) + c + (IF txPc = "idle" THEN 0 ELSE 1)
    /\ txPc # "idle" => c < size

\* The last descriptor wraps, and a descriptor that is being written is complete by the
\* time that the MAC gets it.
Wrapped ==
    /\ \A i \in Ring!Slots : txPc = "idle" \/ i # txIndex => ("wrap" \in tx[i].status <=> i = size - 1)
    /\ txPc \in {"write", "wrap"} => tx[txIndex].status = {}
    /\ txPc # "idle" => tx[txIndex].len = pushed
    /\ txPc \in {"wrap", "ready"} => tx[txIndex].frame = pushed
    /\ txPc = "ready" => ("wrap" \in tx[txIndex].status <=> txIndex = size - 1)

\* The inductive invariant of the transmit ring.
TxInv == TxType /\ Wrapped /\ Ring!TxInOrder /\ \E c \in 0 .. size : Given(c)

\* The size of a ring, as the proofs below cite it.
LEMMA RingSize == size \in Nat \ {0}
  BY RingAssumption DEF RingConstants

\* Steps around the ring: next moves each distance by one.
LEMMA RingMoves ==
    ASSUME NEW from \in Ring!Slots
    PROVE  /\ Ring!RingNext(from) \in Ring!Slots
           /\ \A i \in Ring!Slots : Dist(from, i) \in Ring!Slots
           /\ \A i \in Ring!Slots : Dist(Ring!RingNext(from), i) = IF i = from THEN size - 1 ELSE Dist(from, i) - 1
           /\ \A c \in 0 .. size : Ahead(from, c) \in Ring!Slots
           /\ \A c \in 0 .. size - 1 : Dist(from, Ahead(from, c)) = c
           /\ \A c \in 0 .. size - 1 : Ahead(from, c + 1) = Ring!RingNext(Ahead(from, c))
           /\ \A c \in 1 .. size : Ahead(Ring!RingNext(from), c - 1) = Ahead(from, c)
           /\ Ahead(from, size) = from /\ Ahead(from, 0) = from /\ Dist(from, from) = 0
           /\ \A i, j \in Ring!Slots : Dist(from, i) = Dist(from, j) => i = j
           /\ \A i \in Ring!Slots : i # from => Dist(from, i) # 0
BY RingSize DEF Ring!Slots, Ring!RingNext, Dist, Ahead

\* The MAC, which goes by the wrap bits, moves as the driver does.
LEMMA HwMoves ==
    ASSUME NEW ring, NEW i \in Ring!Slots, "wrap" \in ring[i].status <=> i = size - 1
    PROVE  Ring!HwNext(ring, i) = Ring!RingNext(i)
BY DEF Ring!HwNext, Ring!RingNext

\* Finding a frame changes nothing that is held.
LEMMA ReceiveStep == RxInv /\ Ring!Receive => RxInv'
<1> SUFFICES ASSUME RxInv, Ring!Receive PROVE RxInv'
  OBVIOUS
<1>1. PICK c \in 0 .. size : Held(c) /\ Handed(Len(arrived) - c + (IF rxPc = "release" THEN 1 ELSE 0))
  BY DEF RxInv
<1>2. rxIndex \in Ring!Slots /\ Dist(rxIndex, rxIndex) = 0
  BY RingMoves DEF RxInv, RxType
<1>3. c > 0
  BY <1>1, <1>2, RingSize DEF Held, Ring!Receive, Ring!Slots
<1>4. Held(c)' /\ RxType'
  BY <1>1, <1>3 DEF Held, Ring!Receive, RxInv, RxType, Dist
<1>5. Handed(Len(arrived) - c + (IF rxPc = "release" THEN 1 ELSE 0))'
  BY <1>1, Zenon DEF Handed, Ring!Receive
<1>6. QED
  BY <1>4, <1>5 DEF RxInv

\* The frame that is copied is the oldest one held; it is seen unless it is rejected.
LEMMA CopyStep == RxInv /\ Ring!Copy => RxInv'
<1> SUFFICES ASSUME RxInv, Ring!Copy PROVE RxInv'
  OBVIOUS
<1>1. PICK c \in 0 .. size : Held(c) /\ Handed(Len(arrived) - c + (IF rxPc = "release" THEN 1 ELSE 0))
  BY DEF RxInv
<1>2. rxIndex \in Ring!Slots /\ Dist(rxIndex, rxIndex) = 0
  BY RingMoves DEF RxInv, RxType
<1>3. c > 0 /\ c <= Len(arrived)
  BY <1>1 DEF Held, Ring!Copy
<1>4. rx[rxIndex].frame = Len(arrived) - c + 1
  <2>1. rx[rxIndex].frame = Len(arrived) - c + Dist(rxIndex, rxIndex) + 1
    BY <1>1, <1>2, <1>3 DEF Held
  <2>2. Len(arrived) \in Nat /\ c \in Nat
    BY RingSize DEF RxInv, RxType
  <2>3. QED
    BY <1>2, <2>1, <2>2
<1>5. PICK p \in Nat : p = Len(arrived) - c
  <2>1. Len(arrived) \in Nat
    BY DEF RxInv, RxType
  <2>2. QED
    BY <1>3, <2>1, RingSize
<1>6. Handed(p)
  BY <1>1, <1>5, RingSize DEF Ring!Copy
<1>7. (p + 1) \in 1 .. Len(arrived)
  BY <1>3, <1>5, RingSize DEF RxInv, RxType
<1>8. (Handed(p + 1))'
  <2>1. CASE arrived[p + 1] = "good"
    <3>1. seen' = Append(seen, p + 1) /\ arrived' = arrived
      BY <1>4, <1>5, <2>1 DEF Ring!Copy
    <3>2. Len(seen') = Len(seen) + 1 /\ Len(seen) \in Nat
      BY <3>1 DEF RxInv, RxType
    <3>3. \A i \in 1 .. Len(seen) : seen'[i] = seen[i]
      BY <3>1 DEF RxInv, RxType
    <3>4. seen'[Len(seen) + 1] = p + 1
      BY <3>1 DEF RxInv, RxType
    <3>5. QED
      BY <1>6, <2>1, <3>1, <3>2, <3>3, <3>4 DEF Handed
  <2>2. CASE arrived[p + 1] # "good"
    <3>1. seen' = seen /\ arrived' = arrived
      BY <1>4, <1>5, <2>2 DEF Ring!Copy
    <3>2. QED
      BY <1>6, <2>2, <3>1 DEF Handed
  <2>3. QED
    BY <2>1, <2>2
<1>9. Held(c)'
  BY <1>1, <1>3 DEF Held, Ring!Copy, Dist
<1>10. RxType'
  <2>1. seen \in Seq(Nat) /\ p + 1 \in Nat
    BY DEF RxInv, RxType
  <2>2. seen' \in Seq(Nat)
    BY <1>4, <1>5, <2>1 DEF Ring!Copy
  <2>3. QED
    BY <2>2 DEF Ring!Copy, RxInv, RxType
<1>11. (Len(arrived) - c + (IF rxPc = "release" THEN 1 ELSE 0))' = p + 1
  BY <1>5 DEF Ring!Copy
<1>12. QED
  BY <1>8, <1>9, <1>10, <1>11 DEF RxInv

\* Releasing the descriptor gives up the oldest frame, and its slot is the farthest of the MAC's.
LEMMA ReleaseStep == RxInv /\ Ring!Release => RxInv'
<1> SUFFICES ASSUME RxInv, Ring!Release PROVE RxInv'
  OBVIOUS
<1>1. PICK c \in 0 .. size : Held(c) /\ Handed(Len(arrived) - c + (IF rxPc = "release" THEN 1 ELSE 0))
  BY DEF RxInv
<1>2. rxIndex \in Ring!Slots /\ RxType /\ c \in 1 .. size /\ c <= Len(arrived)
  BY <1>1, RingSize DEF RxInv, RxType, Held, Ring!Release
<1>3. rxIndex' = Ring!RingNext(rxIndex) /\ rxIndex' \in Ring!Slots /\ rxHw' = Ahead(rxIndex', c - 1)
  BY <1>1, <1>2, RingMoves DEF Held, Ring!Release
<1>4. \A i \in Ring!Slots : Dist(rxIndex', i) = IF i = rxIndex THEN size - 1 ELSE Dist(rxIndex, i) - 1
  BY <1>2, <1>3, RingMoves
<1>5. \A i \in Ring!Slots : Dist(rxIndex, i) \in Ring!Slots /\ (i # rxIndex => Dist(rxIndex, i) # 0)
  BY <1>2, RingMoves, Zenon
<1>6. \A i \in Ring!Slots : i # rxIndex => rx'[i] = rx[i]
  BY <1>2 DEF Ring!Release, RxType
<1>7. rx'[rxIndex].status = rx[rxIndex].status \cup {"own"} /\ DOMAIN rx' = Ring!Slots
      /\ DOMAIN rx'[rxIndex] = {"status", "frame", "len"}
  BY <1>2 DEF Ring!Release, RxType
<1>8. arrived' = arrived /\ seen' = seen /\ rxPc' = "idle" /\ Len(arrived) \in Nat
  BY <1>2 DEF Ring!Release, RxType
<1>9. RxType'
  BY <1>2, <1>3, <1>6, <1>7, <1>8 DEF RxType, Ring!Release
<1>10. Held(c - 1)'
  <2>1. ASSUME NEW i \in Ring!Slots
        PROVE  /\ "own" \in rx'[i].status <=> Dist(rxIndex', i) >= c - 1
               /\ Dist(rxIndex', i) < c - 1 => rx'[i].frame = Len(arrived') - (c - 1) + Dist(rxIndex', i) + 1
    <3>1. c \in Nat /\ size \in Nat /\ Dist(rxIndex, i) \in Nat /\ c <= size
      BY <1>2, <1>5, RingSize DEF Ring!Slots
    <3>2. CASE i = rxIndex
      <4>1. Dist(rxIndex', i) = size - 1
        BY <1>4, <3>2
      <4>2. "own" \in rx'[i].status
        BY <1>7, <3>2
      <4>3. QED
        BY <3>1, <4>1, <4>2
    <3>3. CASE i # rxIndex
      <4>1. Dist(rxIndex', i) = Dist(rxIndex, i) - 1 /\ rx'[i] = rx[i]
        BY <1>4, <1>6, <3>3
      <4>2. /\ "own" \in rx[i].status <=> Dist(rxIndex, i) >= c
            /\ Dist(rxIndex, i) < c => rx[i].frame = Len(arrived) - c + Dist(rxIndex, i) + 1
        BY <1>1 DEF Held
      <4>3. QED
        BY <1>8, <3>1, <4>1, <4>2
    <3>4. QED
      BY <3>2, <3>3
  <2>2. QED
    BY <1>2, <1>3, <1>8, <2>1, RingSize DEF Held
<1>11. (Handed(Len(arrived) - (c - 1) + (IF rxPc = "release" THEN 1 ELSE 0)))'
  BY <1>1, <1>2, <1>8, RingSize DEF Ring!Release, Handed
<1>12. QED
  BY <1>2, <1>9, <1>10, <1>11, RingSize DEF RxInv

\* The MAC fills the slot after those held.
LEMMA HwReceiveStep == RxInv /\ Ring!HwReceive => RxInv'
<1> SUFFICES ASSUME RxInv, Ring!HwReceive PROVE RxInv'
  OBVIOUS
<1>1. PICK c \in 0 .. size : Held(c) /\ Handed(Len(arrived) - c + (IF rxPc = "release" THEN 1 ELSE 0))
  BY DEF RxInv
<1>2. rxIndex \in Ring!Slots /\ rxHw \in Ring!Slots /\ RxType /\ Len(arrived) \in Nat /\ c <= Len(arrived)
  BY <1>1 DEF RxInv, RxType, Held
<1>3. Dist(rxIndex, rxHw) >= c
  BY <1>1, <1>2 DEF Held, Ring!HwReceive
<1>4. c < size /\ Dist(rxIndex, rxHw) = c
  <2>1. c # size
    <3>1. Dist(rxIndex, rxHw) \in Ring!Slots
      BY <1>2, RingMoves, Zenon
    <3>2. QED
      BY <1>3, <3>1, RingSize DEF Ring!Slots
  <2>2. c \in 0 .. size - 1 /\ rxHw = Ahead(rxIndex, c)
    BY <1>1, <2>1, RingSize DEF Held
  <2>3. \A d \in 0 .. size - 1 : Dist(rxIndex, Ahead(rxIndex, d)) = d
    BY <1>2, RingMoves, Zenon
  <2>4. QED
    BY <2>2, <2>3, RingSize
<1>5. rxHw' = Ring!RingNext(rxHw) /\ rxHw' \in Ring!Slots /\ rxHw' = Ahead(rxIndex, c + 1)
  <2>1. rxHw' = Ring!RingNext(rxHw)
    BY <1>2, HwMoves DEF Ring!HwReceive, RxType
  <2>2. c \in 0 .. size - 1 /\ rxHw = Ahead(rxIndex, c)
    BY <1>1, <1>4, RingSize DEF Held
  <2>3. Ring!RingNext(rxHw) \in Ring!Slots /\ \A d \in 0 .. size - 1 : Ahead(rxIndex, d + 1) = Ring!RingNext(Ahead(rxIndex, d))
    BY <1>2, RingMoves, Zenon
  <2>4. QED
    BY <2>1, <2>2, <2>3
<1>6. \A i \in Ring!Slots : i # rxHw => rx'[i] = rx[i] /\ Dist(rxIndex, i) # c
  <2>1. \A i \in Ring!Slots : i # rxHw => rx'[i] = rx[i]
    BY <1>2 DEF Ring!HwReceive, RxType
  <2>2. \A i, j \in Ring!Slots : Dist(rxIndex, i) = Dist(rxIndex, j) => i = j
    BY <1>2, RingMoves, Zenon
  <2>3. QED
    BY <1>2, <1>4, <2>1, <2>2, Zenon
<1>7. rx'[rxHw].status = rx[rxHw].status \ {"own"} /\ rx'[rxHw].frame = Len(arrived) + 1
      /\ DOMAIN rx' = Ring!Slots /\ DOMAIN rx'[rxHw] = {"status", "frame", "len"}
  BY <1>2 DEF Ring!HwReceive, RxType
<1>8. PICK kind \in Ring!Kinds : arrived' = Append(arrived, kind)
  BY DEF Ring!HwReceive
<1>9. arrived' \in Seq(Ring!Kinds) /\ Len(arrived') = Len(arrived) + 1
      /\ \A k \in 1 .. Len(arrived) : arrived'[k] = arrived[k]
  BY <1>2, <1>8 DEF RxType
<1>10. seen' = seen /\ rxPc' = rxPc /\ rxIndex' = rxIndex
  BY DEF Ring!HwReceive
<1>11. RxType'
  BY <1>2, <1>5, <1>6, <1>7, <1>9, <1>10, Zenon DEF RxType
<1>12. Held(c + 1)'
  <2>1. \A i \in Ring!Slots : Dist(rxIndex, i) \in Nat
    BY <1>2, RingMoves DEF Ring!Slots
  <2>2. \A i \in Ring!Slots : "own" \in rx'[i].status <=> Dist(rxIndex', i) >= c + 1
    BY <1>1, <1>4, <1>6, <1>7, <1>10, <2>1 DEF Held
  <2>3. \A i \in Ring!Slots : Dist(rxIndex', i) < c + 1 =>
            rx'[i].frame = Len(arrived') - (c + 1) + Dist(rxIndex', i) + 1
    BY <1>1, <1>2, <1>4, <1>6, <1>7, <1>9, <1>10, <2>1, RingSize DEF Held
  <2>4. QED
    BY <1>1, <1>2, <1>4, <1>5, <1>9, <1>10, <2>2, <2>3, RingSize DEF Held
<1>13. Handed(Len(arrived) - (c + 1) + (IF rxPc = "release" THEN 1 ELSE 0))'
  <2>1. PICK p \in Nat : p = Len(arrived) - c + (IF rxPc = "release" THEN 1 ELSE 0) /\ p <= Len(arrived)
    BY <1>1, <1>2, RingSize DEF Held
  <2>2. Handed(p)'
    <3>1. Handed(p)
      BY <1>1, <2>1
    <3>2. \A k \in 1 .. p : arrived'[k] = arrived[k]
      BY <1>2, <1>9, <2>1
    <3>3. QED
      BY <1>10, <3>1, <3>2 DEF Handed
  <2>3. QED
    BY <1>2, <1>9, <1>10, <2>1, <2>2, RingSize
<1>14. QED
  BY <1>4, <1>11, <1>12, <1>13, RingSize DEF RxInv

\* Transmit takes the slot after those the MAC holds.
LEMMA PushStep == TxInv /\ Ring!Push => TxInv'
<1> SUFFICES ASSUME TxInv, Ring!Push PROVE TxInv'
  OBVIOUS
<1>1. PICK c \in 0 .. size : Given(c)
  BY DEF TxInv
<1>2. txIndex \in Ring!Slots /\ txHw \in Ring!Slots /\ TxType /\ Wrapped /\ pushed \in Nat /\ Len(sent) \in Nat
  BY DEF TxInv, TxType
<1>3. tx'[txIndex].status = {} /\ tx'[txIndex].len = pushed + 1 /\ DOMAIN tx' = Ring!Slots
      /\ DOMAIN tx'[txIndex] = {"status", "frame", "len"}
  BY <1>2 DEF Ring!Push, TxType
<1>4. \A i \in Ring!Slots : i # txIndex => tx'[i] = tx[i]
  BY <1>2 DEF Ring!Push, TxType
<1>5. Dist(txHw, txIndex) \in Nat /\ ~(Dist(txHw, txIndex) < c) /\ c \in Nat /\ c < size
  <2>1. Dist(txHw, txIndex) \in Ring!Slots
    BY <1>2, RingMoves, Zenon
  <2>2. Dist(txHw, txIndex) \in Nat /\ ~(Dist(txHw, txIndex) < c)
    BY <1>1, <1>2, <2>1, RingSize DEF Given, Ring!Push, Ring!Slots
  <2>3. QED
    BY <2>1, <2>2, RingSize DEF Ring!Slots
<1>6. txPc' = "write" /\ pushed' = pushed + 1 /\ txHw' = txHw /\ txIndex' = txIndex /\ sent' = sent
  BY DEF Ring!Push
<1>7. TxType'
  BY <1>2, <1>3, <1>4, <1>6 DEF TxType
<1>8. Wrapped'
  BY <1>2, <1>3, <1>4, <1>6 DEF Wrapped, Ring!Push
<1>9. Given(c)'
  <2>1. \A i \in Ring!Slots : Dist(txHw, i) < c => i # txIndex
    BY <1>5
  <2>2. \A i \in Ring!Slots : "own" \in tx'[i].status <=> "own" \in tx[i].status
    BY <1>3, <1>4 DEF Ring!Push
  <2>3. pushed' = Len(sent') + c + 1
    BY <1>1, <1>2, <1>5, <1>6 DEF Given, Ring!Push
  <2>4. QED
    BY <1>1, <1>4, <1>5, <1>6, <2>1, <2>2, <2>3 DEF Given
<1>10. QED
  BY <1>6, <1>7, <1>8, <1>9 DEF TxInv, Ring!TxInOrder

\* The frame and the wrap bit are written to a slot the MAC does not look at.
LEMMA FillStep == TxInv /\ (Ring!Write \/ Ring!Wrap) => TxInv'
<1> SUFFICES ASSUME TxInv, Ring!Write \/ Ring!Wrap PROVE TxInv'
  OBVIOUS
<1>1. PICK c \in 0 .. size : Given(c)
  BY DEF TxInv
<1>2. txIndex \in Ring!Slots /\ txHw \in Ring!Slots /\ TxType /\ Wrapped /\ pushed \in Nat /\ Len(sent) \in Nat
  BY DEF TxInv, TxType
<1>3. DOMAIN tx' = Ring!Slots /\ DOMAIN tx'[txIndex] = {"status", "frame", "len"}
  BY <1>2 DEF Ring!Write, Ring!Wrap, TxType
<1>4. \A i \in Ring!Slots : i # txIndex => tx'[i] = tx[i]
  BY <1>2 DEF Ring!Write, Ring!Wrap, TxType
<1>5. Dist(txHw, txIndex) = c /\ c < size
  <2>1. c \in 0 .. size - 1 /\ txIndex = Ahead(txHw, c)
    BY <1>1, RingSize DEF Given, Ring!Write, Ring!Wrap
  <2>2. \A d \in 0 .. size - 1 : Dist(txHw, Ahead(txHw, d)) = d
    BY <1>2, RingMoves, Zenon
  <2>3. QED
    BY <2>1, <2>2, RingSize
<1>6. txPc' \in {"wrap", "ready"} /\ txPc # "idle" /\ pushed' = pushed /\ txHw' = txHw
      /\ txIndex' = txIndex /\ sent' = sent
  BY DEF Ring!Write, Ring!Wrap
<1>7. TxType'
  BY <1>2, <1>3, <1>4, <1>6 DEF TxType
<1>8. Wrapped'
  <2>1. \A i \in Ring!Slots : i # txIndex => ("wrap" \in tx'[i].status <=> i = size - 1)
    BY <1>2, <1>4 DEF Wrapped
  <2>2. tx'[txIndex].len = pushed /\ tx'[txIndex].frame = pushed
    BY <1>2 DEF Wrapped, Ring!Write, Ring!Wrap, TxType
  <2>3. txPc' = "wrap" => tx'[txIndex].status = {}
    BY <1>2 DEF Wrapped, Ring!Write, Ring!Wrap, TxType
  <2>4. txPc' = "ready" => ("wrap" \in tx'[txIndex].status <=> txIndex = size - 1)
    <3>1. Ring!RingNext(txIndex) = 0 <=> txIndex = size - 1
      BY <1>2, RingSize DEF Ring!RingNext, Ring!Slots
    <3>2. QED
      BY <1>2, <3>1 DEF Wrapped, Ring!Write, Ring!Wrap, TxType
  <2>5. QED
    BY <1>6, <2>1, <2>2, <2>3, <2>4 DEF Wrapped
<1>9. Given(c)'
  <2>1. \A i \in Ring!Slots : Dist(txHw, i) < c => i # txIndex
    BY <1>2, <1>5, RingMoves DEF Ring!Slots
  <2>2. "own" \in tx'[txIndex].status <=> "own" \in tx[txIndex].status
    BY <1>2 DEF Ring!Write, Ring!Wrap, TxType
  <2>3. \A i \in Ring!Slots : "own" \in tx'[i].status <=> "own" \in tx[i].status
    BY <1>4, <2>2
  <2>4. QED
    BY <1>1, <1>2, <1>4, <1>5, <1>6, <2>1, <2>3 DEF Given
<1>10. QED
  BY <1>6, <1>7, <1>8, <1>9 DEF TxInv, Ring!TxInOrder

\* The ready bit hands the frame over behind the others.
LEMMA ReadyStep == TxInv /\ Ring!Ready => TxInv'
<1> SUFFICES ASSUME TxInv, Ring!Ready PROVE TxInv'
  OBVIOUS
<1>1. PICK c \in 0 .. size : Given(c)
  BY DEF TxInv
<1>2. txIndex \in Ring!Slots /\ txHw \in Ring!Slots /\ TxType /\ Wrapped /\ pushed \in Nat /\ Len(sent) \in Nat
  BY DEF TxInv, TxType
<1>3. DOMAIN tx' = Ring!Slots /\ DOMAIN tx'[txIndex] = {"status", "frame", "len"}
      /\ tx'[txIndex].status = tx[txIndex].status \cup {"own"}
      /\ tx'[txIndex].frame = pushed /\ tx'[txIndex].len = pushed
  BY <1>2 DEF Ring!Ready, TxType, Wrapped
<1>4. \A i \in Ring!Slots : i # txIndex => tx'[i] = tx[i]
  BY <1>2 DEF Ring!Ready, TxType
<1>5. c < size /\ txIndex' = Ahead(txHw, c + 1) /\ txIndex' \in Ring!Slots
      /\ Dist(txHw, txIndex) = c
  <2>1. c \in 0 .. size - 1 /\ txIndex = Ahead(txHw, c)
    BY <1>1, RingSize DEF Given, Ring!Ready
  <2>2. \A d \in 0 .. size - 1 : Dist(txHw, Ahead(txHw, d)) = d
    BY <1>2, RingMoves, Zenon
  <2>3. Ring!RingNext(txIndex) \in Ring!Slots /\ \A d \in 0 .. size - 1 : Ahead(txHw, d + 1) = Ring!RingNext(Ahead(txHw, d))
    BY <1>2, RingMoves, Zenon
  <2>4. QED
    BY <2>1, <2>2, <2>3, RingSize DEF Ring!Ready
<1>6. txPc' = "idle" /\ pushed' = pushed /\ txHw' = txHw /\ sent' = sent
  BY DEF Ring!Ready
<1>7. TxType'
  BY <1>2, <1>3, <1>4, <1>5, <1>6 DEF TxType
<1>8. Wrapped'
  BY <1>2, <1>3, <1>4, <1>6 DEF Wrapped, Ring!Ready
<1>9. Given(c + 1)'
  <2>1. \A i \in Ring!Slots : Dist(txHw, i) \in Nat /\ (i # txIndex => Dist(txHw, i) # c)
    BY <1>2, <1>5, RingMoves DEF Ring!Slots
  <2>2. ASSUME NEW i \in Ring!Slots
        PROVE  /\ "own" \in tx'[i].status <=> Dist(txHw, i) < c + 1
               /\ Dist(txHw, i) < c + 1 => tx'[i].frame = Len(sent) + Dist(txHw, i) + 1
                                          /\ tx'[i].len = Len(sent) + Dist(txHw, i) + 1
    <3>1. CASE i = txIndex
      <4>1. pushed = Len(sent) + c + 1
        BY <1>1 DEF Given, Ring!Ready
      <4>2. QED
        BY <1>2, <1>3, <1>5, <3>1, <4>1
    <3>2. CASE i # txIndex
      <4>1. Dist(txHw, i) < c + 1 <=> Dist(txHw, i) < c
        BY <2>1, <3>2
      <4>2. QED
        BY <1>1, <1>4, <3>2, <4>1 DEF Given
    <3>3. QED
      BY <3>1, <3>2
  <2>3. pushed' = Len(sent') + (c + 1) + 0
    BY <1>1, <1>2, <1>6 DEF Given, Ring!Ready
  <2>4. QED
    BY <1>5, <1>6, <2>2, <2>3, RingSize DEF Given
<1>10. c + 1 \in 0 .. size
  BY <1>5, RingSize
<1>11. QED
  BY <1>6, <1>7, <1>8, <1>9, <1>10 DEF TxInv, Ring!TxInOrder

\* The MAC sends the oldest frame it holds.
LEMMA HwTransmitStep == TxInv /\ Ring!HwTransmit => TxInv'
<1> SUFFICES ASSUME TxInv, Ring!HwTransmit PROVE TxInv'
  OBVIOUS
<1>1. PICK c \in 0 .. size : Given(c)
  BY DEF TxInv
<1>2. txIndex \in Ring!Slots /\ txHw \in Ring!Slots /\ TxType /\ Wrapped /\ pushed \in Nat /\ Len(sent) \in Nat
  BY DEF TxInv, TxType
<1>3. DOMAIN tx' = Ring!Slots /\ DOMAIN tx'[txHw] = {"status", "frame", "len"}
      /\ tx'[txHw].status = tx[txHw].status \ {"own"}
      /\ tx'[txHw].frame = tx[txHw].frame /\ tx'[txHw].len = tx[txHw].len
  BY <1>2 DEF Ring!HwTransmit, TxType
<1>4. \A i \in Ring!Slots : i # txHw => tx'[i] = tx[i]
  BY <1>2 DEF Ring!HwTransmit, TxType
<1>5. Dist(txHw, txHw) = 0 /\ c > 0 /\ c \in 1 .. size
  BY <1>1, <1>2, RingMoves, RingSize DEF Given, Ring!HwTransmit
<1>6. tx[txHw].frame = Len(sent) + 1 /\ tx[txHw].len = Len(sent) + 1
  BY <1>1, <1>2, <1>5 DEF Given
<1>7. sent' = Append(sent, <<Len(sent) + 1, Len(sent) + 1>>) /\ txPc' = txPc /\ pushed' = pushed
      /\ txIndex' = txIndex
  BY <1>6 DEF Ring!HwTransmit
<1>8. sent' \in Seq(Nat \X Nat) /\ Len(sent') = Len(sent) + 1
  BY <1>2, <1>7 DEF TxType
<1>9. Ring!TxInOrder'
  BY <1>2, <1>7 DEF Ring!TxInOrder, TxInv, TxType
<1>10. txPc = "idle" \/ txHw # txIndex
  <2>1. ASSUME txHw = txIndex, txPc # "idle" PROVE FALSE
    <3>1. c \in 0 .. size - 1 /\ txIndex = Ahead(txHw, c)
      BY <1>1, <2>1, RingSize DEF Given
    <3>2. \A d \in 0 .. size - 1 : Dist(txHw, Ahead(txHw, d)) = d
      BY <1>2, RingMoves, Zenon
    <3>3. QED
      BY <1>5, <2>1, <3>1, <3>2
  <2>2. QED
    BY <2>1
<1>11. txHw' = Ring!RingNext(txHw) /\ txHw' \in Ring!Slots /\ txIndex = Ahead(txHw', c - 1)
  <2>1. txHw' = Ring!RingNext(txHw)
    BY <1>2, <1>10, HwMoves DEF Ring!HwTransmit, Wrapped
  <2>2. Ring!RingNext(txHw) \in Ring!Slots /\ \A d \in 1 .. size : Ahead(Ring!RingNext(txHw), d - 1) = Ahead(txHw, d)
    BY <1>2, RingMoves
  <2>3. QED
    BY <1>1, <1>5, <2>1, <2>2 DEF Given
<1>12. TxType'
  BY <1>2, <1>3, <1>4, <1>7, <1>8, <1>11 DEF TxType
<1>13. Wrapped'
  BY <1>2, <1>3, <1>4, <1>7, <1>10 DEF Wrapped
<1>14. Given(c - 1)'
  <2>1. \A i \in Ring!Slots : Dist(txHw', i) = IF i = txHw THEN size - 1 ELSE Dist(txHw, i) - 1
    BY <1>2, <1>11, RingMoves
  <2>2. \A i \in Ring!Slots : Dist(txHw, i) \in Nat
    BY <1>2, RingMoves DEF Ring!Slots
  <2>3. ASSUME NEW i \in Ring!Slots
        PROVE  /\ "own" \in tx'[i].status <=> Dist(txHw', i) < c - 1
               /\ Dist(txHw', i) < c - 1 => tx'[i].frame = Len(sent') + Dist(txHw', i) + 1
                                           /\ tx'[i].len = Len(sent') + Dist(txHw', i) + 1
    <3>1. CASE i = txHw
      BY <1>3, <1>5, <2>1, <3>1, RingSize
    <3>2. CASE i # txHw
      <4>1. Dist(txHw', i) = Dist(txHw, i) - 1 /\ tx'[i] = tx[i] /\ Dist(txHw, i) \in Nat
        BY <1>4, <2>1, <2>2, <3>2
      <4>2. /\ "own" \in tx[i].status <=> Dist(txHw, i) < c
            /\ Dist(txHw, i) < c => tx[i].frame = Len(sent) + Dist(txHw, i) + 1
                                    /\ tx[i].len = Len(sent) + Dist(txHw, i) + 1
        BY <1>1 DEF Given
      <4>3. Dist(txHw', i) < c - 1 <=> Dist(txHw, i) < c
        BY <1>5, <4>1, RingSize
      <4>4. Len(sent') + Dist(txHw', i) + 1 = Len(sent) + Dist(txHw, i) + 1
        BY <1>2, <1>8, <4>1
      <4>5. QED
        BY <4>1, <4>2, <4>3, <4>4
    <3>3. QED
      BY <3>1, <3>2
  <2>4. pushed' = Len(sent') + (c - 1) + (IF txPc' = "idle" THEN 0 ELSE 1)
    BY <1>1, <1>2, <1>5, <1>7, <1>8 DEF Given
  <2>5. QED
    BY <1>1, <1>5, <1>7, <1>11, <2>3, <2>4, RingSize DEF Given
<1>15. c - 1 \in 0 .. size
  BY <1>5, RingSize
<1>16. QED
  BY <1>9, <1>12, <1>13, <1>14, <1>15 DEF TxInv

\* Both rings start empty.
LEMMA RingsInit == Ring!Init => RxInv /\ TxInv
<1> SUFFICES ASSUME Ring!Init PROVE RxInv /\ TxInv
  OBVIOUS
<1>1. 0 \in Ring!Slots /\ Ahead(0, 0) = 0 /\ 0 \in 0 .. size
  BY RingSize DEF Ring!Slots, Ahead
<1>2. \A i \in Ring!Slots : Dist(0, i) \in Nat
  BY <1>1, RingMoves DEF Ring!Slots
<1>3. \A i \in Ring!Slots : /\ rx[i] = [status |-> IF i = size - 1 THEN {"own", "wrap"} ELSE {"own"}, frame |-> 0, len |-> 0]
                            /\ tx[i] = [status |-> IF i = size - 1 THEN {"wrap"} ELSE {}, frame |-> 0, len |-> 0]
  BY DEF Ring!Init, Ring!Fresh
<1>4. RxType /\ TxType
  BY <1>1, <1>3 DEF RxType, TxType, Ring!Init, Ring!Fresh
<1> rxIndex = 0 /\ rxHw = 0 /\ rxPc = "idle" /\ txIndex = 0 /\ txHw = 0 /\ txPc = "idle" /\ pushed = 0
  BY DEF Ring!Init
<1> Len(arrived) = 0 /\ Len(seen) = 0 /\ Len(sent) = 0
  BY DEF Ring!Init
<1>5. Held(0) /\ Handed(0)
  <2>1. \A i \in Ring!Slots : "own" \in rx[i].status
    <3>1. \A i \in Ring!Slots : rx[i].status = IF i = size - 1 THEN {"own"} \cup {"wrap"} ELSE {"own"}
      BY Zenon DEF Ring!Init, Ring!Fresh
    <3>2. QED
      BY <3>1
  <2>2. Held(0)
    BY <1>1, <1>2, <2>1 DEF Held
  <2>3. Handed(0)
    BY DEF Handed
  <2>4. QED
    BY <2>2, <2>3
<1>6. Given(0) /\ Wrapped /\ Ring!TxInOrder
  <2>1. \A i \in Ring!Slots : "own" \notin tx[i].status /\ ("wrap" \in tx[i].status <=> i = size - 1)
    <3>1. \A i \in Ring!Slots : tx[i].status = IF i = size - 1 THEN {} \cup {"wrap"} ELSE {}
      BY Zenon DEF Ring!Init, Ring!Fresh
    <3>2. QED
      BY <3>1
  <2>2. Given(0)
    BY <1>1, <1>2, <2>1 DEF Given
  <2>3. Wrapped
    BY <2>1 DEF Wrapped
  <2>4. Ring!TxInOrder
    BY DEF Ring!TxInOrder
  <2>5. QED
    BY <2>2, <2>3, <2>4
<1>7. Len(arrived) - 0 + (IF rxPc = "release" THEN 1 ELSE 0) = 0
  BY DEF Ring!Init
<1>8. RxInv
  BY <1>1, <1>4, <1>5, <1>7 DEF RxInv
<1>9. QED
  BY <1>1, <1>4, <1>6, <1>8 DEF TxInv

\* Every step of the driver or the MAC keeps both invariants.
LEMMA RingsStep == RxInv /\ TxInv /\ [Ring!Next]_(Ring!vars) => RxInv' /\ TxInv'
<1> SUFFICES ASSUME RxInv, TxInv, [Ring!Next]_(Ring!vars) PROVE RxInv' /\ TxInv'
  OBVIOUS
<1>1. ASSUME UNCHANGED Ring!txVars PROVE TxInv'
  BY <1>1, Zenon DEF Ring!txVars, TxInv, TxType, Given, Wrapped, Ring!TxInOrder, Dist, Ahead
<1>2. ASSUME UNCHANGED Ring!rxVars PROVE RxInv'
  <2>1. rx' = rx /\ rxIndex' = rxIndex /\ rxPc' = rxPc /\ rxHw' = rxHw /\ arrived' = arrived /\ seen' = seen
    BY <1>2, Zenon DEF Ring!rxVars
  <2>2. RxType'
    BY <2>1, Zenon DEF RxInv, RxType
  <2>3. PICK c \in 0 .. size : Held(c) /\ Handed(Len(arrived) - c + (IF rxPc = "release" THEN 1 ELSE 0))
    BY Zenon DEF RxInv
  <2>4. Held(c)'
    BY <2>1, <2>3, Zenon DEF Held, Dist, Ahead
  <2>5. Handed(Len(arrived) - c + (IF rxPc = "release" THEN 1 ELSE 0))'
    BY <2>1, <2>3, Zenon DEF Handed
  <2>6. QED
    BY <2>2, <2>4, <2>5, Zenon DEF RxInv
<1>3. CASE Ring!Receive \/ Ring!Copy \/ Ring!Release \/ Ring!HwReceive
  <2>1. UNCHANGED Ring!txVars
    BY <1>3 DEF Ring!Receive, Ring!Copy, Ring!Release, Ring!HwReceive
  <2>2. QED
    BY <1>1, <1>3, <2>1, ReceiveStep, CopyStep, ReleaseStep, HwReceiveStep
<1>4. CASE Ring!Push \/ Ring!Write \/ Ring!Wrap \/ Ring!Ready \/ Ring!HwTransmit
  <2>1. UNCHANGED Ring!rxVars
    BY <1>4 DEF Ring!Push, Ring!Write, Ring!Wrap, Ring!Ready, Ring!HwTransmit
  <2>2. QED
    BY <1>2, <1>4, <2>1, PushStep, FillStep, ReadyStep, HwTransmitStep
<1>5. CASE UNCHANGED Ring!vars
  BY <1>1, <1>2, <1>5 DEF Ring!vars
<1>6. QED
  BY <1>3, <1>4, <1>5 DEF Ring!Next

\* What was seen is in order, and no good frame before it was left out.
LEMMA RxInvOrdered == RxInv => Ring!RxInOrder
<1> SUFFICES ASSUME RxInv, NEW i \in 1 .. Len(seen)
             PROVE  /\ arrived[seen[i]] = "good"
                    /\ i > 1 => seen[i - 1] < seen[i]
                    /\ \A k \in 1 .. seen[i] - 1 : arrived[k] = "good" => \E j \in 1 .. i - 1 : seen[j] = k
  BY DEF Ring!RxInOrder
<1>1. PICK c \in 0 .. size : Held(c) /\ Handed(Len(arrived) - c + (IF rxPc = "release" THEN 1 ELSE 0))
  BY DEF RxInv
<1>2. Len(arrived) \in Nat /\ Len(seen) \in Nat
  BY DEF RxInv, RxType
<1>3. PICK p \in Nat : p = Len(arrived) - c + (IF rxPc = "release" THEN 1 ELSE 0)
  <2>1. c \in Nat /\ c <= Len(arrived)
    <3>1. c \in 0 .. size /\ c <= Len(arrived)
      BY <1>1, Zenon DEF Held
    <3>2. QED
      BY <3>1, RingSize
  <2> DEFINE r == IF rxPc = "release" THEN 1 ELSE 0
  <2>3. r \in Nat
    OBVIOUS
  <2> HIDE DEF r
  <2>4. Len(arrived) - c + r \in Nat
    BY <1>2, <2>1, <2>3
  <2>5. QED
    BY <2>4, Zenon DEF r
<1>4. Handed(p)
  BY <1>1, <1>3, Zenon
<1>5. arrived[seen[i]] = "good" /\ seen[i] \in 1 .. p
  BY <1>4, Zenon DEF Handed
<1>6. i > 1 => seen[i - 1] < seen[i]
  <2>1. \A k, j \in 1 .. Len(seen) : k < j => seen[k] < seen[j]
    BY <1>4, Zenon DEF Handed
  <2>2. i > 1 => i - 1 \in 1 .. Len(seen) /\ i - 1 < i
    BY <1>2
  <2>3. QED
    BY <2>1, <2>2, Zenon
<1>7. ASSUME NEW k \in 1 .. seen[i] - 1, arrived[k] = "good" PROVE \E j \in 1 .. i - 1 : seen[j] = k
  <2> DEFINE w == seen[i]
  <2>1. w \in 1 .. p /\ k \in 1 .. w - 1
    BY <1>5, <1>7
  <2> HIDE DEF w
  <2>2. k \in 1 .. p /\ k < w /\ ~(w < k)
    BY <1>3, <2>1
  <2>3. PICK j \in 1 .. Len(seen) : seen[j] = k
    BY <1>4, <1>7, <2>2, Zenon DEF Handed
  <2>4. i < j => w < k
    BY <1>4, <2>3, Zenon DEF Handed, w
  <2>5. i # j
    <3>1. k # w
      BY <1>3, <2>1
    <3>2. QED
      BY <2>3, <3>1, Zenon DEF w
  <2>6. ~(i < j) /\ i # j
    BY <2>2, <2>4, <2>5, Zenon
  <2>7. j \in 1 .. i - 1
    BY <1>2, <2>6
  <2>8. QED
    BY <2>3, <2>7, Zenon
<1>8. QED
  BY <1>5, <1>6, <1>7, Zenon

\* Receive hands out the good frames in the order of arrival, none twice.  Transmit:
\* frames are sent in the order of the calls, each with its own length.
RingsInOrder == Ring!RxInOrder /\ Ring!TxInOrder

\* The rings of the Ethernet driver deliver and send frames in order, complete and with
\* their own lengths, for every ring size and however driver and MAC take turns.
THEOREM RingsKeepOrder == Ring!Spec => []RingsInOrder
<1>1. RxInv /\ TxInv => RingsInOrder
  BY RxInvOrdered DEF RingsInOrder, TxInv
<1>2. QED
  BY <1>1, RingsInit, RingsStep, PTL DEF Ring!Spec
=============================================================================
