------------------------------ MODULE EnetRing ------------------------------
(***************************************************************************)
(* The receive and transmit rings of the NXP ENET driver, shared with the  *)
(* MAC, which walks each ring on its own: it uses a descriptor that has    *)
(* its Empty (receive) or Ready (transmit) bit set and returns to the      *)
(* first one after a descriptor that has its Wrap bit set.                 *)
(***************************************************************************)
EXTENDS Naturals, Sequences, FiniteSets

CONSTANTS
    size,           \* descriptors of a ring
    MaxFrames       \* bound: frames in each direction

VARIABLES
    rx, rxIndex, rxPc,  \* receive descriptors, position and step of the driver
    rxHw,               \* position of the MAC
    arrived, seen,      \* kinds of frames put in the ring, frames delivered
    tx, txIndex, txPc,
    txHw, pushed, sent  \* frames given to the MAC, frames sent

rxVars == <<rx, rxIndex, rxPc, rxHw, arrived, seen>>
txVars == <<tx, txIndex, txPc, txHw, pushed, sent>>
vars == <<rxVars, txVars>>

Slots == 0 .. size - 1

\* The kinds of frames: delivered, rejected by Valid, too large for the buffer
\* of the caller.
Kinds == {"good", "invalid", "large"}

\* the rings of bufferDescriptorRing.init; descriptors with "own" in their status
\* are the MAC's
Fresh(status) ==
    [i \in Slots |-> [status |-> IF i = size - 1 THEN status \cup {"wrap"} ELSE status,
                      frame |-> 0, len |-> 0]]

Init ==
    /\ rx = Fresh({"own"}) /\ rxIndex = 0 /\ rxPc = "idle" /\ rxHw = 0 /\ arrived = <<>> /\ seen = <<>>
    /\ tx = Fresh({}) /\ txIndex = 0 /\ txPc = "idle" /\ txHw = 0 /\ pushed = 0 /\ sent = <<>>

\* bufferDescriptorRing.next
RingNext(i) == IF i = size - 1 THEN 0 ELSE i + 1

\* the MAC moves on
HwNext(ring, i) == IF "wrap" \in ring[i].status THEN 0 ELSE i + 1

-----------------------------------------------------------------------------
(* Receive.                                                                *)

\* the descriptor is not empty
Receive ==
    /\ rxPc = "idle" /\ "own" \notin rx[rxIndex].status
    /\ rxPc' = "copy"
    /\ UNCHANGED <<rx, rxIndex, rxHw, arrived, seen, txVars>>

\* mutant: Valid is not consulted
CopyAny ==
    /\ rxPc = "copy"
    /\ seen' = Append(seen, rx[rxIndex].frame)
    /\ rxPc' = "release"
    /\ UNCHANGED <<rx, rxIndex, rxHw, arrived, txVars>>

\* mutant: every buffer is taken for too small
CopyNone ==
    /\ rxPc = "copy"
    /\ rxPc' = "release"
    /\ UNCHANGED <<rx, rxIndex, rxHw, arrived, seen, txVars>>

\* Valid and Read: only good frames reach the caller
Copy ==
    /\ rxPc = "copy"
    /\ seen' = IF arrived[rx[rxIndex].frame] = "good" THEN Append(seen, rx[rxIndex].frame) ELSE seen
    /\ rxPc' = "release"
    /\ UNCHANGED <<rx, rxIndex, rxHw, arrived, txVars>>

\* set empty, whatever the frame was
Release ==
    /\ rxPc = "release"
    /\ rx' = [rx EXCEPT ![rxIndex].status = @ \cup {"own"}]
    /\ rxIndex' = RingNext(rxIndex)
    /\ rxPc' = "idle"
    /\ UNCHANGED <<rxHw, arrived, seen, txVars>>

\* a frame arrives; without an empty descriptor the MAC drops it
HwReceive ==
    /\ Len(arrived) < MaxFrames
    /\ rxHw \in Slots /\ "own" \in rx[rxHw].status
    /\ \E kind \in Kinds : arrived' = Append(arrived, kind)
    /\ rx' = [rx EXCEPT ![rxHw].status = @ \ {"own"}, ![rxHw].frame = Len(arrived) + 1]
    /\ rxHw' = HwNext(rx, rxHw)
    /\ UNCHANGED <<rxIndex, rxPc, seen, txVars>>

-----------------------------------------------------------------------------
(* Transmit.                                                               *)

\* mutant: a descriptor is taken although its frame was not sent
PushAlways ==
    /\ txPc = "idle" /\ pushed < MaxFrames
    /\ tx' = [tx EXCEPT ![txIndex].len = pushed + 1, ![txIndex].status = {}]
    /\ pushed' = pushed + 1
    /\ txPc' = "write"
    /\ UNCHANGED <<txIndex, txHw, sent, rxVars>>

\* length and status are written, which clears the wrap bit; "frame not sent"
\* if the descriptor is still the MAC's
Push ==
    /\ txPc = "idle" /\ pushed < MaxFrames
    /\ "own" \notin tx[txIndex].status
    /\ tx' = [tx EXCEPT ![txIndex].len = pushed + 1, ![txIndex].status = {}]
    /\ pushed' = pushed + 1
    /\ txPc' = "write"
    /\ UNCHANGED <<txIndex, txHw, sent, rxVars>>

\* the frame
Write ==
    /\ txPc = "write"
    /\ tx' = [tx EXCEPT ![txIndex].frame = pushed]
    /\ txPc' = "wrap"
    /\ UNCHANGED <<txIndex, txHw, pushed, sent, rxVars>>

\* the wrap bit of the last descriptor
Wrap ==
    /\ txPc = "wrap"
    /\ tx' = [tx EXCEPT ![txIndex].status = IF RingNext(txIndex) = 0 THEN @ \cup {"wrap"} ELSE @]
    /\ txPc' = "ready"
    /\ UNCHANGED <<txIndex, txHw, pushed, sent, rxVars>>

\* set ready
Ready ==
    /\ txPc = "ready"
    /\ tx' = [tx EXCEPT ![txIndex].status = @ \cup {"own"}]
    /\ txIndex' = RingNext(txIndex)
    /\ txPc' = "idle"
    /\ UNCHANGED <<txHw, pushed, sent, rxVars>>

HwTransmit ==
    /\ txHw \in Slots /\ "own" \in tx[txHw].status
    /\ sent' = Append(sent, <<tx[txHw].frame, tx[txHw].len>>)
    /\ tx' = [tx EXCEPT ![txHw].status = @ \ {"own"}]
    /\ txHw' = HwNext(tx, txHw)
    /\ UNCHANGED <<txIndex, txPc, pushed, rxVars>>

Next ==
    \/ Receive \/ Copy \/ Release \/ HwReceive
    \/ Push \/ Write \/ Wrap \/ Ready \/ HwTransmit

\* The network stack polls for frames and the MAC sends what is ready.
Spec == Init /\ [][Next]_vars
        /\ WF_rxVars(Receive \/ Copy \/ Release)
        /\ WF_txVars(Write \/ Wrap \/ Ready) /\ WF_txVars(HwTransmit)

-----------------------------------------------------------------------------

\* Frames handed to the caller are the good ones, in the order of their arrival,
\* none twice; a frame is not overwritten while it is copied.
RxInOrder ==
    \A i \in 1 .. Len(seen) :
        /\ arrived[seen[i]] = "good"
        /\ i > 1 => seen[i - 1] < seen[i]
        /\ \A k \in 1 .. seen[i] - 1 : arrived[k] = "good" => \E j \in 1 .. i - 1 : seen[j] = k

\* Frames are sent in the order of the calls, each once, with its own length.
TxInOrder == \A i \in 1 .. Len(sent) : sent[i] = <<i, i>>

\* A good frame in the ring is delivered, bad frames before it notwithstanding.
Delivered == \A k \in 1 .. MaxFrames :
    (k <= Len(arrived) /\ arrived[k] = "good") ~> (\E i \in 1 .. Len(seen) : seen[i] = k)

-----------------------------------------------------------------------------
(***************************************************************************)
(* The event register (EIR): one caller of MDIO22 or MDIO45, which waits   *)
(* for the MII event, and an interrupt handler that calls ClearInterrupt.  *)
(* The register is cleared by writing ones, and reg.Set is a load followed *)
(* by a store.                                                             *)
(***************************************************************************)
CONSTANTS
    Events,         \* events other than MII
    MaxCalls        \* bound: MDIO frames

VARIABLES
    eir,            \* pending events
    mmfr,           \* the frame register: the frame and whether it was transacted
    busy,           \* the controller is transacting the frame
    pc, loaded,     \* the caller of MDIO: step, value loaded by reg.Set
    calls, result,  \* frames asked for, what the last call returned
    hpc, hloaded,   \* the handler: the event it clears, value loaded
    lost            \* events cleared that nobody asked to clear

eventVars == <<eir, mmfr, busy, pc, loaded, calls, result, hpc, hloaded, lost>>
handler == <<hpc, hloaded>>

EventInit ==
    /\ eir = {} /\ mmfr = [frame |-> 0, done |-> TRUE] /\ busy = FALSE
    /\ pc = "idle" /\ loaded = {} /\ calls = 0 /\ result = "none"
    /\ hpc = "none" /\ hloaded = {} /\ lost = {}

\* reg.Set: the load and the store; ones clear
Load(pos) == eir \cup {pos}

Clear(value, pos) ==
    /\ eir' = eir \ value
    /\ lost' = lost \cup ((eir \cap value) \ {pos})

-----------------------------------------------------------------------------

\* reg.Set(hw.eir, IRQ_MII), at the beginning and, deferred, at the end
MDIO ==
    /\ pc = "idle" /\ calls < MaxCalls
    /\ calls' = calls + 1 /\ loaded' = Load("MII") /\ pc' = "clear"
    /\ UNCHANGED <<eir, mmfr, busy, result, handler, lost>>

ClearBefore ==
    /\ pc = "clear" /\ Clear(loaded, "MII") /\ pc' = "write"
    /\ UNCHANGED <<mmfr, busy, loaded, calls, result, handler>>

WriteFrame ==
    /\ pc = "write" /\ mmfr' = [frame |-> calls, done |-> FALSE] /\ busy' = TRUE /\ pc' = "wait"
    /\ UNCHANGED <<eir, loaded, calls, result, handler, lost>>

\* the event is there: the frame is read and the deferred reg.Set begins
WaitFor ==
    /\ pc = "wait" /\ "MII" \in eir
    /\ result' = IF mmfr.done THEN "frame" ELSE "unfinished"
    /\ loaded' = Load("MII") /\ pc' = "after"
    /\ UNCHANGED <<eir, mmfr, busy, calls, handler, lost>>

\* "command timeout": the frame takes microseconds, so the controller is either
\* done or will never be
Timeout ==
    /\ pc = "wait" /\ ~busy /\ "MII" \notin eir
    /\ result' = "timeout" /\ loaded' = Load("MII") /\ pc' = "after"
    /\ UNCHANGED <<eir, mmfr, busy, calls, handler, lost>>

ClearAfter ==
    /\ pc = "after" /\ Clear(loaded, "MII") /\ pc' = "idle"
    /\ UNCHANGED <<mmfr, busy, loaded, calls, result, handler>>

ClearInterruptLoad(e) ==
    /\ hpc = "none" /\ e \in eir
    /\ hpc' = e /\ hloaded' = Load(e)
    /\ UNCHANGED <<eir, mmfr, busy, pc, loaded, calls, result, lost>>

ClearInterrupt ==
    /\ hpc # "none" /\ Clear(hloaded, hpc) /\ hpc' = "none"
    /\ UNCHANGED <<mmfr, busy, pc, loaded, calls, result, hloaded>>

\* the controller: frames sent or received, the MII frame transacted or, with
\* its clock off, not
HwEvent(e) ==
    /\ e \notin eir /\ eir' = eir \cup {e}
    /\ UNCHANGED <<mmfr, busy, pc, loaded, calls, result, handler, lost>>

HwMii ==
    /\ busy /\ busy' = FALSE /\ mmfr' = [mmfr EXCEPT !.done = TRUE] /\ eir' = eir \cup {"MII"}
    /\ UNCHANGED <<pc, loaded, calls, result, handler, lost>>

HwStuck ==
    /\ busy /\ busy' = FALSE
    /\ UNCHANGED <<eir, mmfr, pc, loaded, calls, result, handler, lost>>

Caller == ClearBefore \/ WriteFrame \/ WaitFor \/ Timeout \/ ClearAfter

EventNext ==
    \/ MDIO \/ Caller
    \/ \E e \in Events : ClearInterruptLoad(e) \/ HwEvent(e)
    \/ ClearInterrupt \/ HwMii \/ HwStuck


-----------------------------------------------------------------------------

\* "ClearInterrupt clears the interrupt corresponding to a specific event" and no
\* other; the MDIO functions clear the MII event and no other.
OnlyThatEvent == lost = {}

=============================================================================
