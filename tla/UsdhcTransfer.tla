---------------------------- MODULE UsdhcTransfer ----------------------------
(***************************************************************************)
(* Data transfers of the NXP uSDHC driver, to the user area of a card and  *)
(* to the replay protected memory block (RPMB) of an eMMC card.  A command *)
(* that times out resets the command path of the controller and leaves its *)
(* data path, and the DMA, to themselves.                                  *)
(***************************************************************************)
EXTENDS Naturals

CONSTANTS
    MovMaxTransfers,   \* bound: calls
    MovMaxFaults    \* bound: failures of the hardware

VARIABLES
    rpmb,           \* hw.rpmb, set by transferRPMB
    want,           \* the call is for the RPMB
    n,              \* calls so far, which name the transfers
    movPc,
    result,         \* what the last call returned
    issued,         \* transfers whose command was issued
    active,         \* transfers whose DMA runs
    ended,          \* transfers whose DMA has ended
    card,           \* state of the card
    partition,      \* partition the card accesses
    tc,             \* transfers whose completion is pending in INT_STATUS
    movFaults

hw == <<active, ended, card, partition>>
vars == <<rpmb, want, n, movPc, result, issued, hw, tc, movFaults>>

Init ==
    /\ rpmb = FALSE /\ want = FALSE /\ n = 0 /\ movPc = "idle" /\ result = "none"
    /\ issued = {} /\ active = {} /\ ended = {} /\ card = "tran"
    /\ partition = "user" /\ tc = {} /\ movFaults = 0

Fault == movFaults < MovMaxFaults /\ movFaults' = movFaults + 1

-----------------------------------------------------------------------------

\* ReadBlocks, WriteBlocks, Read (access FALSE) or ReadRPMB, WriteRPMB, once the
\* lock is taken; empty and misaligned requests return before that
Begin(access) ==
    /\ movPc = "idle" /\ n < MovMaxTransfers
    /\ n' = n + 1 /\ rpmb' = (rpmb \/ access) /\ want' = access
    /\ movPc' = "wait" /\ result' = "none"
    /\ UNCHANGED <<issued, hw, tc, movFaults>>

\* mutant: the flag outlives the call
ReturnKeep(r) ==
    /\ movPc' = "idle" /\ result' = r
    /\ UNCHANGED rpmb

\* the buffers are freed, the flag is cleared, the lock is released
Return(r) ==
    /\ movPc' = "idle" /\ result' = r
    /\ rpmb' = FALSE

\* waitState: CMD13 until the card is in transfer state or 1 ms is over
WaitState ==
    /\ movPc = "wait"
    /\ tc' = {}
    /\ \/ card = "tran" /\ movPc' = (IF rpmb THEN "access" ELSE "clear") /\ UNCHANGED <<rpmb, result, movFaults>>
       \/ card # "tran" /\ Return("error") /\ UNCHANGED movFaults
       \/ Fault /\ Return("error")
    /\ UNCHANGED <<want, n, issued, hw>>

\* the card's response to a write of PARTITION_CONFIG
Switches(p) == IF card = "tran" THEN p ELSE partition

\* partitionAccessMMC(PARTITION_ACCESS_RPMB)
Access ==
    /\ movPc = "access"
    /\ tc' = {}
    /\ \/ partition' = Switches("rpmb") /\ movPc' = "count" /\ UNCHANGED <<rpmb, result, movFaults>>
       \/ Fault /\ partition' \in {partition, Switches("rpmb")} /\ Return("error")
    /\ UNCHANGED <<want, n, issued, active, ended, card>>

\* CMD23; if it fails the partition is not restored
SetBlockCount ==
    /\ movPc = "count"
    /\ tc' = {}
    /\ \/ movPc' = "clear" /\ UNCHANGED <<rpmb, result, movFaults>>
       \/ Fault /\ Return("error")
    /\ UNCHANGED <<want, n, issued, hw>>

\* deferred functions once the data command was tried
Leave(r) ==
    IF rpmb THEN movPc' = "restore" /\ result' = r /\ UNCHANGED rpmb ELSE Return(r)

\* cmd: clear the status, then wait for the command and data paths
Clear ==
    /\ movPc = "clear"
    /\ tc' = {} /\ movPc' = "inhibit"
    /\ UNCHANGED <<rpmb, want, n, result, issued, hw, movFaults>>

Inhibit ==
    /\ movPc = "inhibit"
    /\ \/ active = {} /\ movPc' = "issue" /\ UNCHANGED <<rpmb, result, movFaults>>
       \/ active # {} /\ Leave("error") /\ UNCHANGED movFaults
       \/ Fault /\ Leave("error")
    /\ UNCHANGED <<want, n, issued, hw, tc>>

\* mutant: the status is only cleared before the wait
IssueUncleared ==
    /\ movPc = "issue"
    /\ issued' = issued \cup {n} /\ active' = active \cup {n} /\ card' = "data"
    /\ movPc' = "complete"
    /\ UNCHANGED <<rpmb, want, n, result, ended, partition, tc, movFaults>>

\* clear the status again and issue the command, unless the card is write
\* protected
Issue ==
    /\ movPc = "issue"
    /\ tc' = {}
    /\ \/ /\ issued' = issued \cup {n} /\ active' = active \cup {n} /\ card' = "data"
          /\ movPc' = "complete"
          /\ UNCHANGED <<rpmb, result, movFaults>>
       \/ Fault /\ Leave("error") /\ UNCHANGED <<issued, active, card>>
    /\ UNCHANGED <<want, n, ended, partition>>

\* the transfer is complete
Complete ==
    /\ movPc = "complete" /\ tc # {}
    /\ \/ Leave("ok") /\ UNCHANGED movFaults
       \/ Fault /\ Leave("error")
    /\ UNCHANGED <<want, n, issued, hw, tc>>

\* it is not, within its time
Timeout ==
    /\ movPc = "complete" /\ tc = {}
    /\ movFaults' = movFaults + 1 /\ Leave("error")
    /\ UNCHANGED <<want, n, issued, hw, tc>>

\* the deferred partitionAccessMMC(PARTITION_ACCESS_NONE), whose error is ignored
Restore ==
    /\ movPc = "restore"
    /\ tc' = {} /\ Return(result)
    /\ \/ partition' = Switches("user") /\ UNCHANGED movFaults
       \/ Fault /\ UNCHANGED partition
    /\ UNCHANGED <<want, n, issued, active, ended, card>>

-----------------------------------------------------------------------------
(* The controller and the card.                                            *)

\* the card has sent or taken all data
CardEnds ==
    /\ card = "data" /\ card' = "tran"
    /\ UNCHANGED <<rpmb, want, n, movPc, result, issued, active, ended, partition, tc, movFaults>>

\* the DMA has ended, at any time after that
DmaEnds ==
    /\ card = "tran" /\ active # {}
    /\ active' = {} /\ ended' = ended \cup active /\ tc' = tc \cup active
    /\ UNCHANGED <<rpmb, want, n, movPc, result, issued, card, partition, movFaults>>

Next ==
    \/ \E access \in BOOLEAN : Begin(access)
    \/ WaitState \/ Access \/ SetBlockCount \/ Clear \/ Inhibit \/ Issue
    \/ Complete \/ Timeout \/ Restore
    \/ CardEnds \/ DmaEnds

Spec == Init /\ [][Next]_vars

-----------------------------------------------------------------------------

\* A call that succeeds has transferred its own data: the completion of a
\* transfer that timed out before, even one that comes between the two times
\* the status is cleared, does not end it.
OwnCompletion == result = "ok" => n \in ended

\* Frames for the RPMB go there, and while nothing has failed everything else
\* goes to the user area.
RightPartition ==
    movPc = "issue" =>
        /\ want => partition = "rpmb"
        /\ ~want /\ movFaults = 0 => partition = "user"

\* "eMMC Replay Protected Memory Block (RPMB) operation", the comment of the flag:
\* the RPMB is accessed by operations that set it and by no others.
OnlyRpmbOperations == movPc = "issue" /\ ~want => partition = "user"

=============================================================================
