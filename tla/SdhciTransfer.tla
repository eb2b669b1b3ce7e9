---------------------------- MODULE SdhciTransfer ----------------------------
(***************************************************************************)
(* Block transfers of the Microchip SDHCI driver and their error recovery  *)
(* (soc/microchip/sdhci: transferBlocks, transferDMA, runCommand,          *)
(* stopTransmission, waitState, invalidateTransfer), against a controller  *)
(* and a card that may be late, fail or not answer at any point.           *)
(*                                                                         *)
(* Each command transfer has a number; its DMA buffer, the data line it    *)
(* occupies and the completion it raises carry it.  The driver is called   *)
(* under its lock, so one call runs at a time.                             *)
(***************************************************************************)
EXTENDS Integers

CONSTANTS
    MaxTransfers,   \* bound: transfer commands issued
    MaxChunks       \* bound: transfer commands of a call

None == 0           \* no transfer; they are numbered from 1
Stop == -1          \* the end of busy after CMD12

VARIABLES
    xferReady,      \* SDHCI.ready and controllerReady
    xferPc,         \* where the call is
    cmd,            \* command being run: "xfer", "stop" (CMD12), "status" (CMD13)
    dir, multi,     \* direction; whether the command moves several blocks
    chunks,         \* transfer commands left in the call
    first, id,      \* first transfer of the call, and the current one
    held,           \* transfer whose DMA buffer is reserved
    failed,         \* transferDMA has an error
    ignored,        \* a data line error was ignored
    r1,             \* the last response had an error bit
    late,           \* the deadline of waitState has passed
    xferResult,     \* what the last call returned
    cmdline,        \* controller: command line in use (CMDINHC)
    datline,        \* controller: transfer using the data line (CMDINHD) and DMA
    aborted,        \* controller: the transfer on the data line had an error
    busy,           \* controller: waiting for the end of busy after CMD12
    cmdc, trfc,     \* controller: command complete; whose transfer is complete
    errs,           \* controller: error status, of "cmd" and "dat"
    hung,           \* controller: a reset did not complete
    cardState,      \* card: "tran", "data" (in a transfer) or "prg" (programming)
    done            \* transfers whose data was moved

call == <<dir, multi, chunks, first, id>>
flags == <<failed, ignored, r1, late>>
host == <<cmdline, datline, aborted, busy, cmdc, trfc, errs, hung>>
vars == <<xferReady, xferPc, cmd, call, held, flags, xferResult, host, cardState, done>>

Init ==
    /\ xferReady = TRUE /\ xferPc = "idle" /\ cmd = "status"
    /\ dir = "read" /\ multi = FALSE /\ chunks = 0 /\ first = 0 /\ id = 0
    /\ held = None /\ failed = FALSE /\ ignored = FALSE /\ r1 = FALSE /\ late = FALSE
    /\ xferResult = "none"
    /\ cmdline = FALSE /\ datline = None /\ aborted = FALSE /\ busy = FALSE
    /\ cmdc = FALSE /\ trfc = None /\ errs = {} /\ hung = FALSE
    /\ cardState = "tran" /\ done = {}

-----------------------------------------------------------------------------
(* Calls and returns *)

\* transferBlocks: refused unless Detect has succeeded
Reject ==
    /\ xferPc = "idle" /\ ~xferReady
    /\ xferResult' = "error"
    /\ UNCHANGED <<xferReady, xferPc, cmd, call, held, flags, host, cardState, done>>

\* transferDMA reserves a buffer and issues the command
Begin(m) ==
    /\ id' = id + 1 /\ held' = id + 1 /\ multi' = m
    /\ cmd' = "xfer" /\ xferPc' = "clear"
    /\ failed' = FALSE /\ ignored' = FALSE /\ r1' = FALSE /\ late' = FALSE

TransferBlocks(d, n) ==
    /\ xferPc = "idle" /\ xferReady /\ id + n <= MaxTransfers
    /\ dir' = d /\ chunks' = n - 1 /\ first' = id + 1
    /\ \E m \in BOOLEAN : Begin(m)
    /\ xferResult' = "none"
    /\ UNCHANGED <<xferReady, host, cardState, done>>

Return(res) == xferPc' = "idle" /\ xferResult' = res

\* the end of one command of the call
NextChunk ==
    /\ xferPc = "chunk"
    /\ \/ /\ chunks = 0
          /\ Return("ok")
          /\ UNCHANGED <<cmd, call, held, flags>>
       \/ /\ chunks > 0
          /\ chunks' = chunks - 1
          /\ \E m \in BOOLEAN : Begin(m)
          /\ UNCHANGED <<dir, first, xferResult>>
    /\ UNCHANGED <<xferReady, host, cardState, done>>

\* SDHCI.reset of the command and data paths: done, or not in time
Reset(lines) ==
    \/ /\ cmdline' = IF "cmd" \in lines THEN FALSE ELSE cmdline
       /\ datline' = IF "dat" \in lines THEN None ELSE datline
       /\ busy' = IF "dat" \in lines THEN FALSE ELSE busy
       /\ hung' = FALSE
    \/ /\ hung' = TRUE
       /\ UNCHANGED <<cmdline, datline, busy>>

\* invalidateTransfer: the controller must be initialised again
Invalidate ==
    /\ xferPc = "invalidate"
    /\ xferReady' = FALSE
    /\ Reset({"cmd", "dat"})
    /\ held' = None
    /\ Return("error")
    /\ UNCHANGED <<cmd, call, flags, cmdc, trfc, errs, cardState, done, aborted>>

\* Init and Detect reset the controller and bring the card to transfer state
Reinit ==
    /\ xferPc = "idle" /\ ~xferReady
    /\ xferReady' = TRUE
    /\ cmdline' = FALSE /\ datline' = None /\ aborted' = FALSE /\ busy' = FALSE
    /\ cmdc' = FALSE /\ trfc' = None /\ errs' = {} /\ hung' = FALSE
    /\ cardState' = "tran" /\ xferResult' = "none"
    /\ UNCHANGED <<xferPc, cmd, call, held, flags, done>>

-----------------------------------------------------------------------------
(* runCommand *)

RunCommand ==
    /\ xferPc = "clear"
    /\ cmdc' = FALSE /\ trfc' = None /\ errs' = {}
    /\ xferPc' = "inhibit"
    /\ UNCHANGED <<xferReady, cmd, call, held, flags, xferResult, cmdline, datline, busy,
                   hung, cardState, done, aborted>>

Lines == IF cmd = "status" THEN {"cmd"} ELSE {"cmd", "dat"}
Inhibited == cmdline \/ (cmd = "xfer" /\ datline # None)

Issue ==
    /\ xferPc = "inhibit" /\ ~Inhibited
    /\ cmdline' = TRUE
    /\ datline' = IF cmd = "xfer" THEN id ELSE datline
    /\ aborted' = (aborted /\ cmd # "xfer")
    /\ busy' = (cmd = "stop")
    /\ xferPc' = "poll"
    /\ UNCHANGED <<xferReady, cmd, call, held, flags, xferResult, cmdc, trfc, errs, hung,
                   cardState, done>>

\* a transfer of several blocks that was issued is stopped with CMD12; after
\* any other failure the controller is invalidated
Fail(issued) ==
    /\ failed' = TRUE
    /\ IF cmd = "xfer" /\ multi /\ issued
       THEN cmd' = "stop" /\ xferPc' = "clear" /\ ignored' = FALSE
       ELSE xferPc' = "invalidate" /\ UNCHANGED <<cmd, ignored>>

InhibitTimeout ==
    /\ xferPc = "inhibit" /\ Inhibited
    /\ Reset(Lines)
    /\ Fail(FALSE)
    /\ UNCHANGED <<xferReady, call, held, r1, late, xferResult, cmdc, trfc, errs, cardState,
                   done, aborted>>

\* pollStatusIgnoring: CMD12 ignores data line errors
Ignorable == IF cmd = "stop" THEN {"dat"} ELSE {}

PollIgnore ==
    /\ xferPc = "poll" /\ errs # {} /\ errs \subseteq Ignorable
    /\ ignored' = TRUE /\ errs' = {}
    /\ UNCHANGED <<xferReady, xferPc, cmd, call, held, failed, r1, late, xferResult, cmdline,
                   datline, busy, cmdc, trfc, hung, cardState, done, aborted>>

\* an error, or no completion in time: the lines are reset
PollFail ==
    /\ xferPc = "poll"
    /\ errs \ Ignorable # {} \/ (errs = {} /\ ~cmdc)
    /\ errs' = {}
    /\ Reset(Lines)
    /\ Fail(TRUE)
    /\ UNCHANGED <<xferReady, call, held, r1, late, xferResult, cmdc, trfc, cardState, done,
                   aborted>>

\* the command is complete; the response is checked by the caller
PollDone ==
    /\ xferPc = "poll" /\ errs = {} /\ cmdc
    /\ cmdc' = FALSE
    /\ r1' \in BOOLEAN
    /\ xferPc' = CASE cmd = "xfer" -> "response"
               [] cmd = "stop" -> IF ignored THEN "resetdat" ELSE "busy"
               [] cmd = "status" -> "state"
    /\ UNCHANGED <<xferReady, cmd, call, held, failed, ignored, late, xferResult,
                   cmdline, datline, busy, trfc, errs, hung, cardState, done, aborted>>

-----------------------------------------------------------------------------
(* transferDMA, after the command *)

Response ==
    /\ xferPc = "response"
    /\ IF r1 THEN Fail(TRUE) ELSE xferPc' = "data" /\ UNCHANGED <<cmd, failed, ignored>>
    /\ UNCHANGED <<xferReady, call, held, r1, late, xferResult, host, cardState, done>>

\* mutant: a write does not wait for the card
DataDoneNoWait ==
    /\ xferPc = "data" /\ errs = {} /\ trfc # None
    /\ trfc' = None
    /\ held' = None
    /\ xferPc' = "chunk" /\ UNCHANGED cmd
    /\ UNCHANGED <<xferReady, call, flags, xferResult, cmdline, datline, busy, cmdc, errs, hung,
                   cardState, done, aborted>>

\* the transfer is complete: the buffer is released, and a write waits for the
\* card to leave programming state
DataDone ==
    /\ xferPc = "data" /\ errs = {} /\ trfc # None
    /\ trfc' = None
    /\ held' = None
    /\ IF dir = "write" THEN cmd' = "status" /\ xferPc' = "clear"
       ELSE xferPc' = "chunk" /\ UNCHANGED cmd
    /\ UNCHANGED <<xferReady, call, flags, xferResult, cmdline, datline, busy, cmdc, errs, hung,
                   cardState, done, aborted>>

\* mutant: the buffer is released before CMD12
DataFailRelease ==
    /\ xferPc = "data" /\ (errs # {} \/ trfc = None)
    /\ errs' = {}
    /\ Fail(TRUE)
    /\ held' = None
    /\ UNCHANGED <<xferReady, call, r1, late, xferResult, cmdline, datline, busy, cmdc,
                   trfc, hung, cardState, done, aborted>>

DataFail ==
    /\ xferPc = "data" /\ (errs # {} \/ trfc = None)
    /\ errs' = {}
    /\ Fail(TRUE)
    /\ UNCHANGED <<xferReady, call, held, r1, late, xferResult, cmdline, datline, busy,
                   cmdc, trfc, hung, cardState, done, aborted>>

\* stopTransmission: the end of busy, or a reset of the data line ...
WaitBusy ==
    /\ xferPc = "busy"
    /\ xferPc' = "resetdat"
    /\ \/ /\ errs = {} /\ trfc # None
          /\ trfc' = None
          /\ UNCHANGED <<cmdline, datline, busy, errs, hung>>
       \/ /\ errs # {} \/ trfc = None
          /\ errs' = {}
          /\ Reset({"dat"})
          /\ UNCHANGED trfc
    /\ UNCHANGED <<xferReady, cmd, call, held, flags, xferResult, cmdc, cardState, done,
                   aborted>>

\* ... a reset of the data line in any case, then the state of the card
ResetData ==
    /\ xferPc = "resetdat"
    /\ Reset({"dat"})
    /\ IF hung' \/ r1 THEN xferPc' = "invalidate" /\ UNCHANGED cmd
       ELSE cmd' = "status" /\ xferPc' = "clear"
    /\ UNCHANGED <<xferReady, call, held, flags, xferResult, cmdc, trfc, errs, cardState,
                   done, aborted>>

\* mutant: the state of the card is not looked at after CMD12
WaitStateStopped ==
    /\ xferPc = "state"
    /\ IF r1 THEN xferPc' = "invalidate"
       ELSE IF failed THEN xferPc' = "released"
       ELSE IF cardState = "tran" THEN xferPc' = "chunk"
       ELSE xferPc' = IF late THEN "invalidate" ELSE "clear"
    /\ UNCHANGED <<xferReady, cmd, call, held, flags, xferResult, host, cardState, done>>

\* waitState(TRAN): CMD13 until the card is in transfer state or it takes too long
WaitState ==
    /\ xferPc = "state"
    /\ IF r1 THEN xferPc' = "invalidate"
       ELSE IF cardState = "tran" THEN xferPc' = IF failed THEN "released" ELSE "chunk"
       ELSE xferPc' = IF late THEN "invalidate" ELSE "clear"
    /\ UNCHANGED <<xferReady, cmd, call, held, flags, xferResult, host, cardState, done>>

Deadline ==
    /\ cmd = "status" /\ xferPc # "idle" /\ ~late
    /\ late' = TRUE
    /\ UNCHANGED <<xferReady, xferPc, cmd, call, held, failed, ignored, r1, xferResult, host,
                   cardState, done>>

\* the stopped transfer returns its error, the controller stays ready
Stopped ==
    /\ xferPc = "released"
    /\ held' = None
    /\ Return("error")
    /\ UNCHANGED <<xferReady, cmd, call, flags, host, cardState, done>>

Driver ==
    \/ NextChunk \/ Invalidate \/ RunCommand \/ Issue \/ InhibitTimeout
    \/ PollIgnore \/ PollFail \/ PollDone \/ Response \/ DataDone \/ DataFail
    \/ WaitBusy \/ ResetData \/ WaitState \/ Stopped

-----------------------------------------------------------------------------
(* Controller and card *)

\* the card takes the command on the line, if it can in its state
CardTakes ==
    cardState' \in CASE cmd = "xfer" /\ cardState = "tran" -> {"data"}
                [] cmd = "stop" /\ cardState = "data" ->
                       IF dir = "write" THEN {"prg", "tran"} ELSE {"tran"}
                [] OTHER -> {cardState}

Answers ==
    \/ cmd = "status"
    \/ cmd = "xfer" /\ cardState = "tran"
    \/ cmd = "stop" /\ cardState = "data"

HwCommand ==
    /\ cmdline /\ xferPc = "poll" /\ Answers
    /\ CardTakes
    /\ \/ cmdline' = FALSE /\ cmdc' = TRUE /\ UNCHANGED errs
       \/ cmdline' = FALSE /\ errs' = errs \cup {"cmd"} /\ UNCHANGED cmdc
    /\ UNCHANGED <<xferReady, xferPc, cmd, call, held, flags, xferResult, datline, busy,
                   trfc, hung, done, aborted>>

\* no response
HwNoResponse ==
    /\ cmdline /\ xferPc = "poll"
    /\ cmdline' = FALSE /\ errs' = errs \cup {"cmd"}
    /\ UNCHANGED <<xferReady, xferPc, cmd, call, held, flags, xferResult, datline, busy,
                   cmdc, trfc, hung, cardState, done, aborted>>

\* the data is moved; a card may be programming after a write
HwData ==
    /\ datline # None /\ cardState = "data" /\ ~aborted
    /\ trfc' = datline /\ done' = done \cup {datline}
    /\ datline' = None
    /\ cardState' \in IF dir = "write" THEN {"prg", "tran"} ELSE {"tran"}
    /\ UNCHANGED <<xferReady, xferPc, cmd, call, held, flags, xferResult, cmdline, busy,
                   cmdc, errs, hung, aborted>>

\* a data error: the data line stays in use, and the card in the transfer if it
\* has more blocks to move
HwDataError ==
    /\ datline # None /\ cardState = "data" /\ ~aborted
    /\ errs' = errs \cup {"dat"} /\ aborted' = TRUE
    /\ cardState' = IF multi THEN cardState ELSE "tran"
    /\ UNCHANGED <<xferReady, xferPc, cmd, call, held, flags, xferResult, cmdline, datline,
                   busy, cmdc, trfc, hung, done>>

HwBusyEnd ==
    /\ busy /\ ~cmdline /\ cardState # "prg"
    /\ busy' = FALSE /\ trfc' = Stop
    /\ UNCHANGED <<xferReady, xferPc, cmd, call, held, flags, xferResult, cmdline, datline,
                   cmdc, errs, hung, cardState, done, aborted>>

CardProgrammed ==
    /\ cardState = "prg"
    /\ cardState' = "tran"
    /\ UNCHANGED <<xferReady, xferPc, cmd, call, held, flags, xferResult, host, done>>

Hardware ==
    HwCommand \/ HwNoResponse \/ HwData \/ HwDataError \/ HwBusyEnd \/ CardProgrammed

Next ==
    \/ \E d \in {"read", "write"}, n \in 1 .. MaxChunks : TransferBlocks(d, n)
    \/ Reject \/ Reinit \/ Driver \/ Deadline \/ Hardware

Spec == Init /\ [][Next]_vars

-----------------------------------------------------------------------------

\* A DMA buffer goes back to the region only when the controller no longer uses
\* it: CMD12 and the resets come before the release, unless a reset fails.
DmaQuiet == datline # None /\ ~hung => held = datline

\* A call that fails and leaves the controller ready has brought controller and
\* card back to where the next transfer can start.
ReadyClean == xferReady /\ xferPc = "idle" => cardState = "tran" /\ datline = None /\ ~cmdline

\* A call that returns no error has moved the data of all its commands, and
\* the card has finished programming.
OkMeansDone == xferResult = "ok" => first .. id \subseteq done /\ cardState = "tran"

=============================================================================
