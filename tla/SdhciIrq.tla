------------------------------ MODULE SdhciIrq ------------------------------
(***************************************************************************)
(* The wait for the end of a transfer in the Microchip SDHCI driver: a     *)
(* caller that polls the status, spins for a while and then sleeps until   *)
(* the interrupt handler, which runs beside it and can be late, wakes it.  *)
(***************************************************************************)
EXTENDS Naturals

CONSTANT MaxWaits   \* bound: waits of the caller

VARIABLES
    status,         \* pending in NISTR and EISTR
    nisier, eisier, \* signals enabled
    event,          \* the channel holds a wakeup
    wpc, seen,      \* the caller and the status it read
    hpc,            \* the handler
    expired,        \* the deadline has passed
    irqResult, waits

regs == <<status, nisier, eisier>>
vars == <<regs, event, wpc, seen, hpc, expired, irqResult, waits>>

Init ==
    /\ status = {} /\ nisier = FALSE /\ eisier = FALSE
    /\ event = FALSE /\ wpc = "idle" /\ seen = {} /\ hpc = "idle"
    /\ expired = FALSE /\ irqResult = "none" /\ waits = 0

\* the interrupt line
Asserted == (nisier /\ "TRFC" \in status) \/ (eisier /\ "ERR" \in status)

\* the next command: runCommand clears what is pending
Begin ==
    /\ wpc = "idle" /\ waits < MaxWaits
    /\ status' = {} /\ irqResult' = "none" /\ expired' = FALSE /\ waits' = waits + 1
    /\ wpc' = "read"
    /\ UNCHANGED <<nisier, eisier, event, seen, hpc>>

\* pollStatusIgnoring: the status is read, detailed errors are cleared
ReadStatus ==
    /\ wpc = "read"
    /\ seen' = status
    /\ status' = status \ {"ERR"}
    /\ wpc' = "check"
    /\ UNCHANGED <<nisier, eisier, event, hpc, expired, irqResult, waits>>

Ends(r) ==
    /\ irqResult' = r /\ wpc' = "idle"
    /\ UNCHANGED <<nisier, eisier, event, seen, hpc, expired, waits>>

\* an error that is not ignored, or the expected status
Finish ==
    /\ wpc = "check"
    /\ \/ "ERR" \in seen /\ UNCHANGED status /\ Ends("error")
       \/ "TRFC" \in seen /\ status' = status \ {"TRFC"} /\ Ends("done")

Timeout ==
    /\ wpc = "check" /\ "TRFC" \notin seen /\ expired
    /\ UNCHANGED status /\ Ends("timeout")

\* still spinning
Spin ==
    /\ wpc = "check" /\ "TRFC" \notin seen /\ ~expired
    /\ wpc' = "read"
    /\ UNCHANGED <<regs, event, seen, hpc, expired, irqResult, waits>>

\* waitInterrupt: discard a wakeup left by an earlier wait
Discard ==
    /\ wpc = "check" /\ "TRFC" \notin seen /\ ~expired
    /\ event' = FALSE
    /\ wpc' = "errors"
    /\ UNCHANGED <<regs, seen, hpc, expired, irqResult, waits>>

EnableErrors ==
    /\ wpc = "errors"
    /\ eisier' = TRUE
    /\ wpc' = "normal"
    /\ UNCHANGED <<status, nisier, event, seen, hpc, expired, irqResult, waits>>

EnableNormal ==
    /\ wpc = "normal"
    /\ nisier' = TRUE
    /\ wpc' = "sleep"
    /\ UNCHANGED <<status, eisier, event, seen, hpc, expired, irqResult, waits>>

\* the handler has sent a wakeup
Woken ==
    /\ wpc = "sleep" /\ event
    /\ event' = FALSE
    /\ wpc' = "mask"
    /\ UNCHANGED <<regs, seen, hpc, expired, irqResult, waits>>

\* the timer, at the latest at the deadline
Timer ==
    /\ wpc = "sleep"
    /\ expired' \in {expired, TRUE}
    /\ wpc' = "mask"
    /\ UNCHANGED <<regs, event, seen, hpc, irqResult, waits>>

Mask ==
    /\ wpc = "mask"
    /\ nisier' = FALSE /\ eisier' = FALSE
    /\ wpc' = "read"
    /\ UNCHANGED <<status, event, seen, hpc, expired, irqResult, waits>>

-----------------------------------------------------------------------------
(* The handler, a routine that runs after the interrupt was taken.         *)

Interrupt ==
    /\ hpc = "idle" /\ Asserted
    /\ hpc' = "mask"
    /\ UNCHANGED <<regs, event, wpc, seen, expired, irqResult, waits>>

\* ServiceInterrupts masks the signals
ServiceMask ==
    /\ hpc \in {"mask", "errors"}
    /\ nisier' = (nisier /\ hpc # "mask") /\ eisier' = (eisier /\ hpc # "errors")
    /\ hpc' = IF hpc = "mask" THEN "errors" ELSE "wake"
    /\ UNCHANGED <<status, event, wpc, seen, expired, irqResult, waits>>

\* mutant: the handler waits for the status to be cleared first
ServiceWakeClear ==
    /\ hpc = "wake" /\ status = {}
    /\ event' = TRUE
    /\ hpc' = "idle"
    /\ UNCHANGED <<regs, wpc, seen, expired, irqResult, waits>>

\* and wakes the caller, unless a wakeup is there
ServiceWake ==
    /\ hpc = "wake"
    /\ event' = TRUE
    /\ hpc' = "idle"
    /\ UNCHANGED <<regs, wpc, seen, expired, irqResult, waits>>

-----------------------------------------------------------------------------
(* The controller, and time.                                               *)

HwEnds ==
    /\ wpc # "idle" /\ status = {} /\ irqResult = "none"
    /\ status' \in {{"TRFC"}, {"ERR"}, {"TRFC", "ERR"}}
    /\ UNCHANGED <<nisier, eisier, event, wpc, seen, hpc, expired, irqResult, waits>>

Expire ==
    /\ wpc # "idle" /\ ~expired
    /\ expired' = TRUE
    /\ UNCHANGED <<regs, event, wpc, seen, hpc, irqResult, waits>>

Caller == ReadStatus \/ Finish \/ Timeout \/ Spin \/ Discard \/ EnableErrors
          \/ EnableNormal \/ Woken \/ Timer \/ Mask

Handler == Interrupt \/ ServiceMask \/ ServiceWake

Next == Begin \/ Caller \/ Handler \/ HwEnds \/ Expire

\* the caller without its timer, which is not assumed to fire
Awake == ReadStatus \/ Finish \/ Timeout \/ Spin \/ Discard \/ EnableErrors
         \/ EnableNormal \/ Woken \/ Mask

Spec == Init /\ [][Next]_vars /\ WF_vars(Handler) /\ WF_vars(Awake)

-----------------------------------------------------------------------------

\* The interrupt alone wakes a caller whose transfer has ended.
WokenByInterrupt == (wpc = "sleep" /\ status # {}) ~> wpc # "sleep"

=============================================================================
