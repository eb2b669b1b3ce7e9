------------------------------- MODULE ArmIrq -------------------------------
(***************************************************************************)
(* Interrupts on ARM and ARM64: the exception handler signals the          *)
(* goroutine of ServiceInterrupts and returns with interrupts masked, the  *)
(* goroutine services one interrupt of the GIC (version 2 on ARM, 3 on     *)
(* ARM64) and unmasks them.  The processor sleeps when no goroutine can    *)
(* run.  A device holds its line until it is serviced or disabled.         *)
(***************************************************************************)
EXTENDS Naturals

CONSTANTS
    Lines,          \* interrupt identifiers
    MaxAsserts      \* bound: interrupts of the devices

VARIABLES
    version,            \* of the GIC
    enabled, wanted,    \* interrupts that are forwarded; those drivers enabled last
    asserted,           \* lines that devices hold
    irqMasked,          \* CPSR.I, PSTATE.I
    signalled, notified,    \* Relay was called; the channel holds a signal
    serving,            \* ServiceInterrupts: "enable", "wait", "isr", "handle"
    current,            \* the interrupt the service function got
    idling,             \* "no", "idle": the scheduler found nothing, "asleep"
    asserts

armIrqVars == <<version, enabled, wanted, asserted, irqMasked, signalled, notified, serving, current,
                idling, asserts>>

Spurious == 1023

Init ==
    /\ version \in {2, 3}
    /\ enabled = {} /\ wanted = {} /\ asserted = {}
    /\ irqMasked = TRUE /\ signalled = FALSE /\ notified = FALSE
    /\ serving = "enable" /\ current = Spurious
    /\ idling = "no" /\ asserts = 0

Pending == enabled \cap asserted

\* goroutines run unless the processor is about to sleep
Awake == idling = "no"

\* GIC.irq(m, true)
EnableInterrupt(m) ==
    /\ Awake
    /\ enabled' = enabled \cup {m} /\ wanted' = wanted \cup {m}
    /\ UNCHANGED <<version, asserted, irqMasked, signalled, notified, serving, current, idling, asserts>>

\* GIC.irq(m, false): version 3 reads ICENABLER, which has the enabled
\* interrupts of the word, and writes ones back for all of them
Disabled(m) ==
    IF version = 3 THEN {k \in enabled : k \div 32 = m \div 32} \cup {m} ELSE {m}

DisableInterrupt(m) ==
    /\ Awake
    /\ enabled' = enabled \ Disabled(m) /\ wanted' = wanted \ {m}
    /\ UNCHANGED <<version, asserted, irqMasked, signalled, notified, serving, current, idling, asserts>>

Assert(m) ==
    /\ m \notin asserted /\ asserts < MaxAsserts
    /\ asserted' = asserted \cup {m} /\ asserts' = asserts + 1
    /\ UNCHANGED <<version, enabled, wanted, irqMasked, signalled, notified, serving, current, idling>>

-----------------------------------------------------------------------------

\* irqHandler, handleInterrupt: the saved status has interrupts masked
irqHandler ==
    /\ Pending # {} /\ ~irqMasked
    /\ signalled' = TRUE /\ irqMasked' = TRUE
    /\ idling' = IF idling = "asleep" THEN "no" ELSE idling
    /\ UNCHANGED <<version, enabled, wanted, asserted, notified, serving, current, asserts>>

\* os/signal passes it on, unless the channel is full
Deliver ==
    /\ signalled /\ Awake
    /\ signalled' = FALSE /\ notified' = TRUE
    /\ UNCHANGED <<version, enabled, wanted, asserted, irqMasked, serving, current, idling, asserts>>

\* ServiceInterrupts
irq_enable ==
    /\ serving = "enable" /\ Awake
    /\ irqMasked' = FALSE /\ serving' = "wait"
    /\ UNCHANGED <<version, enabled, wanted, asserted, signalled, notified, current, idling, asserts>>

Receive ==
    /\ serving = "wait" /\ notified /\ Awake
    /\ notified' = FALSE /\ serving' = "isr"
    /\ UNCHANGED <<version, enabled, wanted, asserted, irqMasked, signalled, current, idling, asserts>>

\* the interrupt is acknowledged and ended at once
GetInterrupt ==
    /\ serving = "isr" /\ Awake
    /\ IF Pending = {} THEN current' = Spurious ELSE current' \in Pending
    /\ serving' = "handle"
    /\ UNCHANGED <<version, enabled, wanted, asserted, irqMasked, signalled, notified, idling, asserts>>

\* mutant: the goroutine waits again without unmasking
HandledMasked ==
    /\ serving = "handle" /\ Awake
    /\ asserted' = asserted \ {current}
    /\ serving' = "wait"
    /\ UNCHANGED <<version, enabled, wanted, irqMasked, signalled, notified, current, idling, asserts>>

\* the service function makes the device release its line
Handled ==
    /\ serving = "handle" /\ Awake
    /\ asserted' = asserted \ {current}
    /\ serving' = "enable"
    /\ UNCHANGED <<version, enabled, wanted, irqMasked, signalled, notified, current, idling, asserts>>

-----------------------------------------------------------------------------

\* no goroutine can run: the governor is called
Idle ==
    /\ Awake /\ serving = "wait" /\ ~notified /\ ~signalled
    /\ idling' = "idle"
    /\ UNCHANGED <<version, enabled, wanted, asserted, irqMasked, signalled, notified, serving, current, asserts>>

\* mutant: the processor sleeps although an interrupt is pending
wfiMasked ==
    /\ idling = "idle"
    /\ idling' = IF Pending # {} /\ ~irqMasked THEN "no" ELSE "asleep"
    /\ UNCHANGED <<version, enabled, wanted, asserted, irqMasked, signalled, notified, serving, current, asserts>>

\* WFI returns at once when an interrupt is pending, masked or not
wfi ==
    /\ idling = "idle"
    /\ idling' = IF Pending # {} THEN "no" ELSE "asleep"
    /\ UNCHANGED <<version, enabled, wanted, asserted, irqMasked, signalled, notified, serving, current, asserts>>

WakeUp ==
    /\ idling = "asleep" /\ Pending # {}
    /\ idling' = "no"
    /\ UNCHANGED <<version, enabled, wanted, asserted, irqMasked, signalled, notified, serving, current, asserts>>

Next ==
    \/ \E m \in Lines : EnableInterrupt(m) \/ DisableInterrupt(m) \/ Assert(m)
    \/ irqHandler \/ Deliver \/ irq_enable \/ Receive \/ GetInterrupt \/ Handled
    \/ Idle \/ wfi \/ WakeUp

Spec == Init /\ [][Next]_armIrqVars

-----------------------------------------------------------------------------

\* Interrupts are masked only while ServiceInterrupts has been told to service one,
\* or is doing so, after which it unmasks them.
Attended == irqMasked => signalled \/ notified \/ serving # "wait"

\* The processor does not sleep while ServiceInterrupts has an interrupt to service.
SleepsServiced == idling = "asleep" => ~signalled /\ ~notified

\* "DisableInterrupt disables forwarding of the corresponding interrupt to the CPU":
\* of no other.
OnlyThatInterrupt == enabled = wanted

=============================================================================
