------------------------------ MODULE Amd64Cpu ------------------------------
(***************************************************************************)
(* Interrupts on AMD64: the bootstrap processor (0) handles them, by       *)
(* signalling the goroutine of ServiceInterrupts, which any processor may  *)
(* run; idle processors halt.  With several processors the end of service  *)
(* is relayed to the bootstrap processor by an interrupt of its own.       *)
(*                                                                         *)
(* User interrupts are of one priority class, below that of the relay, so  *)
(* that the local APIC holds others back until the end of interrupt.       *)
(***************************************************************************)
EXTENDS Naturals, FiniteSets

CONSTANTS
    Cpus,           \* processors, 0 is the bootstrap processor
    Vectors,        \* vectors of user interrupts
    MaxIrqs,        \* bound: interrupts raised
    EarlyIrqs       \* interrupts are also raised before the service is ready

VARIABLES
    smp,            \* application processors are in use
    irr, inService, \* local APIC: requested, in service
    relayed,        \* IRQ_RELAY is requested
    isr, irqHandling, irqLock,
    cpu,            \* processors: "sched", "wfi", "hlt", "halted", "run", "off"
    wake,           \* processors to which IRQ_WAKEUP was sent
    sig, chan,      \* the signal is queued, the channel of Notify is full
    srv,            \* ServiceInterrupts: "clear", "unlock", "wait", "serve"
    runner,         \* the processor that runs it
    ready,          \* the first ClearInterrupt is over
    unserved,       \* interrupts that were handled and not given to isr yet
    raised

irqVars == <<smp, irr, inService, relayed, isr, irqHandling, irqLock, cpu, wake, sig, chan, srv,
             runner, ready, unserved, raised>>

NoCpu == Cardinality(Cpus)
NoVector == "none"

Init ==
    /\ smp \in BOOLEAN
    /\ irr = {} /\ inService = {} /\ relayed = FALSE
    /\ isr = NoVector /\ irqHandling = FALSE /\ irqLock = FALSE
    /\ cpu = [c \in Cpus |-> IF c = 0 THEN "run" ELSE IF smp THEN "sched" ELSE "off"]
    /\ wake = {}
    /\ sig = FALSE /\ chan = FALSE
    /\ srv = "clear" /\ runner = 0 /\ ready = FALSE
    /\ unserved = {} /\ raised = 0

Raise(v) ==
    /\ ready \/ EarlyIrqs
    /\ raised < MaxIrqs
    /\ v \notin irr
    /\ irr' = irr \cup {v} /\ raised' = raised + 1
    /\ UNCHANGED <<smp, inService, relayed, isr, irqHandling, irqLock, cpu, wake, sig, chan, srv,
                   runner, ready, unserved>>

-----------------------------------------------------------------------------
(* Interrupt handlers, which run with interrupts disabled.                 *)

\* interrupts are disabled in handlers and from CLI to HLT in wfi
Interruptible == ~irqHandling /\ cpu[0] # "hlt"

Resume(c) == IF cpu[c] = "halted" THEN "sched" ELSE cpu[c]

\* handleInterrupt: the vector is noted and the signal queued ...
handleInterrupt(v) ==
    /\ Interruptible /\ v \in irr /\ inService = {}
    /\ irr' = irr \ {v} /\ inService' = {v} /\ unserved' = unserved \cup {v}
    /\ isr' = v /\ irqHandling' = TRUE /\ irqLock' = TRUE
    /\ sig' = TRUE
    /\ cpu' = [cpu EXCEPT ![0] = Resume(0)]
    /\ UNCHANGED <<smp, relayed, wake, chan, srv, runner, ready, raised>>

\* ... then idle processors are woken
WakeOthers ==
    /\ irqHandling
    /\ wake' = {c \in Cpus \ {0} : cpu[c] # "off"} /\ irqHandling' = FALSE
    /\ UNCHANGED <<smp, irr, inService, relayed, isr, irqLock, cpu, sig, chan, srv, runner, ready,
                   unserved, raised>>

\* two ends of interrupt: that of the relay and that of the interrupt it is for
handleRelay ==
    /\ Interruptible /\ relayed
    /\ relayed' = FALSE /\ inService' = {} /\ irqLock' = FALSE /\ ready' = TRUE
    /\ cpu' = [cpu EXCEPT ![0] = Resume(0)]
    /\ UNCHANGED <<smp, irr, isr, irqHandling, wake, sig, chan, srv, runner, unserved, raised>>

ignoreInterrupt(c) ==
    /\ c \in wake /\ cpu[c] # "hlt"
    /\ wake' = wake \ {c}
    /\ cpu' = [cpu EXCEPT ![c] = Resume(c)]
    /\ UNCHANGED <<smp, irr, inService, relayed, isr, irqHandling, irqLock, sig, chan, srv, runner,
                   ready, unserved, raised>>

-----------------------------------------------------------------------------
(* Processors: the scheduler, and wfi when there is nothing to run.        *)

Free(c) == cpu[c] = "sched" /\ (c = 0 => ~irqHandling)

\* the runtime hands the signal to the channel, unless that is full
Deliver(c) ==
    /\ Free(c) /\ sig
    /\ sig' = FALSE /\ chan' = TRUE
    /\ UNCHANGED <<smp, irr, inService, relayed, isr, irqHandling, irqLock, cpu, wake, srv, runner,
                   ready, unserved, raised>>

\* the goroutine that waits on the channel is resumed
Receive(c) ==
    /\ Free(c) /\ ~sig /\ chan /\ srv = "wait" /\ runner = NoCpu
    /\ chan' = FALSE /\ srv' = "serve" /\ runner' = c
    /\ cpu' = [cpu EXCEPT ![c] = "run"]
    /\ UNCHANGED <<smp, irr, inService, relayed, isr, irqHandling, irqLock, wake, sig, ready,
                   unserved, raised>>

Idle(c) ==
    /\ Free(c) /\ ~sig /\ ~(chan /\ srv = "wait" /\ runner = NoCpu)
    /\ cpu' = [cpu EXCEPT ![c] = "wfi"]
    /\ UNCHANGED <<smp, irr, inService, relayed, isr, irqHandling, irqLock, wake, sig, chan, srv,
                   runner, ready, unserved, raised>>

\* mutant: the state is not looked at
wfiAlways(c) ==
    /\ cpu[c] = "wfi" /\ (c = 0 => ~irqHandling)
    /\ cpu' = [cpu EXCEPT ![c] = "hlt"]
    /\ UNCHANGED <<smp, irr, inService, relayed, isr, irqHandling, irqLock, wake, sig, chan, srv,
                   runner, ready, unserved, raised>>

\* CLI, and return if an interrupt waits for service
wfi(c) ==
    /\ cpu[c] = "wfi" /\ (c = 0 => ~irqHandling)
    /\ cpu' = [cpu EXCEPT ![c] = IF irqLock THEN "sched" ELSE "hlt"]
    /\ UNCHANGED <<smp, irr, inService, relayed, isr, irqHandling, irqLock, wake, sig, chan, srv,
                   runner, ready, unserved, raised>>

\* STI takes effect with HLT, that a requested interrupt ends at once
Halt(c) ==
    /\ cpu[c] = "hlt"
    /\ cpu' = [cpu EXCEPT ![c] = "halted"]
    /\ UNCHANGED <<smp, irr, inService, relayed, isr, irqHandling, irqLock, wake, sig, chan, srv,
                   runner, ready, unserved, raised>>

-----------------------------------------------------------------------------
(* ServiceInterrupts.                                                      *)

Running == runner # NoCpu /\ (runner = 0 => ~irqHandling)

\* the goroutine goes on when the channel has something, or leaves the processor
Wait ==
    IF chan THEN srv' = "serve" /\ chan' = FALSE /\ UNCHANGED <<smp, runner, cpu>>
    ELSE srv' = "wait" /\ runner' = NoCpu /\ cpu' = [cpu EXCEPT ![runner] = "sched"]
         /\ UNCHANGED chan

\* mutant: the end of interrupt comes before the service
ServeLate ==
    /\ Running /\ srv = "serve"
    /\ inService' = {} /\ unserved' = unserved \ {isr}
    /\ srv' = "clear"
    /\ UNCHANGED <<smp, irr, relayed, isr, irqHandling, irqLock, cpu, wake, sig, chan,
                   runner, ready, raised>>

\* isr(currentVectorNumber())
Serve ==
    /\ Running /\ srv = "serve"
    /\ unserved' = unserved \ {isr}
    /\ srv' = "clear"
    /\ UNCHANGED <<smp, irr, inService, relayed, isr, irqHandling, irqLock, cpu, wake, sig, chan,
                   runner, ready, raised>>

\* ClearInterrupt with one processor: the end of interrupt ...
ClearInterrupt ==
    /\ Running /\ srv = "clear" /\ ~smp
    /\ inService' = {} /\ srv' = "unlock"
    /\ UNCHANGED <<smp, irr, relayed, isr, irqHandling, irqLock, cpu, wake, sig, chan, runner,
                   ready, unserved, raised>>

\* ... and the lock; then the channel is waited on
Unlock ==
    /\ Running /\ srv = "unlock"
    /\ irqLock' = FALSE /\ ready' = TRUE
    /\ Wait
    /\ UNCHANGED <<smp, irr, inService, relayed, isr, irqHandling, wake, sig, unserved, raised>>

\* ClearInterrupt with several processors
ClearRelay ==
    /\ Running /\ srv = "clear" /\ smp /\ ~irqHandling
    /\ relayed' = TRUE
    /\ Wait
    /\ UNCHANGED <<smp, irr, inService, isr, irqHandling, irqLock, wake, sig, ready,
                   unserved, raised>>

Next ==
    \/ \E v \in Vectors : Raise(v) \/ handleInterrupt(v)
    \/ WakeOthers \/ handleRelay
    \/ \E c \in Cpus :
        ignoreInterrupt(c) \/ Deliver(c) \/ Receive(c) \/ Idle(c) \/ wfi(c) \/ Halt(c)
    \/ Serve \/ ClearInterrupt \/ Unlock \/ ClearRelay

Spec == Init /\ [][Next]_irqVars

-----------------------------------------------------------------------------

\* wfi, "disable interrupts to avoid races while checking state": while a signal
\* waits for its goroutine, some processor is awake or about to be woken.
NeverAllAsleep ==
    (sig \/ chan) /\ srv = "wait" =>
        irqHandling \/ \E c \in Cpus : cpu[c] \notin {"off", "hlt", "halted"} \/ c \in wake

\* ServiceInterrupts, "its execution is resumed when a user defined interrupt is
\* received": an interrupt that was handled is the one isr will be called with.
Serviced == unserved # {} => unserved = {isr} /\ (sig \/ chan \/ srv = "serve")

-----------------------------------------------------------------------------
(***************************************************************************)
(* Application processors (AP) on AMD64: they are started by InitSMP, idle *)
(* in apstart until the runtime hands them a goroutine with Task, and run  *)
(* it.  The memory at taskAddress first counts the APs that are idle and   *)
(* later holds the task for the AP that is signalled.                      *)
(***************************************************************************)

CONSTANTS
    NumCPU,         \* processors
    Caps,           \* arguments of InitSMP above 1
    MaxInits        \* bound: calls of InitSMP

VARIABLES
    bpc, cap, index, \* bootstrap processor: step, argument and index of InitSMP
    ap,             \* APs: "off", "reset", "apinit", "ready", "halted", "woken", "load", "run"
    sema,           \* taskAddress as a counter; the stack pointer of a task overwrites it
    mailG, mailPc,  \* the task at taskAddress, 0 for none: stack and G, function
    gotG, gotPc,    \* what APs loaded
    started, procs, \* cpu.init, GOMAXPROCS
    smpInits

smpVars == <<bpc, cap, index, ap, sema, mailG, mailPc, gotG, gotPc, started, procs, smpInits>>

APs == 1 .. NumCPU - 1
mail == <<mailG, mailPc>>
got == <<gotG, gotPc>>

SmpInit ==
    /\ bpc = "idle" /\ cap = 1 /\ index = 1
    /\ ap = [a \in APs |-> "off"]
    /\ sema = 0 /\ mailG = 0 /\ mailPc = 0
    /\ gotG = [a \in APs |-> 0] /\ gotPc = [a \in APs |-> 0]
    /\ started = 0 /\ procs = 1 /\ smpInits = 0

Become(a, s) == ap' = [ap EXCEPT ![a] = s]

-----------------------------------------------------------------------------
(* The bootstrap processor.                                                *)

\* InitSMP: the code and the descriptors for APs are put in place
InitSMP ==
    /\ bpc = "idle" /\ smpInits < MaxInits
    /\ smpInits' = smpInits + 1
    /\ cap' \in Caps /\ index' = 1 /\ bpc' = "init"
    /\ UNCHANGED <<ap, sema, mail, got, started, procs>>

\* InitSMP(0) and InitSMP(1)
InitOne ==
    /\ bpc = "idle" /\ smpInits < MaxInits
    /\ smpInits' = smpInits + 1
    /\ procs' = 1
    /\ UNCHANGED <<bpc, cap, index, ap, sema, mail, got, started>>

Last == index = NumCPU \/ index = cap

\* each AP is reset ...
IpiInit ==
    /\ bpc = "init" /\ ~Last
    /\ Become(index, "reset") /\ bpc' = "sipi"
    /\ UNCHANGED <<cap, index, sema, mail, got, started, procs, smpInits>>

\* ... and, 10ms later, started
IpiSipi ==
    /\ bpc = "sipi"
    /\ Become(index, "apinit") /\ bpc' = "init" /\ index' = index + 1
    /\ UNCHANGED <<cap, sema, mail, got, started, procs, smpInits>>

\* mutant: one AP less is waited for
WaitedForFew == sema = index - 2 \/ started > 0

\* reg.WaitFor in GOMAXPROCS(i), left out once tasks were given to APs
WaitedFor == sema = index - 1 \/ started > 0

GOMAXPROCS ==
    /\ bpc = "init" /\ Last /\ WaitedFor
    /\ procs' = index /\ bpc' = "idle"
    /\ UNCHANGED <<cap, index, ap, sema, mail, got, started, smpInits>>

\* after one second
Timeout ==
    /\ bpc = "init" /\ Last /\ ~WaitedFor
    /\ procs' = 1 /\ bpc' = "idle"
    /\ UNCHANGED <<cap, index, ap, sema, mail, got, started, smpInits>>

\* Task, for the next AP; task.Write copies the stack pointer and G ...
Task ==
    /\ bpc = "idle" /\ started + 1 < procs
    /\ mailG' = started + 1 /\ sema' = started + 1
    /\ bpc' = "task"
    /\ UNCHANGED <<cap, index, ap, mailPc, got, started, procs, smpInits>>

\* ... and the function ...
WritePc ==
    /\ bpc = "task"
    /\ mailPc' = started + 1
    /\ bpc' = "nmi"
    /\ UNCHANGED <<cap, index, ap, sema, mailG, got, started, procs, smpInits>>

\* ... the NMI ends the halt of the AP; it has no effect on one that does not halt
IpiNmi ==
    /\ bpc = "nmi"
    /\ started' = started + 1
    /\ ap' = [ap EXCEPT ![started'] = IF @ = "halted" THEN "woken" ELSE @]
    /\ bpc' = "idle"
    /\ UNCHANGED <<cap, index, sema, mail, got, procs, smpInits>>

-----------------------------------------------------------------------------
(* Application processors.                                                 *)

\* apinit and the start of apstart, up to the counting
apstart(a) ==
    /\ ap[a] = "apinit"
    /\ sema' = sema + 1
    /\ Become(a, "ready")
    /\ UNCHANGED <<bpc, cap, index, mail, got, started, procs, smpInits>>

Hlt(a) ==
    /\ ap[a] = "ready"
    /\ Become(a, "halted")
    /\ UNCHANGED <<bpc, cap, index, sema, mail, got, started, procs, smpInits>>

\* the function, or back to the wait when there is none ...
LoadPc(a) ==
    /\ ap[a] = "woken"
    /\ gotPc' = [gotPc EXCEPT ![a] = mailPc]
    /\ Become(a, IF mailPc = 0 THEN "ready" ELSE "load")
    /\ UNCHANGED <<bpc, cap, index, sema, mail, gotG, started, procs, smpInits>>

\* ... the stack pointer and G, and the task is cleared
LoadTask(a) ==
    /\ ap[a] = "load"
    /\ gotG' = [gotG EXCEPT ![a] = mailG]
    /\ mailG' = 0 /\ mailPc' = 0 /\ sema' = 0
    /\ Become(a, "run")
    /\ UNCHANGED <<bpc, cap, index, gotPc, started, procs, smpInits>>

SmpNext ==
    \/ InitSMP \/ InitOne \/ IpiInit \/ IpiSipi \/ GOMAXPROCS \/ Timeout
    \/ Task \/ WritePc \/ IpiNmi
    \/ \E a \in APs : apstart(a) \/ Hlt(a) \/ LoadPc(a) \/ LoadTask(a)

SmpSpec == SmpInit /\ [][SmpNext]_smpVars

-----------------------------------------------------------------------------

\* GOMAXPROCS, "checks if n-1 APs are ready (within 1s) at their idle state": the
\* runtime uses as many processors as have come up, with none left in apinit.
ReadyIdle == \A a \in APs : a < procs => ap[a] \notin {"off", "reset", "apinit"}

\* Task, "schedules a goroutine on a previously initialized Application
\* Processor": a processor runs the goroutine that Task was called with for it.
TaskOwn == \A a \in APs : ap[a] = "run" => gotG[a] = a /\ gotPc[a] = a

=============================================================================
