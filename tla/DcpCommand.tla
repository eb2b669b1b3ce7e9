----------------------------- MODULE DcpCommand -----------------------------
(***************************************************************************)
(* Commands of the NXP Data Co-Processor (DCP): goroutines that encrypt,   *)
(* alone or in chains, derive keys and set keys, the channel of the        *)
(* co-processor, and, when its interrupts are used, the goroutine of       *)
(* CPU.ServiceInterrupts, which calls ServiceInterrupt.                    *)
(*                                                                         *)
(* The interrupt line is the channel bit of the status register; a level   *)
(* interrupt is signalled for as long as the bit is set.                   *)
(***************************************************************************)
EXTENDS Naturals, Sequences

CONSTANTS
    Procs,          \* goroutines
    Modes,          \* "poll", "irq": how completion is awaited
    Subwords,       \* words of a key
    MaxChain,       \* bound: packets of a chain
    MaxOps          \* bound: operations

VARIABLES
    mode,
    lock,           \* the holder of the mutex of the driver, or Nobody
    pc, op,         \* goroutines: step and operation
    keyRam,         \* the key slot: who wrote each of its words
    subword,        \* words written by setKeyData
    stat,           \* the interrupt bit of the channel
    packets, owner, \* packets left for the channel, whose they are
    executed,       \* packets of the command in hand that were executed
    cmdFailed,      \* the error bits of the channel
    masked, signal, \* IRQ masked, signal pending for the servicing goroutine
    isrPc,          \* the servicing goroutine
    ops, mixed      \* operations so far; the channel used a key of two writers

dcpVars == <<mode, lock, pc, op, keyRam, subword, stat, packets, owner, executed, cmdFailed,
             masked, signal, isrPc, ops, mixed>>
irq == <<masked, signal, isrPc>>
channel == <<packets, owner, executed, cmdFailed>>

Nobody == "nobody"

Init ==
    /\ mode \in Modes
    /\ lock = Nobody /\ pc = [p \in Procs |-> "idle"] /\ op = [p \in Procs |-> "none"]
    /\ keyRam = [w \in 1 .. Subwords |-> Nobody] /\ subword = 0
    /\ stat = FALSE /\ packets = 0 /\ owner = Nobody /\ executed = 0 /\ cmdFailed = FALSE
    /\ masked = FALSE /\ signal = FALSE /\ isrPc = "wait"
    /\ ops = 0 /\ mixed = FALSE

Goto(p, step) == pc' = [pc EXCEPT ![p] = step]
Count(p) == IF op[p] = "chain" THEN MaxChain ELSE 1

-----------------------------------------------------------------------------
(* Operations.  Buffers and packets are allocated before the command and   *)
(* freed when the operation returns.                                       *)

Begin(p, o, step) ==
    /\ pc[p] = "idle" /\ ops < MaxOps
    /\ ops' = ops + 1 /\ op' = [op EXCEPT ![p] = o]
    /\ Goto(p, step)
    /\ UNCHANGED <<mode, lock, keyRam, subword, stat, channel, irq, mixed>>

\* Encrypt and Decrypt
cipher(p) == Begin(p, "cipher", "cmd")

CipherChain(p) == Begin(p, "chain", "cmd")

\* the key is returned, or goes to a key slot ("derive"), see Return
DeriveKey(p) == \E o \in {"diversify", "derive"} : Begin(p, o, "cmd")

SetKey(p) == Begin(p, "setkey", "setkey")

\* cmd: the lock, the status is cleared, the channel is given the packets
cmd(p) ==
    /\ pc[p] = "cmd" /\ lock = Nobody
    /\ lock' = p
    /\ cmdFailed' = FALSE /\ executed' = 0
    /\ owner' = p /\ packets' = Count(p)
    /\ Goto(p, "wait")
    /\ UNCHANGED <<mode, op, keyRam, subword, stat, irq, ops, mixed>>

\* reg.Wait of the status register
WaitPoll(p) ==
    /\ pc[p] = "wait" /\ mode = "poll" /\ stat
    /\ Goto(p, "clear")
    /\ UNCHANGED <<mode, lock, op, keyRam, subword, stat, channel, irq, ops, mixed>>

\* mutant: the interrupt bit stays
ClearNot(p) ==
    /\ pc[p] = "clear"
    /\ Goto(p, "return")
    /\ UNCHANGED <<mode, lock, op, keyRam, subword, stat, channel, irq, ops, mixed>>

\* the interrupt bit is cleared ...
Clear(p) ==
    /\ pc[p] = "clear"
    /\ stat' = FALSE
    /\ Goto(p, "return")
    /\ UNCHANGED <<mode, lock, op, keyRam, subword, channel, irq, ops, mixed>>

\* ... and the status looked at; only a derived key for a slot has something left to do
Return(p) ==
    /\ pc[p] = "return"
    /\ lock' = Nobody
    /\ Goto(p, IF op[p] = "derive" /\ ~cmdFailed THEN "setkey" ELSE "idle")
    /\ UNCHANGED <<mode, op, keyRam, subword, stat, channel, irq, ops, mixed>>

\* setKeyData: the lock ...
setKeyLock(p) ==
    /\ pc[p] = "setkey" /\ lock = Nobody
    /\ lock' = p /\ subword' = 0
    /\ Goto(p, "subword")
    /\ UNCHANGED <<mode, op, keyRam, stat, channel, irq, ops, mixed>>

\* ... and one word after the other
setKeyData(p) ==
    /\ pc[p] = "subword"
    /\ IF subword < Subwords
       THEN /\ subword' = subword + 1 /\ keyRam' = [keyRam EXCEPT ![subword + 1] = p]
            /\ UNCHANGED <<lock, pc>>
       ELSE /\ lock' = Nobody
            /\ Goto(p, "idle")
            /\ UNCHANGED <<subword, keyRam>>
    /\ UNCHANGED <<mode, op, stat, channel, irq, ops, mixed>>

-----------------------------------------------------------------------------
(* Interrupts.                                                             *)

\* irqHandler: IRQs stay masked until the servicing goroutine unmasks them
irqHandler ==
    /\ mode = "irq" /\ stat /\ ~masked
    /\ masked' = TRUE /\ signal' = TRUE
    /\ UNCHANGED <<mode, lock, pc, op, keyRam, subword, stat, channel, isrPc, ops, mixed>>

\* the signal wakes the goroutine; GetInterrupt finds the interrupt, or none
GetInterrupt ==
    /\ isrPc = "wait" /\ signal
    /\ signal' = FALSE
    /\ isrPc' = IF stat THEN "send" ELSE "enable"
    /\ UNCHANGED <<mode, lock, pc, op, keyRam, subword, stat, channel, masked, ops, mixed>>

\* ServiceInterrupt: the channel is not buffered, a command must be waiting
ServiceInterrupt(p) ==
    /\ isrPc = "send" /\ pc[p] = "wait" /\ mode = "irq"
    /\ isrPc' = "enable"
    /\ Goto(p, "clear")
    /\ UNCHANGED <<mode, lock, op, keyRam, subword, stat, channel, masked, signal, ops, mixed>>

\* ServiceInterrupts: the next turn of the loop
irq_enable ==
    /\ isrPc = "enable"
    /\ masked' = FALSE /\ isrPc' = "wait"
    /\ UNCHANGED <<mode, lock, pc, op, keyRam, subword, stat, channel, signal, ops, mixed>>

-----------------------------------------------------------------------------
(* The channel: packets are executed one by one, an error ends a chain;    *)
(* the last one raises the interrupt.  Derived keys are made with the key  *)
(* of the device, the other packets use the key slot.                      *)

Execute ==
    /\ packets > 0
    /\ \E ok \in BOOLEAN :
        /\ packets' = IF ok THEN packets - 1 ELSE 0
        /\ executed' = executed + 1
        /\ cmdFailed' = ~ok
        /\ stat' = (stat \/ packets' = 0)
    /\ mixed' = \/ mixed
                 \/ /\ op[owner] \in {"cipher", "chain"}
                    /\ \E w \in 1 .. Subwords : keyRam[w] # keyRam[1]
    /\ UNCHANGED <<mode, lock, pc, op, keyRam, subword, owner, irq, ops>>

Next ==
    \/ \E p \in Procs :
        \/ cipher(p) \/ CipherChain(p) \/ DeriveKey(p) \/ SetKey(p)
        \/ cmd(p) \/ WaitPoll(p) \/ Clear(p) \/ Return(p)
        \/ setKeyLock(p) \/ setKeyData(p) \/ ServiceInterrupt(p)
    \/ irqHandler \/ GetInterrupt \/ irq_enable
    \/ Execute

Spec == Init /\ [][Next]_dcpVars

-----------------------------------------------------------------------------

\* "wait for completion": a command that returns has been executed, or failed, and
\* the co-processor does not use its buffers, which are freed now.
Completed ==
    \A p \in Procs : pc[p] = "return" =>
        owner = p /\ packets = 0 /\ (cmdFailed \/ executed = Count(p))

\* When completion is polled, commands are Completed, and the keys that the
\* co-processor uses are of one writer, whatever the order in which goroutines set
\* keys, derive keys and encrypt.
CommandOwn == mode = "poll" => Completed /\ ~mixed

=============================================================================
