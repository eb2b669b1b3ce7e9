----------------------------- MODULE MCProcessor -----------------------------
(***************************************************************************)
(* The runtime support for TLC: the DMA allocator; the NXP cryptographic   *)
(* co-processors; interrupts, processors and translation tables of AMD64,  *)
(* ARM and ARM64.  The models share no state, so that each is explored     *)
(* while the others stand still.                                           *)
(***************************************************************************)
EXTENDS DmaRegion, ProcessorProofs, TLC

CONSTANTS E, ArenaOffset, Layouts, Aliases, MaxConfigs
CONSTANTS PerSection, Sections, Images, Targets, Bounds, MaxUpdates
CONSTANTS Tt, PteBounds, MaxPteCalls

VARIABLES layout, l1, arena, mmu, expected, configs
VARIABLES image, first, second, asked, spoiled, single, updates
VARIABLES amd, amdAsked

VARIABLE part       \* the part that is explored

dcpVars == <<mode, lock, pc, op, keyRam, subword, stat, packets, owner, executed, cmdFailed, masked,
             signal, isrPc, ops, mixed>>
caamVars == <<once, ringLock, jpc, todo, ptr, ok, ran, jobMem, input, added, output, full, jobs>>
hashVars == <<mu, dpc, buf, init, rest, written, broken, sum, context>>
irqVars == <<smp, irr, inService, relayed, isr, irqHandling, irqLock, cpu, wake, sig, chan, srv,
             runner, ready, unserved, raised>>
smpVars == <<bpc, cap, index, ap, sema, mailG, mailPc, gotG, gotPc, started, procs, smpInits>>
mmuVars == <<layout, l1, arena, mmu, expected, configs>>
armIrqVars == <<version, enabled, wanted, asserted, irqMasked, signalled, notified, serving,
                current, idling, asserts>>
armMmuVars == <<image, first, second, asked, spoiled, single, updates>>
amdVars == <<amd, amdAsked>>
engineVars == <<dcpVars, caamVars, hashVars>>
amd64Vars == <<irqVars, smpVars, amdVars>>
armVars == <<mmuVars, armIrqVars, armMmuVars>>

Mmu == INSTANCE PageTables

MCInit ==
    /\ part \in {"region", "dcp", "caam", "hash", "irq", "smp", "mmu", "armIrq", "armMmu",
             "amdMmu"}
    /\ Init /\ Dcp!Init /\ Caam!Init /\ Caam!HashInit /\ Amd64!Init /\ Amd64!SmpInit
    /\ Mmu!Init64 /\ Mmu!Init /\ Mmu!AmdInit /\ Arm!Init
    /\ part # "dcp" => mode = CHOOSE m \in Modes : TRUE
    /\ part # "irq" => ~smp
    /\ part # "mmu" => layout = CHOOSE m \in Layouts : TRUE
    /\ part # "armIrq" => version = 2
    /\ part # "armMmu" => image = CHOOSE m \in Images : TRUE

MCNext ==
    \/ part = "region" /\ Next /\ UNCHANGED <<part, engineVars, amd64Vars, armVars>>
    \/ part = "dcp" /\ Dcp!Next /\ UNCHANGED <<part, vars, caamVars, hashVars, amd64Vars, armVars>>
    \/ part = "caam" /\ Caam!Next /\ UNCHANGED <<part, vars, dcpVars, hashVars, amd64Vars, armVars>>
    \/ part = "hash" /\ Caam!HashNext /\ UNCHANGED <<part, vars, dcpVars, caamVars, amd64Vars, armVars>>
    \/ part = "irq" /\ Amd64!Next /\ UNCHANGED <<part, vars, engineVars, smpVars, amdVars, armVars>>
    \/ part = "smp" /\ Amd64!SmpNext /\ UNCHANGED <<part, vars, engineVars, irqVars, amdVars, armVars>>
    \/ part = "mmu" /\ Mmu!Next64
       /\ UNCHANGED <<part, vars, engineVars, amd64Vars, armIrqVars, armMmuVars>>
    \/ part = "armIrq" /\ Arm!Next
       /\ UNCHANGED <<part, vars, engineVars, amd64Vars, mmuVars, armMmuVars>>
    \/ part = "armMmu" /\ Mmu!Next
       /\ UNCHANGED <<part, vars, engineVars, amd64Vars, mmuVars, armIrqVars>>
    \/ part = "amdMmu" /\ Mmu!AmdNext
       /\ UNCHANGED <<part, vars, engineVars, irqVars, smpVars, armVars>>

MCSpec == MCInit /\ [][MCNext]_<<part, vars, engineVars, amd64Vars, armVars>>

\* clients of the DMA region are interchangeable: they only sign the bytes they write
Symmetric == Permutations(Clients)

MCImages == [ramStart : {0, 3}, textEnd : {2, 5, 6, 7}, ramEnd : {9}]

MCLayouts ==
    {l \in [ramStart : {0, 9, 10}, textStart : {12, 14}, textEnd : {13, 18}, ramEnd : {18, 20}] :
        l.textStart < l.textEnd}

\* The free list of the DMA region implements the abstract heap, as ImplementsHeap
\* says; the other parts leave the region alone.
RegionImplementsHeap == Heap!Init /\ [][part = "region" => Heap!Next]_(Heap!vars)

\* Every byte of the DMA region is in one block, free or used, and the bytes of a
\* buffer are those that its owner has put there.
RegionOwn == Isolated /\ Tiled

\* A DCP command returns when it has been executed.
Completed == Dcp!Completed

\* Translation tables map every page as they were asked to, those of ARM64, of ARM
\* and of AMD64.
Translated ==
    /\ part = "mmu" => Mmu!Translated
    /\ part = "armMmu" => Mmu!ArmTranslated
    /\ part = "amdMmu" => Mmu!AmdTranslated

\* "DisableInterrupt disables forwarding of the corresponding interrupt to the CPU."
OnlyThatInterrupt == Arm!OnlyThatInterrupt

=============================================================================
