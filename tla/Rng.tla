-------------------------------- MODULE Rng --------------------------------
(***************************************************************************)
(* Random number generators: RNGB, CAAM TRNG, TRNG, PRNG, the generator of *)
(* the BCM2835 and RDRAND, each with the GetRandomData of its driver, and  *)
(* the DRBG that is seeded from one of them.                               *)
(*                                                                         *)
(* A word that a generator produces has a serial number, so that a byte    *)
(* handed out is <<serial, place in the word>>.                            *)
(***************************************************************************)
EXTENDS Integers, Sequences

CONSTANTS
    Sources,        \* generators
    Needs,          \* lengths of buffers
    FifoSize,       \* words in the FIFO of a generator
    Regs,           \* registers of words: RTENT0.. and KEY0..
    Cycles,         \* polls of the TRNG before it counts as unresponsive
    MaxRngCalls,    \* bound: calls
    Callers, MaxBlocks, MaxDraws    \* callers of the DRBG; bounds: blocks of a call, calls

\* A call is for some bytes; there are entropy registers.
RngConstants == Needs \subseteq Nat /\ Regs \in Nat \ {0}
ASSUME RngAssumption == RngConstants

VARIABLES
    gen,     \* the generator
    call,    \* GetRandomData of its driver
    out,     \* bytes handed out by the calls so far
    seed,    \* DRBG: number of the seed
    mutex,   \* its lock
    drbg,    \* its callers
    blocks,  \* blocks <<seed, counter>> encrypted, one entry for each time
    draws    \* calls made

rngVars == <<gen, call, out, seed, mutex, drbg, blocks, draws>>
drbgVars == <<seed, mutex, drbg, blocks, draws>>

\* Fill: the bytes of a word, lowest first, as far as the buffer goes
Fill(buf, need, word) ==
    buf \o [k \in 1 .. (IF need - Len(buf) < 4 THEN need - Len(buf) ELSE 4) |-> <<word, k>>]

-----------------------------------------------------------------------------
(* Generators.                                                             *)

\* generators that need no more than to be enabled
Self == {"bcm", "rdrand", "trng"}

SourceInit ==
    /\ \E k \in Sources :
           gen = [kind |-> k, state |-> IF k \in Self THEN "seeded" ELSE "off", serial |-> 0, fifo |-> <<>>,
                  regs |-> [r \in 0 .. Regs - 1 |-> 0], valid |-> FALSE, error |-> FALSE]
    /\ call = [at |-> "init", need |-> 0, buf |-> <<>>, reg |-> 0, polls |-> 0, calls |-> 0] /\ out = <<>>

Source(t) == gen' = t /\ UNCHANGED <<call, out>> /\ UNCHANGED drbgVars

\* RNGB Init: the self-test, then a seed; each is waited for, and a failed test panics
RngbInit ==
    /\ call.at = "init" /\ gen.kind = "rngb"
    /\ \/ gen.state = "off" /\ Source([gen EXCEPT !.state = "testing"])
       \/ gen.state = "tested" /\ Source([gen EXCEPT !.state = "seeding"])

HwSelfTest ==
    \/ gen.state = "testing" /\ Source([gen EXCEPT !.state = "tested"])
    \/ gen.state = "testing" /\ Source([gen EXCEPT !.state = "failed"])
    \/ gen.state = "seeding" /\ Source([gen EXCEPT !.state = "seeded"])

\* CAAM Init: registers of entropy from the first on, generated anew
CaamInit == call.at = "init" /\ gen.kind = "caam" /\ gen.state = "off" /\ Source([gen EXCEPT !.state = "seeded"])

\* PRNG Seed: not 0, then a first generation
Seed == call.at = "init" /\ gen.kind = "prng" /\ gen.state = "off"
        /\ Source([gen EXCEPT !.state = "seeded", !.serial = @ + Regs])

Initialized ==
    /\ call.at = "init" /\ gen.state \in {"seeded", "failed"}
    /\ call' = [call EXCEPT !.at = IF gen.state = "seeded" THEN "idle" ELSE "panic"]
    /\ UNCHANGED <<gen, out>> /\ UNCHANGED drbgVars

GetRandomData(need) ==
    /\ call.at = "idle" /\ call.calls < MaxRngCalls
    /\ call' = [call EXCEPT !.at = "loop", !.need = need, !.buf = <<>>, !.calls = @ + 1, !.polls = 0]
    /\ UNCHANGED <<gen, out>> /\ UNCHANGED drbgVars

More == call.at = "loop" /\ Len(call.buf) < call.need

\* one word; the call goes on
Took(word, t, reg) ==
    /\ gen' = t /\ call' = [call EXCEPT !.buf = Fill(@, call.need, word), !.reg = reg, !.polls = 0]
    /\ UNCHANGED out /\ UNCHANGED drbgVars

Panic == call' = [call EXCEPT !.at = "panic"] /\ UNCHANGED <<gen, out>> /\ UNCHANGED drbgVars

\* the FIFO level, but first the error
RngbWord ==
    /\ More /\ gen.kind = "rngb"
    /\ IF gen.error THEN Panic
       ELSE gen.fifo # <<>> /\ Took(Head(gen.fifo), [gen EXCEPT !.fifo = Tail(@)], 0)

BcmWord == More /\ gen.kind = "bcm" /\ gen.fifo # <<>> /\ Took(Head(gen.fifo), [gen EXCEPT !.fifo = Tail(@)], 0)

\* data ready; if not, errors, and a limit of polls
TrngWord ==
    /\ More /\ gen.kind = "trng"
    /\ IF gen.fifo # <<>> THEN Took(Head(gen.fifo), [gen EXCEPT !.fifo = <<>>], 0)
       ELSE IF gen.error \/ call.polls = Cycles THEN Panic
       ELSE call' = [call EXCEPT !.polls = @ + 1] /\ UNCHANGED <<gen, out>> /\ UNCHANGED drbgVars

\* mutant: each call starts with the first register
CaamWordAnew ==
    /\ More /\ gen.kind = "caam"
    /\ LET r == IF call.buf = <<>> THEN 0 ELSE call.reg
       IN  /\ r = 0 => gen.valid
           /\ Took(gen.regs[r], [gen EXCEPT !.valid = @ /\ r # Regs - 1], (r + 1) % Regs)

\* Valid entropy is waited for at the first register; the register goes on from
\* where the last call left off.  Reading the last one starts a new generation.
CaamWord ==
    /\ More /\ gen.kind = "caam"
    /\ call.reg = 0 => gen.valid
    /\ Took(gen.regs[call.reg], [gen EXCEPT !.valid = @ /\ call.reg # Regs - 1], (call.reg + 1) % Regs)

\* a generation, waited for, and as many of its registers as are needed
PrngGenerate ==
    /\ More /\ gen.kind = "prng" /\ call.reg = 0 /\ ~gen.valid
    /\ Source([gen EXCEPT !.valid = TRUE, !.serial = @ + Regs, !.regs = [r \in 0 .. Regs - 1 |-> gen.serial + r + 1]])

PrngWord ==
    /\ More /\ gen.kind = "prng" /\ gen.valid
    /\ LET last == call.reg = Regs - 1 \/ call.need - Len(call.buf) <= 4
       IN  Took(gen.regs[call.reg], [gen EXCEPT !.valid = ~last], IF last THEN 0 ELSE call.reg + 1)

Rdrand == More /\ gen.kind = "rdrand" /\ Took(gen.serial + 1, [gen EXCEPT !.serial = @ + 1], 0)

GetReturn ==
    /\ call.at = "loop" /\ Len(call.buf) = call.need
    /\ call' = [call EXCEPT !.at = "idle", !.buf = <<>>] /\ out' = out \o call.buf
    /\ UNCHANGED gen /\ UNCHANGED drbgVars

\* generators: a word into the FIFO, all registers, or an error
HwWord ==
    /\ gen.kind \in {"rngb", "bcm", "trng"} /\ gen.state = "seeded" /\ ~gen.error
    /\ Len(gen.fifo) < (IF gen.kind = "trng" THEN 1 ELSE FifoSize) /\ call.at = "loop"
    /\ Source([gen EXCEPT !.fifo = Append(@, gen.serial + 1), !.serial = @ + 1])

HwEntropy ==
    /\ gen.kind = "caam" /\ gen.state = "seeded" /\ ~gen.valid /\ call.at = "loop" /\ call.reg = 0
    /\ Source([gen EXCEPT !.valid = TRUE, !.serial = @ + Regs, !.regs = [r \in 0 .. Regs - 1 |-> gen.serial + r + 1]])

HwError ==
    /\ gen.kind \in {"rngb", "trng"} /\ gen.state = "seeded" /\ ~gen.error /\ call.at = "loop"
    /\ Source([gen EXCEPT !.error = TRUE])

SourceNext ==
    \/ RngbInit \/ HwSelfTest \/ CaamInit \/ Seed \/ Initialized
    \/ \E n \in Needs : GetRandomData(n)
    \/ RngbWord \/ BcmWord \/ TrngWord \/ CaamWord \/ PrngGenerate \/ PrngWord \/ Rdrand
    \/ GetReturn \/ HwWord \/ HwEntropy \/ HwError

-----------------------------------------------------------------------------
(* DRBG: AES in counter mode, key erasure.                                 *)

DrbgInit ==
    /\ seed = 1 /\ mutex = FALSE /\ blocks = <<>> /\ draws = 0
    /\ drbg = [p \in Callers |-> [at |-> "idle", key |-> 0, counter |-> 0, left |-> 0]]

Drbg(p, t) == drbg' = [drbg EXCEPT ![p] = t] /\ UNCHANGED <<gen, call, out>>

\* under the lock: a cipher with the seed
DrbgCipher(p, n) ==
    /\ drbg[p].at = "idle" /\ draws < MaxDraws /\ ~mutex
    /\ mutex' = TRUE /\ draws' = draws + 1
    /\ Drbg(p, [at |-> "erase", key |-> seed, counter |-> 0, left |-> n])
    /\ UNCHANGED <<seed, blocks>>

\* mutant: the seed is replaced after the blocks have been handed out
DrbgEraseLate(p) ==
    /\ drbg[p].at = "erase" /\ mutex' = FALSE
    /\ blocks' = blocks \o <<<<drbg[p].key, 0>>, <<drbg[p].key, 1>>>>
    /\ Drbg(p, [drbg[p] EXCEPT !.at = "blocks", !.counter = 2])
    /\ UNCHANGED <<seed, draws>>

\* the seed is replaced by the first two blocks, and the lock released
DrbgErase(p) ==
    /\ drbg[p].at = "erase" /\ mutex' = FALSE
    /\ blocks' = blocks \o <<<<drbg[p].key, 0>>, <<drbg[p].key, 1>>>>
    /\ seed' = seed + 1
    /\ Drbg(p, [drbg[p] EXCEPT !.at = "blocks", !.counter = 2])
    /\ UNCHANGED draws

\* blocks for the caller
DrbgBlock(p) ==
    /\ drbg[p].at = "blocks"
    /\ IF drbg[p].left = 0
       THEN Drbg(p, [drbg[p] EXCEPT !.at = "idle", !.key = 0, !.counter = 0]) /\ UNCHANGED blocks
       ELSE /\ blocks' = Append(blocks, <<drbg[p].key, drbg[p].counter>>)
            /\ Drbg(p, [drbg[p] EXCEPT !.counter = @ + 1, !.left = @ - 1])
    /\ UNCHANGED <<seed, mutex, draws>>

DrbgNext ==
    \E p \in Callers :
        \/ \E n \in 0 .. MaxBlocks : DrbgCipher(p, n)
        \/ DrbgErase(p) \/ DrbgBlock(p)

RngInit == SourceInit /\ DrbgInit
RngSpec == RngInit /\ [][SourceNext \/ DrbgNext]_rngVars

-----------------------------------------------------------------------------
Distinct(q) == \A j, k \in DOMAIN q : q[j] = q[k] => j = k

\* No byte that a generator has produced is handed out twice, within a call or in
\* two, and none that it has not: a driver reads no register before its word is
\* there and none that was read before.  No block of the DRBG is encrypted twice,
\* whoever calls at the same time, so that a seed that gave blocks away, or gave
\* the next seed, is never in use again; only a generator that has passed its
\* self-test and has a seed is read.
EntropyFresh ==
    /\ Distinct(out \o call.buf)
    /\ \A k \in DOMAIN call.buf : call.buf[k][1] \in 1 .. gen.serial
    /\ Distinct(blocks)
    /\ \A p \in Callers : drbg[p].at = "blocks" => drbg[p].key # seed
    /\ call.at = "loop" => gen.state = "seeded"
=============================================================================
