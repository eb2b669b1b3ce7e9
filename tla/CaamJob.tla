------------------------------- MODULE CaamJob ------------------------------
(***************************************************************************)
(* Jobs of the NXP Cryptographic Acceleration and Assurance Module (CAAM): *)
(* goroutines that encrypt, authenticate, sign and derive keys share one   *)
(* job ring with one entry, set up by the first job or by SetOwner.        *)
(*                                                                         *)
(* SetOwner is called while no other operation is under way: it replaces   *)
(* the ring, with its mutex, under the jobs that wait on the old one.      *)
(***************************************************************************)
EXTENDS Naturals, Sequences

CONSTANTS
    JobProcs,       \* goroutines
    Ptrs,           \* addresses for job descriptors
    MaxJobs         \* bound: operations

VARIABLES
    once,           \* the initialization of the ring by the first job: "no", "running", "done"
    ringLock,       \* the holder of the mutex of the ring
    jpc, todo, ptr, \* goroutines: step, jobs of the operation, descriptor
    ok,             \* the last job had no error
    ran,            \* the engine has executed the job at hand
    jobMem,            \* descriptors in memory: the goroutine they are for
    input, added,   \* the input ring, and whether a job was added to it
    output, full,   \* the output ring and its number of results
    jobs            \* operations so far

ringVars == <<once, ringLock, input, added, output, full>>
caamVars == <<once, ringLock, input, added, output, full, jpc, todo, ptr, ok, ran,
              jobMem, jobs>>

None == "none"

Init ==
    /\ once = "no" /\ ringLock = None
    /\ input = None /\ added = FALSE /\ output = <<None, FALSE>> /\ full = 0
    /\ jpc = [p \in JobProcs |-> "idle"] /\ todo = [p \in JobProcs |-> <<>>]
    /\ ptr = [p \in JobProcs |-> None] /\ ok = [p \in JobProcs |-> FALSE]
    /\ ran = [p \in JobProcs |-> FALSE] /\ jobMem = [a \in Ptrs |-> None]
    /\ jobs = 0

Step(p, step) == jpc' = [jpc EXCEPT ![p] = step]

-----------------------------------------------------------------------------
(* Operations and the jobs they add, in order; an error ends an operation. *)

SettingOwner == \E q \in JobProcs : todo[q] = <<"rng">>

Operation(p, kinds) ==
    /\ jpc[p] = "idle" /\ jobs < MaxJobs
    /\ ~SettingOwner
    /\ jobs' = jobs + 1
    /\ todo' = [todo EXCEPT ![p] = kinds]
    /\ Step(p, "job")
    /\ UNCHANGED <<ringVars, ptr, ok, ran, jobMem>>

cipher(p) == Operation(p, <<"alg">>)
SumAES(p) == Operation(p, <<"alg">>)
Sign(p) == Operation(p, <<"sign">>)

\* mkv, then one authentication for each half of the key
DeriveKey(p) == Operation(p, <<"blob", "alg", "alg">>)

\* the ring is stopped, started and replaced
initJobRing ==
    /\ input' = None /\ added' = FALSE /\ output' = <<None, FALSE>> /\ full' = 0
    /\ ringLock' = None

SetOwner(p) ==
    /\ \A q \in JobProcs : jpc[q] = "idle"
    /\ jobs < MaxJobs
    /\ jobs' = jobs + 1
    /\ initJobRing
    /\ todo' = [todo EXCEPT ![p] = <<"rng">>]
    /\ Step(p, "add")
    /\ UNCHANGED <<once, ptr, ok, ran, jobMem>>

\* Job: the first one initializes the ring, with a job for the RNG, others wait for it
Job(p) ==
    /\ jpc[p] = "job"
    /\ \/ /\ once = "no" /\ once' = "running"
          /\ initJobRing
          /\ todo' = [todo EXCEPT ![p] = <<"rng">> \o @]
       \/ /\ once = "done" /\ UNCHANGED <<ringVars, todo>>
    /\ Step(p, "add")
    /\ UNCHANGED <<ptr, ok, ran, jobMem, jobs>>

\* add: the descriptor is put in memory, before the lock is taken ...
add(p) ==
    /\ jpc[p] = "add"
    /\ \E a \in Ptrs :
        /\ jobMem[a] = None
        /\ jobMem' = [jobMem EXCEPT ![a] = p]
        /\ ptr' = [ptr EXCEPT ![p] = a]
    /\ Step(p, "lock")
    /\ UNCHANGED <<ringVars, todo, ok, ran, jobs>>

\* ... then in the input ring ...
Submit(p) ==
    /\ jpc[p] = "lock" /\ ringLock = None
    /\ ringLock' = p
    /\ input' = ptr[p] /\ added' = TRUE
    /\ ran' = [ran EXCEPT ![p] = FALSE]
    /\ Step(p, "wait")
    /\ UNCHANGED <<once, output, full, todo, ptr, ok, jobMem, jobs>>

\* ... reg.Wait for a result, which must be for this descriptor
Result(p) ==
    /\ jpc[p] = "wait" /\ full = 1
    /\ ok' = [ok EXCEPT ![p] = (output = <<ptr[p], TRUE>>)]
    /\ Step(p, "remove")
    /\ UNCHANGED <<ringVars, todo, ptr, ran, jobMem, jobs>>

\* mutant: the result stays in the output ring
RemoveNot(p) ==
    /\ jpc[p] = "remove"
    /\ ringLock' = None
    /\ Step(p, "free")
    /\ UNCHANGED <<once, input, added, output, full, todo, ptr, ok, ran, jobMem, jobs>>

\* the deferred calls: the result is removed from the output ring, the lock released
Remove(p) ==
    /\ jpc[p] = "remove"
    /\ full' = 0 /\ ringLock' = None
    /\ Step(p, "free")
    /\ UNCHANGED <<once, input, added, output, todo, ptr, ok, ran, jobMem, jobs>>

\* the descriptor is freed; an error of the job for the RNG is ignored
Free(p) ==
    /\ jpc[p] = "free"
    /\ jobMem' = [jobMem EXCEPT ![ptr[p]] = None]
    /\ ptr' = [ptr EXCEPT ![p] = None]
    /\ LET rng == Head(todo[p]) = "rng"
           rest == IF ok[p] \/ rng THEN Tail(todo[p]) ELSE <<>>
       IN  /\ todo' = [todo EXCEPT ![p] = rest]
           /\ Step(p, IF rest = <<>> THEN "idle" ELSE "job")
           /\ once' = IF rng /\ rest # <<>> THEN "done" ELSE once
    /\ UNCHANGED <<ringLock, input, added, output, full, ok, ran, jobs>>

-----------------------------------------------------------------------------
(* The engine.                                                             *)

\* a job is executed, with or without error, from its descriptor in memory
Execute ==
    /\ added /\ full = 0
    /\ \E good \in BOOLEAN : output' = <<input, good>>
    /\ ran' = [p \in JobProcs |-> ran[p] \/ jobMem[input] = p]
    /\ added' = FALSE /\ full' = 1
    /\ UNCHANGED <<once, ringLock, input, jpc, todo, ptr, ok, jobMem, jobs>>

Next ==
    \/ \E p \in JobProcs :
        \/ cipher(p) \/ SumAES(p) \/ Sign(p) \/ DeriveKey(p) \/ SetOwner(p)
        \/ Job(p) \/ add(p) \/ Submit(p) \/ Result(p) \/ Remove(p) \/ Free(p)
    \/ Execute

Spec == Init /\ [][Next]_caamVars

-----------------------------------------------------------------------------

\* A job that add reports as done has been executed by the engine, and a
\* descriptor handed to the engine stays in memory until its result was seen.
JobOwn ==
    /\ \A p \in JobProcs : jpc[p] = "remove" /\ ok[p] => ran[p]
    /\ added => jobMem[input] # None

-----------------------------------------------------------------------------
(***************************************************************************)
(* SHA256 with the NXP co-processors (DCP and CAAM, whose drivers have the *)
(* same digest type): instances made by New256, written to block by block, *)
(* and one-shot sums.  The co-processor keeps a single running hash; a     *)
(* command is one step (see DcpCommand, and the jobs above) that may fail.  *)
(*                                                                         *)
(* A hash is represented by the bytes it is of; byte i that is written to  *)
(* instance d is <<d, i>>.  Users call nothing after Sum, and call only    *)
(* Sum after an error of Write.                                            *)
(***************************************************************************)

CONSTANTS
    Digests,        \* instances, each made at most once
    BlockSize,
    Lengths,        \* lengths of the writes
    MaxWritten,     \* bound: bytes written to an instance
    SharedChannel   \* one-shot sums are also requested while an instance is in use

VARIABLES
    mu,             \* the mutex for the single instance
    dpc,            \* instances: "none", "ready", "rest", "ended"
    buf, init,      \* instances: partial block, nothing hashed yet
    rest,           \* instances: what Write has left of its argument
    written,        \* instances: bytes handed to Write
    broken,         \* instances: some call returned an error
    sum,            \* instances: the result of Sum
    context         \* the running hash of the co-processor

hashVars == <<mu, dpc, buf, init, rest, written, broken, sum, context>>

NoSum == <<"no sum">>
Bytes(d, from, n) == [i \in 1 .. n |-> <<d, from + i>>]

HashInit ==
    /\ mu = FALSE /\ dpc = [d \in Digests |-> "none"]
    /\ buf = [d \in Digests |-> <<>>] /\ init = [d \in Digests |-> TRUE]
    /\ rest = [d \in Digests |-> <<>>] /\ written = [d \in Digests |-> 0]
    /\ broken = [d \in Digests |-> FALSE] /\ sum = [d \in Digests |-> NoSum]
    /\ context = <<>>

\* mutant: the result of TryLock is not looked at
New256Always(d) ==
    /\ dpc[d] = "none"
    /\ mu' = TRUE
    /\ dpc' = [dpc EXCEPT ![d] = "ready"]
    /\ UNCHANGED <<buf, init, rest, written, broken, sum, context>>

\* an error when another instance is in use
New256(d) ==
    /\ dpc[d] = "none" /\ ~mu
    /\ mu' = TRUE
    /\ dpc' = [dpc EXCEPT ![d] = "ready"]
    /\ UNCHANGED <<buf, init, rest, written, broken, sum, context>>

\* hash: a command that continues, or starts, the running hash with data
hash(data, start) == context' = IF start THEN data ELSE context \o data

Fail(d) ==
    /\ context' = <<>>
    /\ broken' = [broken EXCEPT ![d] = TRUE]
    /\ UNCHANGED <<init, rest>>

\* Write when there is still not enough for a block
WriteBuffer(d, n) ==
    /\ dpc[d] = "ready" /\ ~broken[d] /\ written[d] + n <= MaxWritten
    /\ Len(buf[d]) + n < BlockSize
    /\ buf' = [buf EXCEPT ![d] = @ \o Bytes(d, written[d], n)]
    /\ written' = [written EXCEPT ![d] = @ + n]
    /\ UNCHANGED <<mu, dpc, init, rest, broken, sum, context>>

\* Write tops up the partial block and hashes it ...
WriteBlock(d, n) ==
    /\ dpc[d] = "ready" /\ ~broken[d] /\ written[d] + n <= MaxWritten
    /\ Len(buf[d]) + n >= BlockSize
    /\ LET p == Bytes(d, written[d], n)
           cut == BlockSize - Len(buf[d])
           block == buf[d] \o SubSeq(p, 1, cut)
       IN  /\ buf' = [buf EXCEPT ![d] = block]
           /\ \/ /\ hash(block, init[d])
                 /\ init' = [init EXCEPT ![d] = FALSE]
                 /\ rest' = [rest EXCEPT ![d] = SubSeq(p, cut + 1, n)]
                 /\ dpc' = [dpc EXCEPT ![d] = "rest"]
                 /\ UNCHANGED broken
              \/ Fail(d) /\ UNCHANGED dpc
    /\ written' = [written EXCEPT ![d] = @ + n]
    /\ UNCHANGED <<mu, sum>>

\* the full blocks of p, unless it is just one
FullBlocks(p) == IF Len(p) > BlockSize THEN Len(p) - (Len(p) % BlockSize) ELSE 0

\* ... then hashes full blocks and keeps what remains
WriteRest(d) ==
    /\ dpc[d] = "rest"
    /\ dpc' = [dpc EXCEPT ![d] = "ready"]
    /\ LET whole == FullBlocks(rest[d])
       IN  \/ /\ IF whole > 0 THEN hash(SubSeq(rest[d], 1, whole), FALSE) ELSE UNCHANGED context
              /\ buf' = [buf EXCEPT ![d] = SubSeq(rest[d], whole + 1, Len(rest[d]))]
              /\ rest' = [rest EXCEPT ![d] = <<>>]
              /\ UNCHANGED <<init, broken>>
           \/ whole > 0 /\ Fail(d) /\ UNCHANGED buf
    /\ UNCHANGED <<mu, written, sum>>

\* Sum ends the use of the instance, also with an error
Sum(d) ==
    /\ dpc[d] = "ready"
    /\ dpc' = [dpc EXCEPT ![d] = "ended"]
    /\ mu' = FALSE
    /\ \/ /\ init[d] /\ buf[d] = <<>>
          /\ sum' = [sum EXCEPT ![d] = <<>>]
          /\ UNCHANGED <<context, init, rest, broken>>
       \/ /\ ~(init[d] /\ buf[d] = <<>>)
          /\ \/ /\ hash(buf[d], init[d])
                /\ sum' = [sum EXCEPT ![d] = context']
                /\ UNCHANGED <<init, rest, broken>>
             \/ Fail(d) /\ UNCHANGED sum
    /\ UNCHANGED <<buf, written>>

\* Sum256 takes no part in the exclusion of instances
Sum256 ==
    /\ SharedChannel \/ ~mu
    /\ hash(<<<<"data", 1>>>>, TRUE)
    /\ UNCHANGED <<mu, dpc, buf, init, rest, written, broken, sum>>

HashNext ==
    \/ \E d \in Digests :
        \/ New256(d) \/ WriteRest(d) \/ Sum(d)
        \/ \E n \in Lengths : WriteBuffer(d, n) \/ WriteBlock(d, n)
    \/ Sum256

HashSpec == HashInit /\ [][HashNext]_hashVars

-----------------------------------------------------------------------------

\* "only one digest state can be kept at any given time": the sum of an instance
\* is the hash of all that was written to it, in order, whatever the lengths of
\* the writes and whatever else the co-processor is used for.
SumExact ==
    \A d \in Digests : sum[d] # NoSum /\ ~broken[d] => sum[d] = Bytes(d, 0, written[d])

=============================================================================
