--------------------------- MODULE ProcessorProofs ---------------------------
(***************************************************************************)
(* Processors of ARM and AMD64 and the NXP cryptographic co-processors:    *)
(* what the runtime relies on, what the drivers promise, and the proofs.   *)
(* Interrupts, application processors, hashes, jobs of the CAAM and        *)
(* commands of the DCP each have an inductive invariant and a lemma that   *)
(* no step leaves it.                                                      *)
(***************************************************************************)
EXTENDS Integers, Sequences, FiniteSets, TLAPS

------------------------------------------------------------------------------
(* Sequences.                                                              *)

\* Sequences are equal if their elements are.
LEMMA EqualSeqs ==
    ASSUME NEW S, NEW s \in Seq(S), NEW t \in Seq(S), Len(s) = Len(t),
           \A i \in 1 .. Len(s) : s[i] = t[i]
    PROVE  s = t
OBVIOUS

\* Sequences of a larger set.
LEMMA LargerSeqs ==
    ASSUME NEW S, NEW T, S \subseteq T
    PROVE  Seq(S) \subseteq Seq(T)
OBVIOUS

\* A function of a first part of the numbers is a sequence.
LEMMA FunctionSeq ==
    ASSUME NEW n \in Nat, NEW e(_), NEW S, \A i \in 1 .. n : e(i) \in S
    PROVE  [i \in 1 .. n |-> e(i)] \in Seq(S)
OBVIOUS

\* What \o joins.
LEMMA ConcatIs ==
    ASSUME NEW S, NEW s \in Seq(S), NEW t \in Seq(S)
    PROVE  /\ s \o t \in Seq(S) /\ Len(s \o t) = Len(s) + Len(t)
           /\ \A i \in 1 .. Len(s) + Len(t) :
                 (s \o t)[i] = IF i <= Len(s) THEN s[i] ELSE t[i - Len(s)]
OBVIOUS

\* What Tail leaves.
LEMMA TailIs ==
    ASSUME NEW S, NEW s \in Seq(S), s # <<>>
    PROVE  /\ Head(s) \in S /\ Tail(s) \in Seq(S) /\ Len(Tail(s)) = Len(s) - 1
           /\ \A i \in 1 .. Len(Tail(s)) : Tail(s)[i] = s[i + 1]
OBVIOUS

\* What SubSeq cuts out.
LEMMA SubSeqIs ==
    ASSUME NEW S, NEW s, NEW m \in Int, NEW n \in Int, \A i \in m .. n : s[i] \in S
    PROVE  /\ SubSeq(s, m, n) \in Seq(S)
           /\ Len(SubSeq(s, m, n)) = IF m <= n THEN n - m + 1 ELSE 0
           /\ \A i \in 1 .. n - m + 1 : SubSeq(s, m, n)[i] = s[m + i - 1]
OBVIOUS

------------------------------------------------------------------------------
(* CaamJob: hashes with a running state.                                   *)

CONSTANTS Digests, BlockSize, Lengths, MaxWritten, SharedChannel
CONSTANTS JobProcs, Ptrs, MaxJobs

VARIABLES mu, dpc, buf, init, rest, written, broken, sum, context
VARIABLES once, ringLock, jpc, todo, ptr, ok, ran, jobMem, input, added, output, full, jobs

Caam == INSTANCE CaamJob

\* A block has bytes.  One-shot sums are not requested while an instance is in use, as
\* sha.go asks.
HashConstants == BlockSize \in Nat \ {0} /\ Lengths \subseteq Nat /\ ~SharedChannel

ASSUME HashAssumption == HashConstants

\* an instance that was made and has no sum yet
InUse(d) == dpc[d] \in {"ready", "rest"}

\* Types of the state of instances.
HashType ==
    /\ DOMAIN dpc = Digests /\ DOMAIN buf = Digests /\ DOMAIN init = Digests
         /\ DOMAIN rest = Digests
    /\ DOMAIN broken = Digests /\ DOMAIN sum = Digests /\ DOMAIN written = Digests
    /\ \A d \in Digests : written[d] \in Nat

\* The instance that is in use is the only one.
OneInstance ==
    /\ \A d \in Digests : InUse(d) => mu
    /\ \A d, e \in Digests : InUse(d) /\ InUse(e) => d = e

\* the running hash and the bytes left are what was written to an instance
Hashed(d, left) ==
    \E h, g \in Nat : context = Caam!Bytes(d, 0, h) /\ left = Caam!Bytes(d, h, g)
        /\ written[d] = h + g

\* What was written to an instance is what the co-processor has hashed followed by
\* what is in the buffer, or by what Write has left.
Progress ==
    \A d \in Digests :
        /\ dpc[d] = "none" => init[d] /\ buf[d] = <<>> /\ written[d] = 0
        /\ dpc[d] = "ready" /\ ~broken[d] /\ init[d] => buf[d] = Caam!Bytes(d, 0, written[d])
        /\ dpc[d] = "ready" /\ ~broken[d] /\ ~init[d] => Hashed(d, buf[d])
        /\ dpc[d] = "ready" /\ ~broken[d] => Len(buf[d]) <= BlockSize
        /\ dpc[d] = "rest" => ~init[d] /\ Hashed(d, rest[d])
        /\ sum[d] # Caam!NoSum => dpc[d] = "ended"

\* The inductive invariant of hashes, with what it is for.
HashInv == HashType /\ OneInstance /\ Progress /\ Caam!SumExact

\* the bytes of an instance
Marks(d) == {d} \X Nat

\* Bytes of an instance are numbered from where they start.
LEMMA BytesIs ==
    ASSUME NEW d, NEW a \in Nat, NEW n \in Nat
    PROVE  /\ Caam!Bytes(d, a, n) \in Seq(Marks(d)) /\ Len(Caam!Bytes(d, a, n)) = n
           /\ \A i \in 1 .. n : Caam!Bytes(d, a, n)[i] = <<d, a + i>>
                /\ Caam!Bytes(d, a, n)[i] \in Marks(d)
BY FunctionSeq DEF Caam!Bytes, Marks

\* There are as many as asked for.
LEMMA BytesLen == ASSUME NEW d, NEW a \in Nat, NEW n \in Nat PROVE Len(Caam!Bytes(d, a, n)) = n
BY BytesIs, Zenon

\* Bytes that follow each other are one run of bytes.
LEMMA BytesJoin ==
    ASSUME NEW d, NEW a \in Nat, NEW n \in Nat, NEW m \in Nat
    PROVE  Caam!Bytes(d, a, n) \o Caam!Bytes(d, a + n, m) = Caam!Bytes(d, a, n + m)
<1> DEFINE c == Caam!Bytes(d, a, n) \o Caam!Bytes(d, a + n, m)
<1>1. a + n \in Nat /\ n + m \in Nat
  OBVIOUS
<1>2. Caam!Bytes(d, a, n) \in Seq(Marks(d)) /\ Len(Caam!Bytes(d, a, n)) = n
      /\ \A i \in 1 .. n : Caam!Bytes(d, a, n)[i] = <<d, a + i>>
  BY BytesIs, Zenon
<1>3. Caam!Bytes(d, a + n, m) \in Seq(Marks(d)) /\ Len(Caam!Bytes(d, a + n, m)) = m
      /\ \A i \in 1 .. m : Caam!Bytes(d, a + n, m)[i] = <<d, a + n + i>>
  BY <1>1, BytesIs, Zenon
<1>4. Caam!Bytes(d, a, n + m) \in Seq(Marks(d)) /\ Len(Caam!Bytes(d, a, n + m)) = n + m
      /\ \A i \in 1 .. n + m : Caam!Bytes(d, a, n + m)[i] = <<d, a + i>>
  BY <1>1, BytesIs, Zenon
<1>5. /\ c \in Seq(Marks(d)) /\ Len(c) = n + m
      /\ \A i \in 1 .. n + m : c[i] = IF i <= n THEN Caam!Bytes(d, a, n)[i]
                                       ELSE Caam!Bytes(d, a + n, m)[i - n]
  <2>1. /\ c \in Seq(Marks(d))
             /\ Len(c) = Len(Caam!Bytes(d, a, n)) + Len(Caam!Bytes(d, a + n, m))
        /\ \A i \in 1 .. Len(Caam!Bytes(d, a, n)) + Len(Caam!Bytes(d, a + n, m)) :
              c[i] = IF i <= Len(Caam!Bytes(d, a, n)) THEN Caam!Bytes(d, a, n)[i]
                     ELSE Caam!Bytes(d, a + n, m)[i - Len(Caam!Bytes(d, a, n))]
    BY <1>2, <1>3, ConcatIs, Zenon
  <2> HIDE DEF c
  <2>2. QED
    BY <1>2, <1>3, <2>1, Zenon
<1> HIDE DEF c
<1>6. ASSUME NEW i \in 1 .. n + m PROVE c[i] = <<d, a + i>>
  <2>1. CASE i <= n
    BY <1>2, <1>5, <2>1
  <2>2. CASE ~(i <= n)
    <3>1. i - n \in 1 .. m /\ a + n + (i - n) = a + i
      BY <2>2
    <3>2. QED
      BY <1>3, <1>5, <2>2, <3>1, Zenon
  <2>3. QED
    BY <2>1, <2>2
<1>7. c = Caam!Bytes(d, a, n + m)
  BY <1>4, <1>5, <1>6, EqualSeqs, Zenon
<1>8. QED
  BY <1>7 DEF c

\* Bytes from the start, with none before them.
LEMMA BytesStart ==
    ASSUME NEW d, NEW n \in Nat, NEW m \in Nat
    PROVE  Caam!Bytes(d, 0, n) \o Caam!Bytes(d, n, m) = Caam!Bytes(d, 0, n + m)
<1>1. PICK a \in Nat : a = 0 /\ a + n = n
  OBVIOUS
<1>2. Caam!Bytes(d, a, n) \o Caam!Bytes(d, a + n, m) = Caam!Bytes(d, a, n + m)
  BY BytesJoin, Zenon
<1>3. QED
  BY <1>1, <1>2

\* A part of a run of bytes is a run of bytes.
LEMMA BytesCut ==
    ASSUME NEW d, NEW a \in Nat, NEW k \in Nat, NEW m \in Nat
    PROVE  /\ SubSeq(Caam!Bytes(d, a, k + m), 1, k) = Caam!Bytes(d, a, k)
           /\ SubSeq(Caam!Bytes(d, a, k + m), k + 1, k + m) = Caam!Bytes(d, a + k, m)
<1> DEFINE b == Caam!Bytes(d, a, k + m)
<1>1. k + m \in Nat /\ a + k \in Nat /\ k + 1 \in Int /\ k + m \in Int
  OBVIOUS
<1>2. \A i \in 1 .. k + m : b[i] \in Marks(d) /\ b[i] = <<d, a + i>>
  BY <1>1, BytesIs, Zenon
<1>3. Caam!Bytes(d, a, k) \in Seq(Marks(d)) /\ Len(Caam!Bytes(d, a, k)) = k
      /\ \A i \in 1 .. k : Caam!Bytes(d, a, k)[i] = <<d, a + i>>
  BY BytesIs, Zenon
<1>4. Caam!Bytes(d, a + k, m) \in Seq(Marks(d)) /\ Len(Caam!Bytes(d, a + k, m)) = m
      /\ \A i \in 1 .. m : Caam!Bytes(d, a + k, m)[i] = <<d, a + k + i>>
  BY <1>1, BytesIs, Zenon
<1> HIDE DEF b
<1>5. SubSeq(b, 1, k) = Caam!Bytes(d, a, k)
  <2>1. \A i \in 1 .. k : b[i] \in Marks(d) /\ b[i] = <<d, a + i>>
    BY <1>2
  <2>2. /\ SubSeq(b, 1, k) \in Seq(Marks(d))
             /\ Len(SubSeq(b, 1, k)) = IF 1 <= k THEN k - 1 + 1 ELSE 0
        /\ \A i \in 1 .. k - 1 + 1 : SubSeq(b, 1, k)[i] = b[1 + i - 1]
    BY <2>1, SubSeqIs
  <2>3. Len(SubSeq(b, 1, k)) = k /\ \A i \in 1 .. k : SubSeq(b, 1, k)[i] = <<d, a + i>>
    BY <2>1, <2>2
  <2>4. QED
    BY <1>3, <2>2, <2>3, EqualSeqs, Zenon
<1>6. SubSeq(b, k + 1, k + m) = Caam!Bytes(d, a + k, m)
  <2>1. \A i \in k + 1 .. k + m : b[i] \in Marks(d)
    BY <1>2
  <2>2. /\ SubSeq(b, k + 1, k + m) \in Seq(Marks(d))
        /\ Len(SubSeq(b, k + 1, k + m)) = IF k + 1 <= k + m THEN k + m - (k + 1) + 1 ELSE 0
        /\ \A i \in 1 .. k + m - (k + 1) + 1 : SubSeq(b, k + 1, k + m)[i] = b[k + 1 + i - 1]
    BY <1>1, <2>1, SubSeqIs
  <2>3. Len(SubSeq(b, k + 1, k + m)) = m
    BY <2>2
  <2>4. ASSUME NEW i \in 1 .. m PROVE SubSeq(b, k + 1, k + m)[i] = <<d, a + k + i>>
    <3>1. k + i \in 1 .. k + m /\ k + 1 + i - 1 = k + i /\ i \in 1 .. k + m - (k + 1) + 1
      OBVIOUS
    <3>2. b[k + i] = <<d, a + (k + i)>>
      BY <1>2, <3>1
    <3>3. a + (k + i) = a + k + i
      OBVIOUS
    <3>4. QED
      BY <2>2, <3>1, <3>2, <3>3
  <2>5. QED
    BY <1>4, <2>2, <2>3, <2>4, EqualSeqs, Zenon
<1>7. QED
  BY <1>5, <1>6 DEF b

\* What an instance has hashed and kept, when the rest of its state is not changed.
LEMMA Tracked ==
    ASSUME HashInv, NEW d \in Digests, dpc[d] = "ready", ~broken[d]
    PROVE  \E h, g \in Nat : /\ written[d] = h + g /\ buf[d] = Caam!Bytes(d, h, g)
                             /\ Len(buf[d]) = g /\ g <= BlockSize
                             /\ init[d] => h = 0
                             /\ ~init[d] => context = Caam!Bytes(d, 0, h)
<1>1. written[d] \in Nat /\ Len(buf[d]) <= BlockSize
  BY DEF HashInv, HashType, Progress
<1>2. CASE init[d]
  <2>1. buf[d] = Caam!Bytes(d, 0, written[d])
    BY <1>2 DEF HashInv, Progress
  <2>2. Len(buf[d]) = written[d]
    BY <1>1, <2>1, BytesLen
  <2>3. QED
    BY <1>1, <1>2, <2>1, <2>2
<1>3. CASE ~init[d]
  <2>1. PICK h, g \in Nat : context = Caam!Bytes(d, 0, h) /\ buf[d] = Caam!Bytes(d, h, g)
             /\ written[d] = h + g
    BY <1>3 DEF HashInv, Progress, Hashed
  <2>2. Len(buf[d]) = g
    BY <2>1, BytesLen
  <2>3. QED
    BY <1>1, <1>3, <2>1, <2>2
<1>4. QED
  BY <1>2, <1>3

\* An instance in use has the mutex to itself and has no sum.
LEMMA Single ==
    ASSUME HashInv, NEW d \in Digests, InUse(d)
    PROVE  mu /\ sum[d] = Caam!NoSum /\ \A e \in Digests : e # d => ~InUse(e)
BY DEF HashInv, OneInstance, InUse, Progress

\* A write that does not fill the buffer keeps the invariant.
LEMMA WriteBufferStep ==
    ASSUME HashInv, NEW d \in Digests, NEW n \in Lengths, Caam!WriteBuffer(d, n)
    PROVE  HashInv'
<1>1. dpc[d] = "ready" /\ ~broken[d]
  BY DEF Caam!WriteBuffer
<1>2. /\ buf' = [buf EXCEPT ![d] = buf[d] \o Caam!Bytes(d, written[d], n)]
      /\ written' = [written EXCEPT ![d] = written[d] + n]
      /\ UNCHANGED <<mu, dpc, init, rest, broken, sum, context>>
  BY DEF Caam!WriteBuffer
<1>3. n \in Nat /\ written[d] \in Nat /\ DOMAIN written = Digests /\ DOMAIN buf = Digests
  BY HashAssumption DEF HashConstants, HashInv, HashType
<1>4. PICK h, g \in Nat : /\ written[d] = h + g /\ buf[d] = Caam!Bytes(d, h, g)
                          /\ Len(buf[d]) = g /\ g <= BlockSize
                          /\ init[d] => h = 0
                          /\ ~init[d] => context = Caam!Bytes(d, 0, h)
  BY <1>1, Tracked
<1>5. buf'[d] = Caam!Bytes(d, h, g + n)
  <2>1. Caam!Bytes(d, h, g) \o Caam!Bytes(d, h + g, n) = Caam!Bytes(d, h, g + n)
    BY <1>3, BytesJoin, ZenonT(30)
  <2>2. QED
    BY <1>2, <1>3, <1>4, <2>1
<1>6. written'[d] = h + (g + n) /\ g + n \in Nat
  BY <1>2, <1>3, <1>4
<1>7. Len(buf'[d]) <= BlockSize
  <2>1. Len(buf'[d]) = g + n
    BY <1>5, <1>6, BytesLen
  <2>2. Len(buf[d]) + n < BlockSize
    BY DEF Caam!WriteBuffer
  <2>3. QED
    BY <1>3, <1>4, <2>1, <2>2, HashAssumption DEF HashConstants
<1>8. HashType' /\ OneInstance' /\ Caam!SumExact'
  BY <1>1, <1>2, <1>3 DEF HashInv, HashType, OneInstance, InUse, Caam!SumExact, Progress
<1>9. \A e \in Digests : e # d => ~InUse(e) /\ written'[e] = written[e] /\ buf'[e] = buf[e]
  BY <1>1, <1>2, Single DEF InUse
<1>10. Hashed(d, buf[d])' \/ init[d]
  BY <1>2, <1>4, <1>5, <1>6, Zenon DEF Hashed
<1>11. init[d] => buf'[d] = Caam!Bytes(d, 0, written'[d])
  BY <1>3, <1>4, <1>5, <1>6
<1>12. Progress'
  BY <1>1, <1>2, <1>7, <1>9, <1>10, <1>11, Zenon DEF Progress, HashInv, InUse
<1>13. QED
  BY <1>8, <1>12 DEF HashInv

\* A write that fills the buffer hashes a block and keeps the invariant.
LEMMA WriteBlockStep ==
    ASSUME HashInv, NEW d \in Digests, NEW n \in Lengths, Caam!WriteBlock(d, n)
    PROVE  HashInv'
<1> DEFINE p == Caam!Bytes(d, written[d], n)
           cut == BlockSize - Len(buf[d])
           block == buf[d] \o SubSeq(p, 1, cut)
<1>0. \A w, i, j \in Nat :
         /\ SubSeq(Caam!Bytes(d, w, i + j), 1, i) = Caam!Bytes(d, w, i)
         /\ SubSeq(Caam!Bytes(d, w, i + j), i + 1, i + j) = Caam!Bytes(d, w + i, j)
  BY BytesCut, Zenon
<1>1. dpc[d] = "ready" /\ ~broken[d] /\ mu /\ sum[d] = Caam!NoSum
  BY Single DEF Caam!WriteBlock, InUse
<1>2. \A e \in Digests : e # d => ~InUse(e)
  BY <1>1, Single DEF InUse
<1>3. /\ buf' = [buf EXCEPT ![d] = block] /\ written' = [written EXCEPT ![d] = written[d] + n]
      /\ UNCHANGED <<mu, sum>>
  BY DEF Caam!WriteBlock
<1>4. n \in Nat /\ written[d] \in Nat /\ HashType
  BY HashAssumption DEF HashConstants, HashInv, HashType
<1>5. CASE Caam!Fail(d) /\ UNCHANGED dpc
  BY <1>1, <1>2, <1>3, <1>4, <1>5 DEF Caam!Fail, HashInv, HashType, OneInstance, InUse,
         Caam!SumExact, Progress
<1>6. CASE /\ Caam!hash(block, init[d])
           /\ init' = [init EXCEPT ![d] = FALSE]
           /\ rest' = [rest EXCEPT ![d] = SubSeq(p, cut + 1, n)]
           /\ dpc' = [dpc EXCEPT ![d] = "rest"]
           /\ UNCHANGED broken
  <2>1. PICK h, g \in Nat : /\ written[d] = h + g /\ buf[d] = Caam!Bytes(d, h, g)
                            /\ Len(buf[d]) = g /\ g <= BlockSize
                            /\ init[d] => h = 0
                            /\ ~init[d] => context = Caam!Bytes(d, 0, h)
    BY <1>1, Tracked
  <2>2. PICK k, m \in Nat : k = cut /\ n = k + m
    <3>1. Len(buf[d]) + n >= BlockSize
      BY DEF Caam!WriteBlock
    <3>2. BlockSize - g \in Nat /\ n - (BlockSize - g) \in Nat
      BY <1>4, <2>1, <3>1, HashAssumption DEF HashConstants
    <3>3. n = (BlockSize - g) + (n - (BlockSize - g))
      BY <1>4, <2>1, <3>2, HashAssumption DEF HashConstants
    <3>4. QED
      BY <2>1, <3>2, <3>3
  <2> HIDE DEF cut
  <2>3. SubSeq(p, 1, cut) = Caam!Bytes(d, written[d], k)
        /\ SubSeq(p, cut + 1, n) = Caam!Bytes(d, written[d] + k, m)
    <3>1. /\ SubSeq(Caam!Bytes(d, written[d], k + m), 1, k) = Caam!Bytes(d, written[d], k)
          /\ SubSeq(Caam!Bytes(d, written[d], k + m), k + 1, k + m)
                = Caam!Bytes(d, written[d] + k, m)
      <4>1. \A i, j \in Nat :
               /\ SubSeq(Caam!Bytes(d, written[d], i + j), 1, i) = Caam!Bytes(d, written[d], i)
               /\ SubSeq(Caam!Bytes(d, written[d], i + j), i + 1, i + j)
                     = Caam!Bytes(d, written[d] + i, j)
        BY <1>0, <1>4, Zenon
      <4>2. QED
        BY <4>1, Zenon
    <3>2. QED
      BY <2>2, <3>1
  <2>4. block = Caam!Bytes(d, h, g + k)
    <3>1. Caam!Bytes(d, h, g) \o Caam!Bytes(d, h + g, k) = Caam!Bytes(d, h, g + k)
      BY BytesJoin, ZenonT(30)
    <3>2. QED
      BY <2>1, <2>3, <3>1, Zenon
  <2>5. context' = Caam!Bytes(d, 0, h + (g + k))
    <3>1. CASE init[d]
      <4>1. context' = block /\ h = 0
        BY <1>6, <2>1, <3>1, Zenon DEF Caam!hash
      <4>2. g + k = 0 + (g + k)
        OBVIOUS
      <4>3. QED
        BY <2>4, <4>1, <4>2, Zenon
    <3>2. CASE ~init[d]
      <4>1. context' = Caam!Bytes(d, 0, h) \o Caam!Bytes(d, h, g + k)
        BY <1>6, <2>1, <2>4, <3>2, Zenon DEF Caam!hash
      <4>2. g + k \in Nat
        OBVIOUS
      <4>3. QED
        BY <4>1, <4>2, BytesStart
    <3>3. QED
      BY <3>1, <3>2
  <2>6. rest'[d] = Caam!Bytes(d, h + (g + k), m) /\ written'[d] = (h + (g + k)) + m
        /\ h + (g + k) \in Nat
    <3>1. written[d] + k = h + (g + k) /\ written[d] + n = (h + (g + k)) + m
      BY <2>1, <2>2
    <3>2. written'[d] = written[d] + n /\ rest'[d] = SubSeq(p, cut + 1, n)
      BY <1>3, <1>4, <1>6, Zenon DEF HashType
    <3>3. h + (g + k) \in Nat
      BY <2>1, <2>2
    <3>4. QED
      BY <2>3, <3>1, <3>2, <3>3
  <2>7. HashType' /\ OneInstance' /\ Caam!SumExact'
    BY <1>1, <1>2, <1>3, <1>4, <1>6 DEF HashInv, HashType, OneInstance, InUse, Caam!SumExact,
           Progress
  <2>8. \A e \in Digests : e # d => dpc'[e] = dpc[e] /\ written'[e] = written[e]
        /\ buf'[e] = buf[e] /\ init'[e] = init[e]
    BY <1>3, <1>6
  <2>9. dpc'[d] = "rest" /\ ~init'[d] /\ sum'[d] = Caam!NoSum
    BY <1>1, <1>3, <1>4, <1>6 DEF HashType
  <2>10. Hashed(d, rest[d])'
    BY <2>2, <2>5, <2>6 DEF Hashed
  <2>11. Progress'
    BY <1>2, <1>3, <2>8, <2>9, <2>10 DEF Progress, HashInv, InUse
  <2>12. QED
    BY <2>7, <2>11 DEF HashInv
<1>7. QED
  BY <1>5, <1>6 DEF Caam!WriteBlock

\* What is left of a write is hashed and buffered, and the invariant kept.
LEMMA WriteRestStep == ASSUME HashInv, NEW d \in Digests, Caam!WriteRest(d) PROVE HashInv'
<1> DEFINE whole == Caam!FullBlocks(rest[d])
<1>1. dpc[d] = "rest" /\ ~init[d] /\ mu /\ sum[d] = Caam!NoSum
  BY Single DEF Caam!WriteRest, InUse, HashInv, Progress
<1>2. \A e \in Digests : e # d => ~InUse(e)
  BY <1>1, Single DEF InUse
<1>3. dpc' = [dpc EXCEPT ![d] = "ready"] /\ UNCHANGED <<mu, written, sum>> /\ HashType
  BY DEF Caam!WriteRest, HashInv
<1>4. CASE Caam!Fail(d) /\ UNCHANGED buf
  BY <1>1, <1>2, <1>3, <1>4 DEF Caam!Fail, HashInv, HashType, OneInstance, InUse,
         Caam!SumExact, Progress
<1>5. CASE /\ IF whole > 0 THEN Caam!hash(SubSeq(rest[d], 1, whole), FALSE)
                           ELSE UNCHANGED context
           /\ buf' = [buf EXCEPT ![d] = SubSeq(rest[d], whole + 1, Len(rest[d]))]
           /\ rest' = [rest EXCEPT ![d] = <<>>]
           /\ UNCHANGED <<init, broken>>
  <2>1. PICK h, g \in Nat : context = Caam!Bytes(d, 0, h) /\ rest[d] = Caam!Bytes(d, h, g)
             /\ written[d] = h + g
    BY <1>1 DEF HashInv, Progress, Hashed
  <2>2. Len(rest[d]) = g
    BY <2>1, BytesLen
  <2>3. PICK k, m \in Nat : k = whole /\ g = k + m /\ m <= BlockSize
    <3>1. PICK r \in Nat : r = g % BlockSize /\ r < BlockSize
      BY HashAssumption DEF HashConstants
    <3>2. whole = IF g > BlockSize THEN g - r ELSE 0
      BY <2>2, <3>1 DEF Caam!FullBlocks
    <3>3. CASE g > BlockSize
      <4>1. g - r \in Nat /\ g = (g - r) + r /\ r <= BlockSize /\ whole = g - r
        BY <3>1, <3>2, <3>3, HashAssumption DEF HashConstants
      <4>2. QED
        BY <3>1, <4>1
    <3>4. CASE ~(g > BlockSize)
      <4>1. whole = 0 /\ g = 0 + g /\ g <= BlockSize
        BY <3>2, <3>4, HashAssumption DEF HashConstants
      <4>2. QED
        BY <4>1
    <3>5. QED
      BY <3>3, <3>4
  <2> HIDE DEF whole
  <2>4. SubSeq(rest[d], 1, whole) = Caam!Bytes(d, h, k)
        /\ SubSeq(rest[d], whole + 1, Len(rest[d])) = Caam!Bytes(d, h + k, m)
    <3>1. /\ SubSeq(Caam!Bytes(d, h, k + m), 1, k) = Caam!Bytes(d, h, k)
          /\ SubSeq(Caam!Bytes(d, h, k + m), k + 1, k + m) = Caam!Bytes(d, h + k, m)
      BY BytesCut, ZenonT(30)
    <3>2. QED
      BY <2>1, <2>2, <2>3, <3>1
  <2>5. context' = Caam!Bytes(d, 0, h + k)
    <3>1. CASE whole > 0
      <4>1. context' = Caam!Bytes(d, 0, h) \o Caam!Bytes(d, h, k)
        BY <1>5, <2>1, <2>4, <3>1, Zenon DEF Caam!hash
      <4>2. QED
        BY <4>1, BytesStart
    <3>2. CASE ~(whole > 0)
      <4>1. h + k = h
        BY <2>3, <3>2
      <4>2. QED
        BY <1>5, <2>1, <3>2, <4>1
    <3>3. QED
      BY <3>1, <3>2
  <2>6. buf'[d] = Caam!Bytes(d, h + k, m) /\ h + k \in Nat /\ written'[d] = (h + k) + m
    <3>1. buf'[d] = Caam!Bytes(d, h + k, m) /\ written'[d] = h + g
      BY <1>3, <1>5, <2>1, <2>4 DEF HashType
    <3>2. h + g = (h + k) + m /\ h + k \in Nat
      BY <2>3
    <3>3. QED
      BY <3>1, <3>2
  <2>7. Len(buf'[d]) <= BlockSize
    BY <2>3, <2>6, BytesLen
  <2>8. HashType' /\ OneInstance' /\ Caam!SumExact'
    BY <1>1, <1>2, <1>3, <1>5 DEF HashInv, HashType, OneInstance, InUse, Caam!SumExact
  <2>9. \A e \in Digests : e # d => dpc'[e] = dpc[e] /\ buf'[e] = buf[e]
    BY <1>3, <1>5
  <2>10. dpc'[d] = "ready" /\ ~init'[d] /\ sum'[d] = Caam!NoSum
    BY <1>1, <1>3, <1>5 DEF HashType
  <2>11. Hashed(d, buf[d])'
    BY <2>3, <2>5, <2>6 DEF Hashed
  <2>12. Progress'
    BY <1>2, <1>3, <1>5, <2>7, <2>9, <2>10, <2>11, Zenon DEF Progress, HashInv, InUse
  <2>13. QED
    BY <2>8, <2>12 DEF HashInv
<1>6. QED
  BY <1>4, <1>5, Zenon DEF Caam!WriteRest

\* Sum hashes what is in the buffer; its result is that of all bytes written.
LEMMA SumStep == ASSUME HashInv, NEW d \in Digests, Caam!Sum(d) PROVE HashInv'
<1>1. dpc[d] = "ready" /\ written[d] \in Nat
  BY DEF Caam!Sum, HashInv, HashType
<1>2. \A e \in Digests : e # d => ~InUse(e)
  BY <1>1, Single DEF InUse
<1>3. dpc' = [dpc EXCEPT ![d] = "ended"] /\ ~mu' /\ UNCHANGED <<buf, written>>
  BY DEF Caam!Sum
<1>4. HashType' /\ OneInstance' /\ Progress'
  BY <1>1, <1>2, <1>3, SMTT(30) DEF Caam!Sum, Caam!Fail, Caam!hash, HashInv, HashType, OneInstance,
         InUse, Progress
<1>5. CASE Caam!Fail(d) /\ UNCHANGED sum
  BY <1>1, <1>3, <1>4, <1>5, Zenon DEF Caam!Fail, HashInv, HashType, Caam!SumExact
<1>6. ASSUME NEW s, sum' = [sum EXCEPT ![d] = s], broken' = broken,
             ~broken[d] => s = Caam!Bytes(d, 0, written[d])
      PROVE  HashInv'
  BY <1>3, <1>4, <1>6, Zenon DEF HashInv, HashType, Caam!SumExact
<1>7. CASE init[d] /\ buf[d] = <<>> /\ sum' = [sum EXCEPT ![d] = <<>>]
           /\ UNCHANGED <<context, init, rest, broken>>
  <2>1. ~broken[d] => <<>> = Caam!Bytes(d, 0, written[d])
    BY <1>1, <1>7 DEF HashInv, Progress
  <2>2. QED
    BY <1>6, <1>7, <2>1, Zenon
<1>8. ASSUME Caam!hash(buf[d], init[d]), ~broken[d]
      PROVE  context' = Caam!Bytes(d, 0, written[d])
  <2>1. PICK h, g \in Nat : /\ written[d] = h + g /\ buf[d] = Caam!Bytes(d, h, g)
                            /\ Len(buf[d]) = g /\ g <= BlockSize
                            /\ init[d] => h = 0
                            /\ ~init[d] => context = Caam!Bytes(d, 0, h)
    BY <1>1, <1>8, Tracked
  <2>2. CASE init[d]
    <3>1. context' = Caam!Bytes(d, h, g) /\ h = 0 /\ h + g = g
      BY <1>8, <2>1, <2>2 DEF Caam!hash
    <3>2. QED
      BY <2>1, <3>1
  <2>3. CASE ~init[d]
    <3>1. context' = Caam!Bytes(d, 0, h) \o Caam!Bytes(d, h, g)
      BY <1>8, <2>1, <2>3 DEF Caam!hash
    <3>2. QED
      BY <2>1, <3>1, BytesStart, Zenon
  <2>4. QED
    BY <2>2, <2>3
<1>9. CASE Caam!hash(buf[d], init[d]) /\ sum' = [sum EXCEPT ![d] = context']
           /\ UNCHANGED <<init, rest, broken>>
  BY <1>6, <1>8, <1>9, Zenon
<1>10. QED
  BY <1>5, <1>7, <1>9 DEF Caam!Sum

\* No operation on an instance, whether its commands succeed or fail, leaves the
\* invariant.
LEMMA HashStep == HashInv /\ [Caam!HashNext]_(Caam!hashVars) => HashInv'
<1> SUFFICES ASSUME HashInv, [Caam!HashNext]_(Caam!hashVars) PROVE HashInv'
  OBVIOUS
<1>1. ASSUME NEW d \in Digests, Caam!New256(d) PROVE HashInv'
  <2>1. Caam!Bytes(d, 0, 0) = <<>>
    BY DEF Caam!Bytes
  <2>2. Len(<<>>) <= BlockSize
    BY HashAssumption DEF HashConstants
  <2>3. QED
    BY <1>1, <2>1, <2>2 DEF Caam!New256, HashInv, HashType, OneInstance, InUse, Progress,
           Caam!SumExact, Hashed
<1>2. CASE Caam!Sum256
  BY <1>2, HashAssumption DEF HashConstants, Caam!Sum256, Caam!hash, Hashed, HashInv, HashType,
         OneInstance, InUse, Progress, Caam!SumExact
<1>3. CASE UNCHANGED Caam!hashVars
  BY <1>3 DEF Caam!hashVars, Hashed, HashInv, HashType, OneInstance, InUse, Progress,
         Caam!SumExact
<1>4. QED
  BY <1>1, <1>2, <1>3, WriteBufferStep, WriteBlockStep, WriteRestStep, SumStep DEF Caam!HashNext

\* The invariant holds in every state.
LEMMA HashAlways == Caam!HashSpec => []HashInv
<1>1. ASSUME Caam!HashInit
      PROVE  HashInv
  <2>1. HashType /\ OneInstance /\ Caam!SumExact
    BY <1>1 DEF Caam!HashInit, HashType, OneInstance, InUse, Caam!SumExact
  <2>2. Progress
    BY <1>1 DEF Caam!HashInit, Progress
  <2>3. QED
    BY <2>1, <2>2 DEF HashInv
<1>2. QED
  BY <1>1, HashStep, PTL DEF Caam!HashSpec

------------------------------------------------------------------------------
(* CaamJob: jobs of the CAAM.                                              *)

\* Goroutines and descriptors are told apart from none.
CaamConstants == Caam!None \notin JobProcs /\ Caam!None \notin Ptrs

ASSUME CaamAssumption == CaamConstants

\* the jobs of operations, to which the first one adds that of the initialization
Kinds == {"alg", "sign", "blob"}
AllKinds == Kinds \cup {"rng"}
Plans == Seq(Kinds)
Planned == Plans \cup {<<"rng">> \o k : k \in Plans}

\* Types of the state that is indexed, and of the steps.
CaamType ==
    /\ DOMAIN jpc = JobProcs /\ DOMAIN todo = JobProcs /\ DOMAIN ptr = JobProcs
    /\ DOMAIN ok = JobProcs /\ DOMAIN ran = JobProcs /\ DOMAIN jobMem = Ptrs
    /\ ringLock \in JobProcs \cup {Caam!None}
    /\ full \in {0, 1}
    /\ \A p \in JobProcs : jpc[p] \in {"idle", "job", "add", "lock", "wait", "remove", "free"}

\* a goroutine with a job to be added or in the ring
InRing(p) == jpc[p] \in {"add", "lock", "wait", "remove", "free"}

\* A goroutine has jobs to do while it is in an operation; while one initializes the
\* ring, all others are idle.
Alone ==
    /\ \A p \in JobProcs :
          /\ jpc[p] = "idle" <=> todo[p] = <<>>
          /\ jpc[p] = "job" => todo[p] \in Plans
          /\ todo[p] \in Planned
    /\ \A p, q \in JobProcs : todo[p] = <<"rng">> /\ q # p => jpc[q] = "idle"
    /\ once = "no" => \A p \in JobProcs : InRing(p) => todo[p] = <<"rng">>

\* A goroutine that waits for its job holds the ring, and its descriptor holds the job
\* until it is freed; the ring has the descriptor of the holder only.
Exclusive ==
    /\ \A p \in JobProcs : jpc[p] \in {"wait", "remove"} <=> ringLock = p
    /\ \A p \in JobProcs : jpc[p] \in {"lock", "wait", "remove", "free"} => ptr[p] \in Ptrs
         /\ jobMem[ptr[p]] = p
    /\ added \/ full = 1 => ringLock # Caam!None
    /\ added => full = 0 /\ jpc[ringLock] = "wait" /\ input = ptr[ringLock]
    /\ \A p \in JobProcs : jpc[p] = "wait" => added \/ full = 1
    /\ \A p \in JobProcs : ringLock = p /\ full = 1 => ran[p]
    /\ \A p \in JobProcs : jpc[p] = "remove" => full = 1

\* The inductive invariant of jobs.
CaamInv == CaamType /\ Alone /\ Exclusive

\* Jobs that are left of an operation: the first one is taken off, the rest is a plan.
LEMMA PlanFacts ==
    /\ <<>> \in Plans /\ <<"alg">> \in Plans /\ <<"sign">> \in Plans
         /\ <<"blob", "alg", "alg">> \in Plans
    /\ \A k \in Plans : /\ k \in Planned /\ k # <<"rng">> /\ <<"rng">> \o k \in Planned
                        /\ <<"rng">> \o k # <<>>
                        /\ k # <<>> => Tail(k) \in Plans /\ <<"rng">> \o k # <<"rng">>
                        /\ Tail(<<"rng">> \o k) = k
    /\ \A k \in Planned : k # <<>> => Tail(k) \in Plans
    /\ <<"rng">> \in Planned /\ Tail(<<"rng">>) = <<>>
    /\ Head(<<"rng">>) = "rng" /\ <<"rng">> # <<>> /\ <<"alg">> # <<>> /\ <<"sign">> # <<>>
         /\ <<"blob", "alg", "alg">> # <<>>
<1>1. ASSUME NEW k \in Plans
      PROVE  /\ k \in Planned /\ k # <<"rng">> /\ <<"rng">> \o k \in Planned
             /\ <<"rng">> \o k # <<>>
             /\ k # <<>> => Tail(k) \in Plans /\ <<"rng">> \o k # <<"rng">>
             /\ Tail(<<"rng">> \o k) = k
  <2>1. k \in Planned /\ <<"rng">> \o k \in Planned
    BY DEF Planned
  <2>2. k # <<"rng">>
    <3>1. k # <<>> => k[1] \in Kinds
      BY DEF Plans
    <3>2. QED
      BY <3>1 DEF Kinds
  <2>3. <<"rng">> \in Seq(AllKinds) /\ k \in Seq(AllKinds)
    <3>1. Kinds \subseteq AllKinds /\ "rng" \in AllKinds
      BY DEF AllKinds, Kinds
    <3>2. k \in Seq(AllKinds)
      BY <3>1, LargerSeqs DEF Plans
    <3>3. QED
      BY <3>1, <3>2
  <2> DEFINE r == <<"rng">> \o k
  <2>4. /\ r \in Seq(AllKinds) /\ Len(r) = 1 + Len(k) /\ Len(k) \in Nat
        /\ \A i \in 1 .. Len(r) : r[i] = IF i <= 1 THEN "rng" ELSE k[i - 1]
    BY <2>3, ConcatIs
  <2> HIDE DEF r
  <2>5. r # <<>> /\ (k # <<>> => r # <<"rng">>)
    BY <2>3, <2>4
  <2>6. Tail(r) \in Seq(AllKinds) /\ Len(Tail(r)) = Len(k)
        /\ \A i \in 1 .. Len(k) : Tail(r)[i] = k[i]
    BY <2>4, <2>5, TailIs
  <2>7. Tail(r) = k
    BY <2>3, <2>6, EqualSeqs
  <2>8. k # <<>> => Tail(k) \in Plans
    BY DEF Plans
  <2>9. QED
    BY <2>1, <2>2, <2>5, <2>7, <2>8 DEF r
<1>2. /\ <<>> \in Plans /\ <<"alg">> \in Plans /\ <<"sign">> \in Plans
           /\ <<"blob", "alg", "alg">> \in Plans
  BY DEF Plans, Kinds
<1>3. <<"rng">> \o <<>> = <<"rng">> /\ Tail(<<"rng">>) = <<>> /\ Head(<<"rng">>) = "rng"
  OBVIOUS
<1>4. \A k \in Planned : k \in Plans \/ \E j \in Plans : k = <<"rng">> \o j
  BY DEF Planned
<1>5. \A k \in Planned : k # <<>> => Tail(k) \in Plans
  BY <1>1, <1>4, Zenon
<1>6. <<"rng">> # <<>> /\ <<"alg">> # <<>> /\ <<"sign">> # <<>>
      /\ <<"blob", "alg", "alg">> # <<>>
  OBVIOUS
<1>7. <<"rng">> \in Planned
  BY <1>1, <1>2, <1>3, Zenon
<1>8. QED
  BY <1>1, <1>2, <1>3, <1>5, <1>6, <1>7

\* No step of a goroutine, and none of the co-processor, leaves the invariant.
LEMMA CaamStep == CaamInv /\ [Caam!Next]_(Caam!caamVars) => CaamInv'
<1> SUFFICES ASSUME CaamInv, [Caam!Next]_(Caam!caamVars) PROVE CaamInv'
  OBVIOUS
<1> USE DEF CaamInv, CaamType, Alone, Exclusive, InRing, Caam!ringVars, Caam!Step
<1> USE CaamAssumption, PlanFacts DEF CaamConstants
<1>1. ASSUME NEW p \in JobProcs, Caam!cipher(p)
      PROVE  CaamInv'
  BY <1>1, Zenon DEF Caam!cipher, Caam!Operation, Caam!SettingOwner
<1>2. ASSUME NEW p \in JobProcs, Caam!SumAES(p)
      PROVE  CaamInv'
  BY <1>2, Zenon DEF Caam!SumAES, Caam!Operation, Caam!SettingOwner
<1>3. ASSUME NEW p \in JobProcs, Caam!Sign(p)
      PROVE  CaamInv'
  BY <1>3, Zenon DEF Caam!Sign, Caam!Operation, Caam!SettingOwner
<1>4. ASSUME NEW p \in JobProcs, Caam!DeriveKey(p)
      PROVE  CaamInv'
  BY <1>4, Zenon DEF Caam!DeriveKey, Caam!Operation, Caam!SettingOwner
<1>5. ASSUME NEW p \in JobProcs, Caam!SetOwner(p)
      PROVE  CaamInv'
  BY <1>5 DEF Caam!SetOwner, Caam!initJobRing
<1>6. ASSUME NEW p \in JobProcs, Caam!Job(p)
      PROVE  CaamInv'
  <2>1. CASE once = "no" /\ once' = "running"
    <3>1. \A q \in JobProcs : todo[q] # <<"rng">> /\ ~InRing(q)
      BY <1>6, <2>1, Zenon DEF Caam!Job
    <3>2. ringLock = Caam!None /\ ~added /\ full = 0
      BY <3>1
    <3>3. todo[p] \in Plans /\ todo[p] # <<>>
      BY <1>6 DEF Caam!Job
    <3>4. todo' = [todo EXCEPT ![p] = <<"rng">> \o todo[p]] /\ jpc' = [jpc EXCEPT ![p] = "add"]
          /\ ringLock' = Caam!None /\ ~added' /\ full' = 0
          /\ UNCHANGED <<ptr, ok, ran, jobMem>>
      BY <1>6, <2>1 DEF Caam!Job, Caam!initJobRing
    <3>5. todo'[p] \in Planned /\ todo'[p] # <<"rng">> /\ todo'[p] # <<>>
      BY <3>3, <3>4
    <3>6. CaamType' /\ Exclusive'
      BY <1>6, <3>1, <3>2, <3>4
    <3>7. Alone'
      BY <1>6, <2>1, <3>1, <3>3, <3>4, <3>5, Zenon
    <3>8. QED
      BY <3>6, <3>7
  <2>2. CASE once = "done" /\ UNCHANGED <<Caam!ringVars, todo>>
    BY <1>6, <2>2, Zenon DEF Caam!Job
  <2>3. QED
    BY <1>6, <2>1, <2>2, Zenon DEF Caam!Job
<1>7. ASSUME NEW p \in JobProcs, Caam!add(p)
      PROVE  CaamInv'
  BY <1>7 DEF Caam!add
<1>8. ASSUME NEW p \in JobProcs, Caam!Submit(p)
      PROVE  CaamInv'
  BY <1>8, Zenon DEF Caam!Submit
<1>9. ASSUME NEW p \in JobProcs, Caam!Result(p)
      PROVE  CaamInv'
  BY <1>9, SMTT(30) DEF Caam!Result
<1>10. ASSUME NEW p \in JobProcs, Caam!Remove(p)
      PROVE  CaamInv'
  BY <1>10 DEF Caam!Remove
<1>11. ASSUME NEW p \in JobProcs, Caam!Free(p)
      PROVE  CaamInv'
  <2> DEFINE after == IF ok[p] \/ Head(todo[p]) = "rng" THEN Tail(todo[p]) ELSE <<>>
  <2>1. todo[p] \in Planned /\ todo[p] # <<>> /\ ptr[p] \in Ptrs /\ jobMem[ptr[p]] = p
    BY <1>11 DEF Caam!Free
  <2>2. after \in Plans
    BY <2>1
  <2>3. todo[p] = <<"rng">> => after = <<>>
    OBVIOUS
  <2>4. /\ todo' = [todo EXCEPT ![p] = after]
        /\ jpc' = [jpc EXCEPT ![p] = IF after = <<>> THEN "idle" ELSE "job"]
        /\ jobMem' = [jobMem EXCEPT ![ptr[p]] = Caam!None]
             /\ ptr' = [ptr EXCEPT ![p] = Caam!None]
        /\ once' = "no" => once = "no"
        /\ UNCHANGED <<ringLock, input, added, output, full, ok, ran>>
    BY <1>11 DEF Caam!Free
  <2> HIDE DEF after
  <2>5. CaamType' /\ Exclusive'
    BY <1>11, <2>1, <2>4, SMTT(30) DEF Caam!Free
  <2>6. Alone'
    <3>1. jpc[p] = "free"
      BY <1>11, Zenon DEF Caam!Free
    <3>2. todo'[p] = after /\ after # <<"rng">> /\ jpc'[p] \in {"idle", "job"}
          /\ (jpc'[p] = "idle" <=> after = <<>>)
      BY <2>2, <2>4, Zenon
    <3>3. \A q \in JobProcs : q # p => todo'[q] = todo[q] /\ jpc'[q] = jpc[q]
          /\ todo[q] # <<"rng">>
      BY <2>4, <3>1
    <3>4. QED
      BY <2>2, <2>4, <3>2, <3>3, Zenon
  <2>7. QED
    BY <2>5, <2>6, Zenon
<1>12. CASE Caam!Execute
  <2>1. PICK p \in JobProcs : ringLock = p /\ jpc[p] = "wait" /\ input = ptr[p]
             /\ jobMem[input] = p
    BY <1>12, SMTT(30) DEF Caam!Execute
  <2>2. ran'[p] /\ DOMAIN ran' = JobProcs
    BY <1>12, <2>1, Zenon DEF Caam!Execute
  <2>3. QED
    BY <1>12, <2>1, <2>2, Zenon DEF Caam!Execute
<1>13. CASE UNCHANGED Caam!caamVars
  BY <1>13, Zenon DEF Caam!caamVars
<1> HIDE DEF CaamInv
<1>14. QED
  BY <1>1, <1>2, <1>3, <1>4, <1>5, <1>6, <1>7, <1>8, <1>9, <1>10, <1>11, <1>12, <1>13
     DEF Caam!Next

\* The invariant holds in every state.
LEMMA CaamAlways == Caam!Spec => []CaamInv
<1>1. Caam!Init => CaamInv
  <2> SUFFICES ASSUME Caam!Init
               PROVE  CaamInv
    OBVIOUS
  <2>1. <<>> \in Plans /\ <<>> \in Planned /\ <<>> # <<"rng">>
    BY DEF Plans, Planned
  <2>2. CaamType
    BY DEF Caam!Init, CaamType
  <2>3. Alone
    BY <2>1 DEF Caam!Init, Alone, InRing
  <2>4. Exclusive
    BY CaamAssumption DEF CaamConstants, Caam!Init, Exclusive
  <2>5. QED
    BY <2>2, <2>3, <2>4 DEF CaamInv
<1>2. QED
  BY <1>1, CaamStep, PTL DEF Caam!Spec

------------------------------------------------------------------------------
(* DcpCommand: commands of the DCP.                                        *)

CONSTANTS Procs, Modes, Subwords, MaxChain, MaxOps

VARIABLES mode, lock, pc, op, keyRam, subword, stat, packets, owner, executed, cmdFailed,
          masked, signal, isrPc, ops, mixed

Dcp == INSTANCE DcpCommand

\* Goroutines are told apart from no goroutine; a chain has packets, a key has words.
DcpConstants == Dcp!Nobody \notin Procs /\ MaxChain \in Nat \ {0} /\ Subwords \in Nat \ {0}

ASSUME DcpAssumption == DcpConstants

\* the steps of a goroutine that holds the mutex
Inside == {"wait", "clear", "return", "subword"}

\* The mutex is held by the goroutine that is inside, if any.
Locked ==
    /\ DOMAIN pc = Procs /\ DOMAIN op = Procs /\ DOMAIN keyRam = 1 .. Subwords
    /\ lock \in Procs \cup {Dcp!Nobody}
    /\ \A p \in Procs : pc[p] \in Inside <=> lock = p

\* With polling the packets of the channel are those of the goroutine that waits for
\* them, and a command that was cleared has been executed or has failed.
Polled ==
    /\ packets \in Nat /\ executed \in Nat /\ ~mixed
    /\ isrPc = "wait" /\ ~signal
    /\ packets > 0 => /\ owner \in Procs /\ pc[owner] = "wait" /\ ~stat
                      /\ executed + packets = Dcp!Count(owner)
    /\ stat => owner \in Procs /\ pc[owner] \in {"wait", "clear"}
    /\ \A p \in Procs : pc[p] \in {"wait", "clear", "return"} =>
          /\ owner = p
          /\ packets = 0 => cmdFailed \/ executed = Dcp!Count(p)
    /\ \A p \in Procs : pc[p] \in {"clear", "return"} => packets = 0

\* Between two calls of SetKey the words of the key are of one writer.
OneKey ==
    /\ (\A p \in Procs : pc[p] # "subword") => \A w \in 1 .. Subwords : keyRam[w] = keyRam[1]
    /\ \A p \in Procs : pc[p] = "subword" =>
          subword \in 0 .. Subwords /\ \A w \in 1 .. subword : keyRam[w] = p

\* The inductive invariant of commands with polling.
DcpInv == mode = "poll" => Locked /\ Polled /\ OneKey

\* No step of a goroutine, of the co-processor or of the interrupt handler leaves it.
LEMMA DcpStep == DcpInv /\ [Dcp!Next]_(Dcp!dcpVars) => DcpInv'
<1> SUFFICES ASSUME DcpInv, [Dcp!Next]_(Dcp!dcpVars) PROVE DcpInv'
  OBVIOUS
<1> USE DEF DcpInv, Locked, Polled, OneKey, Inside, Dcp!Count, Dcp!Nobody, Dcp!channel,
            Dcp!irq, Dcp!Goto
<1> USE DcpAssumption DEF DcpConstants
<1>1. ASSUME NEW p \in Procs, Dcp!cipher(p)
      PROVE  DcpInv'
  BY <1>1 DEF Dcp!cipher, Dcp!Begin
<1>2. ASSUME NEW p \in Procs, Dcp!CipherChain(p)
      PROVE  DcpInv'
  BY <1>2 DEF Dcp!CipherChain, Dcp!Begin
<1>3. ASSUME NEW p \in Procs, Dcp!DeriveKey(p)
      PROVE  DcpInv'
  BY <1>3 DEF Dcp!DeriveKey, Dcp!Begin
<1>4. ASSUME NEW p \in Procs, Dcp!SetKey(p)
      PROVE  DcpInv'
  BY <1>4 DEF Dcp!SetKey, Dcp!Begin
<1>5. ASSUME NEW p \in Procs, Dcp!cmd(p)
      PROVE  DcpInv'
  BY <1>5 DEF Dcp!cmd
<1>6. ASSUME NEW p \in Procs, Dcp!WaitPoll(p)
      PROVE  DcpInv'
  BY <1>6 DEF Dcp!WaitPoll
<1>7. ASSUME NEW p \in Procs, Dcp!Clear(p)
      PROVE  DcpInv'
  BY <1>7 DEF Dcp!Clear
<1>8. ASSUME NEW p \in Procs, Dcp!Return(p)
      PROVE  DcpInv'
  BY <1>8 DEF Dcp!Return
<1>9. ASSUME NEW p \in Procs, Dcp!setKeyLock(p)
      PROVE  DcpInv'
  BY <1>9 DEF Dcp!setKeyLock
<1>10. ASSUME NEW p \in Procs, Dcp!setKeyData(p)
      PROVE  DcpInv'
  BY <1>10 DEF Dcp!setKeyData
<1>11. ASSUME NEW p \in Procs, Dcp!ServiceInterrupt(p)
      PROVE  DcpInv'
  BY <1>11 DEF Dcp!ServiceInterrupt
<1>12. CASE Dcp!irqHandler
  BY <1>12, Zenon DEF Dcp!irqHandler
<1>13. CASE Dcp!GetInterrupt
  BY <1>13, Zenon DEF Dcp!GetInterrupt
<1>14. CASE Dcp!irq_enable
  BY <1>14 DEF Dcp!irq_enable
<1>15. CASE Dcp!Execute
  <2> SUFFICES ASSUME mode = "poll" PROVE DcpInv'
    BY <1>15, Zenon DEF Dcp!Execute
  <2>1. /\ owner \in Procs /\ pc[owner] = "wait" /\ packets \in Nat \ {0} /\ executed \in Nat
        /\ executed + packets = Dcp!Count(owner)
    BY <1>15 DEF Dcp!Execute
  <2>2. \A w \in 1 .. Subwords : keyRam[w] = keyRam[1]
    BY <2>1
  <2>3. ~mixed'
    BY <1>15, <2>2 DEF Dcp!Execute
  <2>4. CASE packets' = packets - 1 /\ ~cmdFailed'
    BY <1>15, <2>1, <2>3, <2>4, SMTT(30) DEF Dcp!Execute
  <2>5. CASE packets' = 0 /\ cmdFailed'
    BY <1>15, <2>1, <2>3, <2>5, SMTT(30) DEF Dcp!Execute
  <2>6. QED
    BY <1>15, <2>4, <2>5, Zenon DEF Dcp!Execute
<1>16. CASE UNCHANGED Dcp!dcpVars
  BY <1>16, Zenon DEF Dcp!dcpVars
<1> HIDE DEF DcpInv
<1>17. QED
  BY <1>1, <1>2, <1>3, <1>4, <1>5, <1>6, <1>7, <1>8, <1>9, <1>10, <1>11, <1>12,
     <1>13, <1>14, <1>15, <1>16 DEF Dcp!Next

\* The invariant holds in every state.
LEMMA DcpAlways == Dcp!Spec => []DcpInv
<1>1. Dcp!Init => DcpInv
  BY DcpAssumption DEF DcpConstants, Dcp!Init, DcpInv, Locked, Polled, OneKey, Inside
<1>2. QED
  BY <1>1, DcpStep, PTL DEF Dcp!Spec

------------------------------------------------------------------------------
(* What the drivers promise together.                                      *)

\* DCP commands with polling are executed when they return, with keys of one writer;
\* CAAM jobs that are reported as done have been executed from their own descriptor.
\* The sum of a hash is that of all that was written to its instance.
EngineOwn == Dcp!CommandOwn /\ Caam!JobOwn /\ Caam!SumExact

\* EngineOwn: what the co-processors report as done was done, with the key, the
\* descriptor and the bytes of the caller, however goroutines interleave and whichever
\* commands fail.
THEOREM ResultsAreOwn == Dcp!Spec /\ Caam!Spec /\ Caam!HashSpec => []EngineOwn
<1>1. DcpInv => Dcp!CommandOwn
  BY DcpAssumption DEF DcpConstants, DcpInv, Locked, Polled, OneKey, Inside, Dcp!CommandOwn,
         Dcp!Completed
<1>2. CaamInv => Caam!JobOwn
  BY CaamAssumption, ZenonT(30) DEF CaamConstants, CaamInv, CaamType, Alone, Exclusive, Caam!JobOwn
<1>3. HashInv => Caam!SumExact
  BY DEF HashInv
<1>4. DcpInv /\ CaamInv /\ HashInv => EngineOwn
  BY <1>1, <1>2, <1>3 DEF EngineOwn
<1>5. QED
  BY <1>4, DcpAlways, CaamAlways, HashAlways, PTL

------------------------------------------------------------------------------
(* ArmIrq: interrupts and their service.                                   *)

CONSTANTS Lines, MaxAsserts

VARIABLES version, enabled, wanted, asserted, irqMasked, signalled, notified, serving, current,
          idling, asserts

Arm == INSTANCE ArmIrq

\* A processor that is about to sleep has nothing to notify, and is woken by what is
\* pending.
Dozing ==
    /\ idling \in {"no", "idle", "asleep"}
    /\ idling # "no" => ~notified
    /\ idling # "no" /\ signalled => idling = "idle" /\ Arm!Pending # {}

\* The inductive invariant of the interrupts of ARM, with what it is for.
ArmInv == Dozing /\ Arm!Attended

\* No step of a device, of the handler, of the service or of the idle loop leaves it.
LEMMA ArmStep == ArmInv /\ [Arm!Next]_(Arm!armIrqVars) => ArmInv'
<1> SUFFICES ASSUME ArmInv, [Arm!Next]_(Arm!armIrqVars) PROVE ArmInv'
  OBVIOUS
<1> USE DEF ArmInv, Dozing, Arm!Attended, Arm!Pending, Arm!Awake
<1>1. ASSUME NEW m \in Lines, Arm!EnableInterrupt(m)
      PROVE  ArmInv'
  BY <1>1 DEF Arm!EnableInterrupt
<1>2. ASSUME NEW m \in Lines, Arm!DisableInterrupt(m)
      PROVE  ArmInv'
  BY <1>2 DEF Arm!DisableInterrupt
<1>3. ASSUME NEW m \in Lines, Arm!Assert(m)
      PROVE  ArmInv'
  BY <1>3 DEF Arm!Assert
<1>4. CASE Arm!irqHandler
  BY <1>4 DEF Arm!irqHandler
<1>5. CASE Arm!Deliver
  BY <1>5 DEF Arm!Deliver
<1>6. CASE Arm!irq_enable
  BY <1>6 DEF Arm!irq_enable
<1>7. CASE Arm!Receive
  BY <1>7 DEF Arm!Receive
<1>8. CASE Arm!GetInterrupt
  BY <1>8 DEF Arm!GetInterrupt
<1>9. CASE Arm!Handled
  BY <1>9 DEF Arm!Handled
<1>10. CASE Arm!Idle
  BY <1>10 DEF Arm!Idle
<1>11. CASE Arm!wfi
  BY <1>11 DEF Arm!wfi
<1>12. CASE Arm!WakeUp
  BY <1>12 DEF Arm!WakeUp
<1>13. CASE UNCHANGED Arm!armIrqVars
  BY <1>13 DEF Arm!armIrqVars
<1> HIDE DEF ArmInv
<1>14. QED
  BY <1>1, <1>2, <1>3, <1>4, <1>5, <1>6, <1>7, <1>8, <1>9, <1>10, <1>11, <1>12, <1>13
     DEF Arm!Next

\* The invariant holds in every state.
LEMMA ArmAlways == Arm!Spec => []ArmInv
<1>1. Arm!Init => ArmInv
  BY DEF Arm!Init, ArmInv, Dozing, Arm!Attended
<1>2. QED
  BY <1>1, ArmStep, PTL DEF Arm!Spec

------------------------------------------------------------------------------
(* Amd64Cpu: interrupts and their service.                                 *)

CONSTANTS Cpus, Vectors, MaxIrqs, EarlyIrqs
CONSTANTS NumCPU, Caps, MaxInits

VARIABLES smp, irr, inService, relayed, isr, irqHandling, irqLock, cpu, wake, sig, chan, srv,
          runner, ready, unserved, raised
VARIABLES bpc, cap, index, ap, sema, mailG, mailPc, gotG, gotPc, started, procs, smpInits

Amd64 == INSTANCE Amd64Cpu

\* Processor 0 is the bootstrap processor.  Interrupts are raised once the service is
\* ready for them.
CpuConstants == 0 \in Cpus /\ Amd64!NoCpu \notin Cpus /\ ~EarlyIrqs

ASSUME CpuAssumption == CpuConstants

\* Where the service is and which processor runs it; application processors are off
\* unless they are used.
Placed ==
    /\ DOMAIN cpu = Cpus
    /\ srv \in {"clear", "unlock", "wait", "serve"}
    /\ srv = "wait" <=> runner = Amd64!NoCpu
    /\ runner # Amd64!NoCpu => runner \in Cpus /\ cpu[runner] = "run"
    /\ cpu[0] # "off"
    /\ ~smp => ~relayed /\ \A c \in Cpus : c # 0 => cpu[c] = "off"
    /\ smp => srv # "unlock"
    /\ relayed => srv = "wait"

\* Until the service is ready nothing is requested, handled or signalled.
Early ==
    ~ready => /\ irr = {} /\ inService = {} /\ ~irqLock /\ ~irqHandling /\ unserved = {}
              /\ ~sig /\ ~chan /\ srv # "serve"
              /\ srv = "wait" => relayed

\* An interrupt in service is on its way to the service in one place: the signal of the
\* handler, the channel, the service itself or the relayed request.  The lock of the
\* interrupt keeps the bootstrap processor awake.
OneSignal ==
    /\ inService = {} => ~sig /\ ~chan /\ srv # "serve" /\ unserved = {} /\ ~irqHandling
    /\ ready /\ inService = {} => srv \in {"wait", "unlock"} /\ ~relayed
    /\ inService # {} =>
          /\ ready
          /\ sig \/ chan \/ srv \in {"serve", "clear"} \/ relayed
          /\ sig => ~chan /\ srv \in {"wait", "unlock"} /\ ~relayed
          /\ chan => srv \in {"wait", "unlock"} /\ ~relayed
          /\ smp => irqLock
          /\ irqLock \/ srv \in {"serve", "clear"} \/ ((sig \/ chan) /\ srv = "wait"
               /\ cpu[0] = "sched" /\ ~smp)
    /\ irqLock => cpu[0] \notin {"hlt", "halted", "off"}

\* The inductive invariant of the interrupts of AMD64, with what it is for.
Amd64Inv == Placed /\ Early /\ OneSignal /\ Amd64!Serviced

\* No interrupt, no step of a handler, of the service or of the scheduler leaves it.
LEMMA Amd64Step == Amd64Inv /\ [Amd64!Next]_(Amd64!irqVars) => Amd64Inv'
<1> SUFFICES ASSUME Amd64Inv, [Amd64!Next]_(Amd64!irqVars) PROVE Amd64Inv'
  OBVIOUS
<1> USE DEF Amd64Inv, Placed, Early, OneSignal, Amd64!Serviced
<1> USE CpuAssumption DEF CpuConstants
<1>1. ASSUME NEW v \in Vectors, Amd64!Raise(v)
      PROVE  Amd64Inv'
  BY <1>1 DEF Amd64!Raise
<1>2. ASSUME NEW v \in Vectors, Amd64!handleInterrupt(v)
      PROVE  Amd64Inv'
  BY <1>2 DEF Amd64!handleInterrupt, Amd64!Interruptible, Amd64!Resume
<1>3. CASE Amd64!WakeOthers
  BY <1>3 DEF Amd64!WakeOthers
<1>4. CASE Amd64!handleRelay
  <2>1. srv = "wait" /\ ~sig /\ ~chan /\ unserved = {} /\ ~irqHandling /\ smp
    BY <1>4 DEF Amd64!handleRelay, Amd64!Interruptible
  <2>2. QED
    BY <1>4, <2>1 DEF Amd64!handleRelay, Amd64!Resume
<1>5. ASSUME NEW c \in Cpus, Amd64!ignoreInterrupt(c)
      PROVE  Amd64Inv'
  BY <1>5 DEF Amd64!ignoreInterrupt, Amd64!Resume
<1>6. ASSUME NEW c \in Cpus, Amd64!Deliver(c)
      PROVE  Amd64Inv'
  BY <1>6 DEF Amd64!Deliver, Amd64!Free
<1>7. ASSUME NEW c \in Cpus, Amd64!Receive(c)
      PROVE  Amd64Inv'
  BY <1>7 DEF Amd64!Receive, Amd64!Free
<1>8. ASSUME NEW c \in Cpus, Amd64!Idle(c)
      PROVE  Amd64Inv'
  BY <1>8 DEF Amd64!Idle, Amd64!Free
<1>9. ASSUME NEW c \in Cpus, Amd64!wfi(c)
      PROVE  Amd64Inv'
  BY <1>9 DEF Amd64!wfi
<1>10. ASSUME NEW c \in Cpus, Amd64!Halt(c)
      PROVE  Amd64Inv'
  BY <1>10 DEF Amd64!Halt
<1>11. CASE Amd64!Serve
  BY <1>11 DEF Amd64!Serve, Amd64!Running
<1>12. CASE Amd64!ClearInterrupt
  BY <1>12 DEF Amd64!ClearInterrupt, Amd64!Running
<1>13. CASE Amd64!Unlock
  BY <1>13 DEF Amd64!Unlock, Amd64!Running, Amd64!Wait
<1>14. CASE Amd64!ClearRelay
  <2>1. ~sig /\ ~chan /\ unserved = {} /\ runner \in Cpus
    BY <1>14 DEF Amd64!ClearRelay, Amd64!Running
  <2>2. srv' = "wait" /\ runner' = Amd64!NoCpu /\ cpu' = [cpu EXCEPT ![runner] = "sched"]
        /\ chan' = chan
    BY <1>14, <2>1, Zenon DEF Amd64!ClearRelay, Amd64!Wait
  <2>3. QED
    BY <1>14, <2>1, <2>2, Zenon DEF Amd64!ClearRelay
<1>15. CASE UNCHANGED Amd64!irqVars
  BY <1>15 DEF Amd64!irqVars
<1> HIDE DEF Amd64Inv
<1>16. QED
  BY <1>1, <1>2, <1>3, <1>4, <1>5, <1>6, <1>7, <1>8, <1>9, <1>10, <1>11, <1>12,
     <1>13, <1>14, <1>15 DEF Amd64!Next

\* The invariant holds in every state, with or without application processors.
LEMMA Amd64Always == Amd64!Spec => []Amd64Inv
<1>1. Amd64!Init => Amd64Inv
  BY CpuAssumption DEF CpuConstants, Amd64!Init, Amd64Inv, Placed, Early, OneSignal,
         Amd64!Serviced
<1>2. QED
  BY <1>1, Amd64Step, PTL DEF Amd64!Spec

------------------------------------------------------------------------------
(* Amd64Cpu: application processors.                                       *)

INSTANCE FiniteSetTheorems

\* InitSMP is called once.
SmpConstants == NumCPU \in Nat /\ MaxInits \in {0, 1}

ASSUME SmpAssumption == SmpConstants

\* an application processor that has not come up, and those that have
Down == {"off", "reset", "apinit"}
Up == {a \in Amd64!APs : ap[a] \notin Down}
\* InitSMP has not been called, or has not given the processors to the runtime
Starting == smpInits = 0 \/ bpc \in {"init", "sipi"}

\* Types of what the invariant counts with.
SmpType ==
    /\ DOMAIN ap = Amd64!APs /\ index \in Nat /\ index > 0
    /\ smpInits \in {0, 1}

\* Until then taskAddress counts the processors that have come up, which are among
\* those that InitSMP has already started.
Counted ==
    Starting =>
        /\ procs = 1 /\ started = 0
        /\ \A a \in Amd64!APs : ap[a] \in {"off", "reset", "apinit", "ready", "halted"}
        /\ \A a \in Amd64!APs : a >= index => ap[a] \in {"off", "reset"}
        /\ sema = Cardinality(Up)

\* Before InitSMP the application processors are off.
Once ==
    smpInits = 0 => bpc = "idle" /\ \A a \in Amd64!APs : ap[a] = "off"

\* The inductive invariant of the start of processors, with what it is for.
SmpInv == SmpType /\ Counted /\ Once /\ Amd64!ReadyIdle

\* The processors that have come up can be counted.
LEMMA UpFinite == IsFiniteSet(Up)
<1>1. IsFiniteSet(1 .. NumCPU - 1)
  BY SmpAssumption, FS_Interval DEF SmpConstants
<1>2. Up \subseteq 1 .. NumCPU - 1
  BY DEF Up, Amd64!APs
<1>3. QED
  BY <1>1, <1>2, FS_Subset, Zenon

\* When the count is that of the processors started, all of them have come up: the
\* wait of InitSMP is enough.
LEMMA AllUp ==
    ASSUME SmpInv, bpc = "init", sema = index - 1, NEW a \in Amd64!APs, a < index
    PROVE  a \in Up
<1>1. sema = Cardinality(Up) /\ index \in Nat
  BY DEF SmpInv, Counted, Starting, SmpType
<1>2. Up \subseteq 1 .. index - 1
  BY SmpAssumption DEF SmpConstants, SmpInv, Counted, Starting, Up, Amd64!APs, SmpType, Down
<1>3. IsFiniteSet(1 .. index - 1) /\ Cardinality(1 .. index - 1) = index - 1
  <2>1. PICK m \in Int : m = index - 1 /\ m >= 0
    BY <1>1 DEF SmpInv, SmpType
  <2>2. IsFiniteSet(1 .. m) /\ Cardinality(1 .. m) = IF 1 > m THEN 0 ELSE m - 1 + 1
    BY FS_Interval
  <2>3. QED
    BY <2>1, <2>2
<1>4. Up = 1 .. index - 1
  BY <1>1, <1>2, <1>3, FS_Subset, Zenon
<1>5. QED
  BY <1>1, <1>4, SmpAssumption DEF SmpConstants, Amd64!APs

\* No step of InitSMP, of a processor that starts or of Task leaves the invariant.
LEMMA SmpStep == SmpInv /\ [Amd64!SmpNext]_(Amd64!smpVars) => SmpInv'
<1> SUFFICES ASSUME SmpInv, [Amd64!SmpNext]_(Amd64!smpVars) PROVE SmpInv'
  OBVIOUS
<1> USE SmpAssumption DEF SmpConstants, SmpInv, SmpType, Counted, Once, Amd64!ReadyIdle,
            Starting, Down, Amd64!mail, Amd64!got, Amd64!Become
<1>0. \A a \in Amd64!APs : a \in Nat
  BY DEF Amd64!APs
<1> USE <1>0
<1>1. CASE Amd64!InitSMP
  <2>1. Up' = Up
    BY <1>1 DEF Amd64!InitSMP, Up
  <2>2. \A a \in Amd64!APs : ap[a] = "off"
    BY <1>1 DEF Amd64!InitSMP
  <2>3. QED
    BY <1>1, <2>1, <2>2 DEF Amd64!InitSMP
<1>2. CASE Amd64!InitOne
  BY <1>2 DEF Amd64!InitOne
<1>3. CASE Amd64!IpiInit
  <2>1. Up' = Up
    BY <1>3 DEF Amd64!IpiInit, Up
  <2>2. QED
    BY <1>3, <2>1 DEF Amd64!IpiInit
<1>4. CASE Amd64!IpiSipi
  <2>1. Up' = Up
    BY <1>4 DEF Amd64!IpiSipi, Up
  <2>2. QED
    BY <1>4, <2>1 DEF Amd64!IpiSipi
<1>5. CASE Amd64!GOMAXPROCS
  <2>1. \A a \in Amd64!APs : a < index => a \in Up
    BY <1>5, AllUp DEF Amd64!GOMAXPROCS, Amd64!WaitedFor
  <2>2. QED
    BY <1>5, <2>1 DEF Amd64!GOMAXPROCS, Up
<1>6. CASE Amd64!Timeout
  BY <1>6 DEF Amd64!Timeout, Amd64!APs
<1>7. CASE Amd64!Task
  BY <1>7 DEF Amd64!Task
<1>8. CASE Amd64!WritePc
  BY <1>8 DEF Amd64!WritePc
<1>9. CASE Amd64!IpiNmi
  BY <1>9, Zenon DEF Amd64!IpiNmi
<1>10. ASSUME NEW a \in Amd64!APs, Amd64!apstart(a) PROVE SmpInv'
  <2>1. Up' = Up \cup {a} /\ a \notin Up
    BY <1>10 DEF Amd64!apstart, Up
  <2>2. Cardinality(Up') = Cardinality(Up) + 1
    BY <2>1, UpFinite, FS_AddElement, Zenon
  <2>3. Starting => sema' = Cardinality(Up')
    BY <1>10, <2>2 DEF Amd64!apstart
  <2>4. SmpType' /\ Amd64!ReadyIdle' /\ Once'
    BY <1>10 DEF Amd64!apstart
  <2>5. Counted'
    BY <1>10, <2>3 DEF Amd64!apstart
  <2>6. QED
    BY <2>4, <2>5
<1>11. ASSUME NEW a \in Amd64!APs, Amd64!Hlt(a) PROVE SmpInv'
  <2>1. Up' = Up
    BY <1>11 DEF Amd64!Hlt, Up
  <2>2. QED
    BY <1>11, <2>1 DEF Amd64!Hlt
<1>12. ASSUME NEW a \in Amd64!APs, Amd64!LoadPc(a) PROVE SmpInv'
  BY <1>12 DEF Amd64!LoadPc
<1>13. ASSUME NEW a \in Amd64!APs, Amd64!LoadTask(a) PROVE SmpInv'
  BY <1>13 DEF Amd64!LoadTask
<1>14. CASE UNCHANGED Amd64!smpVars
  BY <1>14 DEF Amd64!smpVars, Up
<1> HIDE DEF SmpInv
<1>15. QED
  BY <1>1, <1>2, <1>3, <1>4, <1>5, <1>6, <1>7, <1>8, <1>9, <1>10, <1>11, <1>12, <1>13,
         <1>14 DEF Amd64!SmpNext

\* The invariant holds in every state.
LEMMA SmpAlways == Amd64!SmpSpec => []SmpInv
<1>1. ASSUME Amd64!SmpInit
      PROVE  SmpInv
  <2>1. Up = {}
    BY <1>1 DEF Amd64!SmpInit, Up, Down
  <2>2. Cardinality(Up) = 0
    BY <2>1, FS_EmptySet
  <2>3. QED
    BY <1>1, <2>2, SmpAssumption DEF SmpConstants, Amd64!SmpInit, SmpInv, SmpType, Counted,
           Once, Starting,
                                    Amd64!APs, Amd64!ReadyIdle
<1>2. QED
  BY <1>1, SmpStep, PTL DEF Amd64!SmpSpec

------------------------------------------------------------------------------
(* What the components promise together.                                   *)

\* While an interrupt waits for its goroutine, no processor sleeps for good: on AMD64
\* not all of them do, on ARM the one there is does not.
NeverAllAsleep == Amd64!NeverAllAsleep /\ Arm!SleepsServiced

\* On AMD64 an interrupt that was handled is the one that will be serviced; on ARM
\* interrupts are masked only while one is about to be serviced.  The runtime of
\* AMD64 uses processors that have come up.
Serviced == Amd64!Serviced /\ Amd64!ReadyIdle /\ Arm!Attended

\* NeverAllAsleep: an interrupt that waits for its goroutine has a processor to run it.
THEOREM SomeoneAwake == Amd64!Spec /\ Arm!Spec => []NeverAllAsleep
<1>1. Amd64Inv => Amd64!NeverAllAsleep
  BY CpuAssumption DEF CpuConstants, Amd64Inv, Placed, Early, OneSignal, Amd64!NeverAllAsleep
<1>2. ArmInv => Arm!SleepsServiced
  BY DEF ArmInv, Dozing, Arm!SleepsServiced
<1>3. Amd64Inv /\ ArmInv => NeverAllAsleep
  BY <1>1, <1>2 DEF NeverAllAsleep
<1>4. QED
  BY <1>3, Amd64Always, ArmAlways, PTL

\* Serviced: interrupts reach the service they were handled for, and the runtime is
\* given processors that run.
THEOREM InterruptsServiced == Amd64!Spec /\ Amd64!SmpSpec /\ Arm!Spec => []Serviced
<1>1. Amd64Inv /\ SmpInv /\ ArmInv => Serviced
  BY DEF Amd64Inv, SmpInv, ArmInv, Serviced
<1>2. QED
  BY <1>1, Amd64Always, SmpAlways, ArmAlways, PTL

==============================================================================
