---------------------------- MODULE GuestProofs ----------------------------
(***************************************************************************)
(* Theorems on the DMA heap, and on what a guest has besides its rings:    *)
(* queues with device-readable buffers and their memory, the bring-up of   *)
(* the gVNIC and of the VirtIO transports, and the requests of SEV guests. *)
(***************************************************************************)
EXTENDS ModFacts, VirtQueuePush, TLAPS

-----------------------------------------------------------------------------
(***************************************************************************)
(* The blocks of a DMA region are exclusive, for every region, request     *)
(* size and alignment.                                                     *)
(***************************************************************************)

\* Disjoint alone is inductive only together with the types: a block of size
\* 0 or outside the region would not be seen by Fits.
HeapInv == TypeOK /\ Inside /\ Disjoint

\* A new block overlaps none of the blocks in use: the address chosen by the
\* first-fit search of alloc has no used byte in its n bytes.
LEMMA FitsApart ==
    ASSUME NEW n \in Nat \ {0}, NEW align \in Nat \ {0},
           NEW a \in Fits(n, align), NEW b \in DOMAIN used, HeapInv
    PROVE  a + n <= b \/ b + used[b].size <= a
<1>1. a \in Nat /\ b \in Nat /\ used[b].size \in Nat \ {0}
  BY RegionAssumption DEF HeapInv, TypeOK, Region, Block, Fits
<1>2. \A x \in Bytes(a, n) : x \notin Bytes(b, used[b].size)
  BY DEF Fits, Covered
<1>3. ASSUME b < a + n, a < b + used[b].size PROVE FALSE
  <2>1. CASE a <= b
    <3>1. b \in Bytes(a, n) /\ b \in Bytes(b, used[b].size)
      BY <1>1, <1>3, <2>1 DEF Bytes
    <3>2. QED BY <3>1, <1>2
  <2>2. CASE b < a
    <3>1. a \in Bytes(a, n) /\ a \in Bytes(b, used[b].size)
      BY <1>1, <1>3, <2>2 DEF Bytes
    <3>2. QED BY <3>1, <1>2
  <2>3. QED BY <2>1, <2>2, <1>1
<1>4. QED BY <1>1, <1>3

\* Alloc and Reserve keep the blocks well formed and apart.
LEMMA TakeStep ==
    ASSUME HeapInv, NEW n \in Nat \ {0}, NEW align \in Nat \ {0}, NEW res \in BOOLEAN,
           Take(n, align, res)
    PROVE  HeapInv'
<1>0. n \in Nat \ {0}
  OBVIOUS
<1>1. CASE UNCHANGED used /\ failed' = TRUE
  BY <1>1 DEF HeapInv, TypeOK, Inside, Disjoint
<1>2. ASSUME NEW a \in Fits(n, align), failed' = FALSE,
             used' = [x \in DOMAIN used \cup {a} |->
                        IF x = a THEN [size |-> n, res |-> res] ELSE used[x]]
      PROVE  HeapInv'
  <2>1. a \in Region /\ a + n <= Start + Size
    BY DEF Fits
  <2>2. DOMAIN used' = DOMAIN used \cup {a} /\ used'[a] = [size |-> n, res |-> res]
    BY <1>2
  <2>3. \A x \in DOMAIN used : x # a => used'[x] = used[x]
    BY <1>2
  <2>4. TypeOK'
    BY <1>0, <1>2, <2>1, <2>2, <2>3, Zenon DEF HeapInv, TypeOK, Block
  <2>5. Inside'
    BY <1>0, <2>1, <2>2, <2>3, RegionAssumption DEF HeapInv, Inside, Region
  <2>6. \A x \in DOMAIN used : a + n <= x \/ x + used[x].size <= a
    BY <1>0, FitsApart
  <2>7. \A x \in DOMAIN used : x \in Nat /\ used[x].size \in Nat \ {0}
    BY RegionAssumption DEF HeapInv, TypeOK, Region, Block
  <2>8. a \in Nat
    BY <2>1, RegionAssumption DEF Region
  <2>9. Disjoint'
    <3>1. SUFFICES ASSUME NEW x \in DOMAIN used', NEW y \in DOMAIN used', x < y
                   PROVE  x + used'[x].size <= y
      BY DEF Disjoint
    <3>2. CASE x = a /\ y # a
      BY <1>0, <3>1, <3>2, <2>2, <2>3, <2>6, <2>7, <2>8
    <3>3. CASE x # a /\ y = a
      BY <1>0, <3>1, <3>3, <2>2, <2>3, <2>6, <2>7, <2>8
    <3>4. CASE x # a /\ y # a
      BY <3>1, <3>4, <2>2, <2>3 DEF HeapInv, Disjoint
    <3>5. CASE x = a /\ y = a
      BY <3>1, <3>5, <2>8
    <3>6. QED BY <3>2, <3>3, <3>4, <3>5
  <2>10. QED BY <2>4, <2>5, <2>9 DEF HeapInv
<1>3. QED BY <1>1, <1>2, Zenon DEF Take

\* Free and Release only remove a block.
LEMMA GiveStep ==
    ASSUME HeapInv, NEW a, NEW res \in BOOLEAN, Give(a, res)
    PROVE  HeapInv'
<1>1. DOMAIN used' \subseteq DOMAIN used /\ failed' \in BOOLEAN
  BY Zenon DEF Give
<1>2. \A x \in DOMAIN used' : used'[x] = used[x]
  BY DEF Give
<1>3. QED BY <1>1, <1>2 DEF HeapInv, TypeOK, Inside, Disjoint

\* Blocks handed out by the region are exclusive and inside it, in every
\* reachable state, for every region and every sequence of calls.
THEOREM BlocksExclusive == Spec => [](TypeOK /\ Inside /\ Disjoint)
<1>1. Init => HeapInv
  BY Zenon DEF Init, HeapInv, TypeOK, Inside, Disjoint
<1>2. HeapInv /\ [Next]_vars => HeapInv'
  <2> SUFFICES ASSUME HeapInv, [Next]_vars PROVE HeapInv' OBVIOUS
  <2>1. ASSUME NEW n \in Sizes, NEW align \in Aligns, NEW res \in BOOLEAN,
               Take(n, align, res)
        PROVE  HeapInv'
    BY <2>1, TakeStep, RegionAssumption
  <2>2. ASSUME NEW a \in Region, NEW res \in BOOLEAN, Give(a, res)
        PROVE  HeapInv'
    BY <2>2, GiveStep
  <2>3. CASE Pass
    BY <2>3, Zenon DEF Pass, HeapInv, TypeOK, Inside, Disjoint
  <2>4. CASE UNCHANGED vars
    BY <2>4 DEF vars, HeapInv, TypeOK, Inside, Disjoint
  <2>5. QED BY <2>1, <2>2, <2>3, <2>4 DEF Next
<1>3. QED BY <1>1, <1>2, PTL DEF Spec, HeapInv

\* A block keeps its size and kind for as long as it is in use: no call on
\* another address disturbs it.
THEOREM BlocksStable == Spec => Stable
<1>1. HeapInv /\ [Next]_vars =>
        [\A a \in DOMAIN used \cap DOMAIN used' : used'[a] = used[a]]_vars
  <2> SUFFICES ASSUME HeapInv, Next
               PROVE  \A x \in DOMAIN used \cap DOMAIN used' : used'[x] = used[x]
    BY DEF vars
  <2>1. ASSUME NEW n \in Sizes, NEW align \in Aligns, NEW res \in BOOLEAN,
               Take(n, align, res)
        PROVE  \A x \in DOMAIN used \cap DOMAIN used' : used'[x] = used[x]
    <3>1. CASE UNCHANGED used
      BY <3>1
    <3>2. ASSUME NEW a \in Fits(n, align),
                 used' = [x \in DOMAIN used \cup {a} |->
                            IF x = a THEN [size |-> n, res |-> res] ELSE used[x]]
          PROVE  \A x \in DOMAIN used \cap DOMAIN used' : used'[x] = used[x]
      <4>1. a \notin DOMAIN used
        <5>1. n \in Nat \ {0} /\ align \in Nat \ {0}
          BY RegionAssumption
        <5>2. a \in Nat
          BY RegionAssumption DEF Fits, Region
        <5>3. SUFFICES ASSUME a \in DOMAIN used PROVE FALSE
          OBVIOUS
        <5>4. used[a].size \in Nat \ {0}
          BY <5>3 DEF HeapInv, TypeOK, Block
        <5>5. a + n <= a \/ a + used[a].size <= a
          BY <5>1, <5>3, FitsApart
        <5>6. QED BY <5>1, <5>2, <5>4, <5>5
      <4>2. QED BY <3>2, <4>1
    <3>3. QED BY <2>1, <3>1, <3>2, Zenon DEF Take
  <2>2. ASSUME NEW a \in Region, NEW res \in BOOLEAN, Give(a, res)
        PROVE  \A x \in DOMAIN used \cap DOMAIN used' : used'[x] = used[x]
    BY <2>2 DEF Give
  <2>3. CASE Pass
    BY <2>3 DEF Pass
  <2>4. QED BY <2>1, <2>2, <2>3 DEF Next
<1>2. Spec => []HeapInv
  BY BlocksExclusive, PTL DEF HeapInv
<1>3. QED BY <1>1, <1>2, PTL DEF Spec, Stable

-----------------------------------------------------------------------------
(***************************************************************************)
(* The memory of a VirtIO queue, until its first Destroy.                  *)
(***************************************************************************)

\* Sizes are not zero.
LifeConstants ==
    /\ N \in Nat \ {0} /\ Length \in Nat \ {0} /\ TableSize \in Nat \ {0}
    /\ \A size \in Foreign : size \in Nat \ {0}
ASSUME LifeAssumption == LifeConstants

\* a block of n bytes that the other goroutine knows nothing of
Own(a, n) == a \in DOMAIN used /\ used[a].size = n /\ a \notin foreign

\* The region is in order.  The last descriptors are the slices of the last buffer.  Until the
\* first Destroy the other goroutine holds nothing but its own blocks, and the queue has its own.
LifeInv ==
    /\ HeapInv
    /\ pc \in {"none", "table", "up", "descs"} /\ inits \in Nat
    /\ descs \in Seq(Nat) /\ base \in Nat
    /\ pc # "none" => inits >= 1
    /\ pc \in {"table", "up"} =>
          /\ Len(descs) >= N
          /\ \A k \in 1 .. N : descs[Len(descs) - N + k] = base + Length * (k - 1)
    /\ inits = 0 => foreign \subseteq DOMAIN used
    /\ pc \in {"table", "up"} /\ inits = 1 => foreign \subseteq DOMAIN used /\ Own(base, N * Length)
    /\ pc = "up" /\ inits = 1 => Own(table, TableSize)


\* Two lists of addresses, one after the other, are a list of addresses.
LEMMA Joined ==
    ASSUME NEW s \in Seq(Nat), NEW r \in Seq(Nat)
    PROVE  s \o r \in Seq(Nat) /\ Len(s \o r) = Len(s) + Len(r)
OBVIOUS

\* A request either fails and changes nothing, or gets a block that nobody had.
LEMMA TakePlaced ==
    ASSUME HeapInv, NEW n \in Nat \ {0}, Take(n, Word, TRUE)
    PROVE  /\ HeapInv'
           /\ \/ failed' = TRUE /\ used' = used
              \/ /\ failed' = FALSE /\ Placed \notin DOMAIN used /\ Placed \in Nat
                 /\ DOMAIN used' = DOMAIN used \cup {Placed} /\ used'[Placed].size = n
                 /\ \A x \in DOMAIN used : used'[x] = used[x]
<1>w. Word \in Nat \ {0}
  BY RegionAssumption
<1>2. HeapInv'
  BY <1>w, TakeStep, Zenon
<1>3. CASE failed' = TRUE /\ used' = used
  BY <1>2, <1>3
<1>4. ASSUME NEW a \in Fits(n, Word), failed' = FALSE,
             used' = [x \in DOMAIN used \cup {a} |->
                        IF x = a THEN [size |-> n, res |-> TRUE] ELSE used[x]]
      PROVE  /\ failed' = FALSE /\ Placed \notin DOMAIN used /\ Placed \in Nat
             /\ DOMAIN used' = DOMAIN used \cup {Placed} /\ used'[Placed].size = n
             /\ \A x \in DOMAIN used : used'[x] = used[x]
  <2>1. a \in Nat
    BY RegionAssumption DEF Fits, Region
  <2>2. a \notin DOMAIN used
    <3>1. SUFFICES ASSUME a \in DOMAIN used PROVE FALSE
      OBVIOUS
    <3>2. used[a].size \in Nat \ {0}
      BY <3>1 DEF HeapInv, TypeOK, Block
    <3>3. a + n <= a \/ a + used[a].size <= a
      BY <1>w, <3>1, FitsApart
    <3>4. QED
      BY <2>1, <3>2, <3>3
  <2>3. DOMAIN used' = DOMAIN used \cup {a}
    BY <1>4
  <2>4. Placed = a
    <3>1. \A x : x \in DOMAIN used' \ DOMAIN used <=> x = a
      BY <2>2, <2>3
    <3>2. QED
      BY <3>1, Zenon DEF Placed
  <2>5. used'[a].size = n /\ \A x \in DOMAIN used : used'[x] = used[x]
    BY <1>4, <2>2
  <2>6. QED
    BY <1>4, <2>1, <2>2, <2>3, <2>4, <2>5
<1>5. QED
  BY <1>2, <1>3, <1>4, Zenon DEF Take

\* A release takes away nothing but the block at its address.
LEMMA GiveAway ==
    ASSUME HeapInv, NEW a, Release(a)
    PROVE  /\ HeapInv'
           /\ DOMAIN used \ {a} \subseteq DOMAIN used' /\ DOMAIN used' \subseteq DOMAIN used
           /\ \A x \in DOMAIN used' : used'[x] = used[x]
<1>1. Give(a, TRUE)
  BY Zenon DEF Release
<1>2. HeapInv'
  BY <1>1, GiveStep, Zenon
<1>3. /\ DOMAIN used \ {a} \subseteq DOMAIN used' /\ DOMAIN used' \subseteq DOMAIN used
      /\ \A x \in DOMAIN used' : used'[x] = used[x]
  BY <1>1, Zenon DEF Give
<1>4. QED
  BY <1>2, <1>3

\* At the start nothing is reserved.
LEMMA LifeInitial == LifeInit => LifeInv
<1> SUFFICES ASSUME LifeInit PROVE LifeInv
  OBVIOUS
<1>1. /\ used = [a \in {} |-> 0] /\ failed = FALSE /\ pc = "none" /\ descs = << >> /\ base = 0
      /\ foreign = {} /\ inits = 0
  BY Zenon DEF LifeInit, Init
<1>2. DOMAIN used = {}
  BY <1>1
<1>3. HeapInv
  BY <1>1, <1>2, Zenon DEF HeapInv, TypeOK, Inside, Disjoint
<1>4. descs \in Seq(Nat)
  BY <1>1
<1>5. QED
  BY <1>1, <1>2, <1>3, <1>4 DEF LifeInv

\* Each call into the region, of the queue or of the other goroutine, keeps what is said of the
\* memory of the queue.
LEMMA LifeStep == LifeInv /\ [LifeNext]_(lifeVars) => LifeInv'
<1> SUFFICES ASSUME LifeInv, [LifeNext]_(lifeVars) PROVE LifeInv'
  OBVIOUS
<1> USE DEF queue
<1>c. N \in Nat \ {0} /\ Length \in Nat \ {0} /\ TableSize \in Nat \ {0} /\ N * Length \in Nat \ {0}
  BY LifeAssumption DEF LifeConstants
<1>h. HeapInv /\ inits \in Nat /\ descs \in Seq(Nat) /\ base \in Nat
  BY DEF LifeInv
<1>1. CASE InitBuffers
  <2>1. pc = "none" /\ Take(N * Length, Word, TRUE)
    BY <1>1, Zenon DEF InitBuffers
  <2>2. HeapInv'
    BY <1>c, <1>h, <2>1, TakePlaced, Zenon
  <2>3. CASE failed' = TRUE /\ used' = used
    <3>1. UNCHANGED <<pc, descs, base, table, i, inits, foreign>>
      BY <1>1, <2>3 DEF InitBuffers
    <3>2. QED
      BY <2>2, <2>3, <3>1 DEF LifeInv, Own
  <2>4. CASE /\ failed' = FALSE /\ Placed \notin DOMAIN used /\ Placed \in Nat
             /\ DOMAIN used' = DOMAIN used \cup {Placed}
             /\ used'[Placed].size = N * Length
             /\ \A x \in DOMAIN used : used'[x] = used[x]
    <3>1. /\ base' = Placed /\ pc' = "table" /\ inits' = inits + 1 /\ foreign' = foreign
          /\ descs' = descs \o [k \in 1 .. N |-> Placed + Length * (k - 1)]
      BY <1>1, <2>4, Zenon DEF InitBuffers
    <3>2. [k \in 1 .. N |-> Placed + Length * (k - 1)] \in Seq(Nat)
      <4>1. ASSUME NEW k \in 1 .. N PROVE Placed + Length * (k - 1) \in Nat
        <5>1. k - 1 \in Nat /\ Length \in Nat /\ Placed \in Nat
          BY <1>c, <2>4
        <5>2. Length * (k - 1) \in Nat
          BY <5>1
        <5>3. QED
          BY <5>1, <5>2
      <4>2. N \in Nat
        BY <1>c
      <4>3. QED
        BY <4>1, <4>2
    <3>3. /\ descs' \in Seq(Nat) /\ Len(descs') = Len(descs) + N
          /\ \A k \in 1 .. N : descs'[Len(descs) + k] = Placed + Length * (k - 1)
      <4>1. DEFINE new == [k \in 1 .. N |-> Placed + Length * (k - 1)]
      <4>2. new \in Seq(Nat) /\ Len(new) = N /\ N \in Nat
        BY <1>c, <3>2
      <4>3. \A k \in 1 .. N : new[k] = Placed + Length * (k - 1)
        OBVIOUS
      <4>4. descs' = descs \o new
        BY <3>1
      <4>5. Len(descs) \in Nat
        BY <1>h
      <4> HIDE DEF new
      <4>6. descs' \in Seq(Nat) /\ Len(descs') = Len(descs) + N
        <5>1. descs \in Seq(Nat)
          BY <1>h, Zenon
        <5>2. descs \o new \in Seq(Nat) /\ Len(descs \o new) = Len(descs) + Len(new)
          BY <4>2, <5>1, Joined, Zenon
        <5>3. QED
          BY <4>2, <4>4, <5>2
      <4>7. ASSUME NEW k \in 1 .. N PROVE descs'[Len(descs) + k] = new[k]
        BY <1>h, <4>2, <4>4, <4>5
      <4>8. QED
        BY <4>3, <4>6, <4>7
    <3>4. inits' = 1 => foreign' \subseteq DOMAIN used' /\ Own(base, N * Length)'
      <4>1. SUFFICES ASSUME inits' = 1 PROVE foreign' \subseteq DOMAIN used' /\ Own(base, N * Length)'
        OBVIOUS
      <4>2. inits = 0
        BY <1>h, <3>1, <4>1
      <4>3. foreign \subseteq DOMAIN used
        BY <4>2 DEF LifeInv
      <4>4. QED
        BY <2>4, <3>1, <4>3 DEF Own
    <3>5. Len(descs') >= N /\ \A k \in 1 .. N : descs'[Len(descs') - N + k] = base' + Length * (k - 1)
      <4>1. Len(descs) \in Nat /\ N \in Nat
        BY <1>c, <1>h
      <4>2. Len(descs') >= N
        BY <3>3, <4>1
      <4>3. ASSUME NEW k \in 1 .. N PROVE Len(descs') - N + k = Len(descs) + k
        BY <3>3, <4>1
      <4>4. QED
        BY <3>1, <3>3, <4>2, <4>3, Zenon
    <3>6. inits' \in Nat /\ inits' >= 1 /\ base' \in Nat
      BY <1>h, <2>4, <3>1
    <3>7. QED
      <4>1. inits' # 0
        BY <3>6
      <4>2. descs' \in Seq(Nat)
        BY <3>3
      <4>3. QED
        BY <2>2, <3>1, <3>4, <3>5, <3>6, <4>1, <4>2, Zenon DEF LifeInv
  <2>5. QED
    BY <1>c, <1>h, <2>1, <2>3, <2>4, TakePlaced, Zenon
<1>2. CASE InitTable
  <2>1. /\ pc = "table" /\ Take(TableSize, Word, TRUE) /\ ~failed'
        /\ table' = Placed /\ pc' = "up" /\ UNCHANGED <<descs, base, i, inits, foreign>>
    BY <1>2, Zenon DEF InitTable
  <2>2. /\ HeapInv' /\ Placed \notin DOMAIN used
        /\ DOMAIN used' = DOMAIN used \cup {Placed}
        /\ used'[Placed].size = TableSize /\ \A x \in DOMAIN used : used'[x] = used[x]
    BY <1>c, <1>h, <2>1, TakePlaced, Zenon
  <2>3. inits' = 1 => /\ foreign' \subseteq DOMAIN used' /\ Own(base, N * Length)'
                      /\ Own(table, TableSize)'
    BY <2>1, <2>2 DEF LifeInv, Own
  <2>4. QED
    BY <2>1, <2>2, <2>3 DEF LifeInv
<1>3. CASE DestroyBegin
  <2>1. pc = "up" /\ pc' = "descs" /\ UNCHANGED <<used, failed, descs, base, table, inits, foreign>>
    BY <1>3, Zenon DEF DestroyBegin
  <2>2. HeapInv'
    BY <1>h, <2>1 DEF HeapInv, TypeOK, Inside, Disjoint
  <2>3. QED
    BY <2>1, <2>2 DEF LifeInv
<1>4. CASE DestroyDesc
  <2>1. pc = "descs" /\ Release(descs[i]) /\ UNCHANGED <<pc, descs, base, table, inits, foreign>>
    BY <1>4, Zenon DEF DestroyDesc
  <2>2. HeapInv'
    BY <1>h, <2>1, GiveAway
  <2>3. QED
    BY <2>1, <2>2 DEF LifeInv
<1>5. CASE DestroyTable
  <2>1. /\ pc = "descs" /\ Release(table) /\ pc' = "none"
        /\ UNCHANGED <<descs, base, table, inits, foreign>>
    BY <1>5, Zenon DEF DestroyTable
  <2>2. HeapInv'
    BY <1>h, <2>1, GiveAway
  <2>3. QED
    BY <2>1, <2>2 DEF LifeInv
<1>6. CASE ForeignReserve
  <2>1. PICK n \in Foreign : Take(n, Word, TRUE) /\ ~failed' /\ foreign' = foreign \cup {Placed}
    BY <1>6, Zenon DEF ForeignReserve
  <2>2. UNCHANGED <<pc, descs, base, table, i, inits>>
    BY <1>6 DEF ForeignReserve
  <2>3. n \in Nat \ {0}
    BY LifeAssumption DEF LifeConstants
  <2>4. /\ HeapInv' /\ Placed \notin DOMAIN used
        /\ DOMAIN used' = DOMAIN used \cup {Placed}
        /\ \A x \in DOMAIN used : used'[x] = used[x]
    BY <1>h, <2>1, <2>3, TakePlaced, Zenon
  <2>5. \A m, x : Own(x, m) => Own(x, m)'
    BY <2>1, <2>4 DEF Own
  <2>6. foreign \subseteq DOMAIN used => foreign' \subseteq DOMAIN used'
    BY <2>1, <2>4
  <2>7. /\ Own(base, N * Length) => Own(base, N * Length)'
        /\ Own(table, TableSize) => Own(table, TableSize)'
    BY <2>1, <2>2, <2>4 DEF Own
  <2>8. QED
    BY <2>2, <2>4, <2>6, <2>7 DEF LifeInv
<1>7. CASE ForeignRelease
  <2>1. PICK a \in foreign : Release(a) /\ foreign' = foreign \ {a}
    BY <1>7, Zenon DEF ForeignRelease
  <2>2. UNCHANGED <<pc, descs, base, table, i, inits>>
    BY <1>7 DEF ForeignRelease
  <2>3. /\ HeapInv' /\ DOMAIN used \ {a} \subseteq DOMAIN used'
        /\ \A x \in DOMAIN used' : used'[x] = used[x]
    BY <1>h, <2>1, GiveAway, Zenon
  <2>4. /\ Own(base, N * Length) => Own(base, N * Length)'
        /\ Own(table, TableSize) => Own(table, TableSize)'
    BY <2>1, <2>2, <2>3 DEF Own
  <2>5. foreign \subseteq DOMAIN used => foreign' \subseteq DOMAIN used'
    BY <2>1, <2>3
  <2>6. QED
    BY <2>2, <2>3, <2>4, <2>5 DEF LifeInv
<1>8. CASE UNCHANGED lifeVars
  <2>1. UNCHANGED <<used, failed, pc, descs, base, table, inits, foreign>>
    BY <1>8 DEF lifeVars
  <2>2. HeapInv'
    BY <1>h, <2>1 DEF HeapInv, TypeOK, Inside, Disjoint
  <2>3. QED
    BY <2>1, <2>2 DEF LifeInv, Own
<1>9. QED
  BY <1>1, <1>2, <1>3, <1>4, <1>5, <1>6, <1>7, <1>8, Zenon DEF LifeNext

\* The slices of the buffer are in it.
LEMMA Sliced ==
    ASSUME NEW k \in 1 .. N, NEW b \in Nat
    PROVE  Bytes(b + Length * (k - 1), Length) \subseteq Bytes(b, N * Length)
<1>1. N \in Nat /\ Length \in Nat
  BY LifeAssumption DEF LifeConstants
<1>2. k - 1 \in Nat /\ N - k \in Nat
  BY <1>1
<1>3. Length * (k - 1) \in Nat /\ Length * (N - k) \in Nat
  BY <1>1, <1>2
<1>4. N * Length = Length * (k - 1) + Length + Length * (N - k)
  BY <1>1
<1>5. PICK x \in Nat, y \in Nat : x = Length * (k - 1) /\ y = Length * (N - k)
  BY <1>3
<1>6. b + x .. b + x + Length - 1 \subseteq b .. b + (x + Length + y) - 1
  BY <1>1, <1>5
<1>7. QED
  BY <1>4, <1>5, <1>6 DEF Bytes

\* The invariant gives the property.
LEMMA LifeBacked == LifeInv => QueueBacked
<1> SUFFICES ASSUME LifeInv, pc = "up" PROVE QueueBacked
  BY DEF QueueBacked
<1>1. inits = 1 => Own(base, N * Length) /\ Own(table, TableSize)
  BY DEF LifeInv
<1>2. ASSUME NEW k \in Len(descs) - N + 1 .. Len(descs)
      PROVE  Bytes(descs[k], Length) \subseteq Bytes(base, N * Length)
  <2>1. N \in Nat /\ Len(descs) \in Nat /\ base \in Nat
    BY LifeAssumption DEF LifeConstants, LifeInv
  <2>2. PICK m \in 1 .. N : k = Len(descs) - N + m
    <3>1. k - (Len(descs) - N) \in 1 .. N /\ k = Len(descs) - N + (k - (Len(descs) - N))
      BY <2>1
    <3>2. QED
      BY <3>1
  <2>3. descs[k] = base + Length * (m - 1)
    BY <2>2 DEF LifeInv
  <2>4. QED
    BY <2>1, <2>3, Sliced
<1>3. QED
  BY <1>1, <1>2 DEF QueueBacked, Own

-----------------------------------------------------------------------------
(***************************************************************************)
(* Frames that are pushed to a VirtIO queue.                               *)
(***************************************************************************)

\* The ring size divides the range of the indices, and the offset of the last length field is in
\* the range of offsets.
PushConstants ==
    /\ PushSize \in Nat \ {0} /\ PushIndexMod \in Nat \ {0} /\ OffsetMod \in Nat
    /\ \E q \in 1 .. PushIndexMod : PushIndexMod = PushSize * q
    /\ 8 + 16 * (PushSize - 1) < OffsetMod
ASSUME PushAssumption == PushConstants

\* the descriptor of the frame with a number
At(k) == k % PushSize

\* The available ring is never permuted.  The device is behind the driver and within one lap of it;
\* what it has read and not sent are the frames in between, each with its own descriptor.
Lap ==
    /\ pushAvail \in Nat /\ pushTaken \in Nat /\ pushUsed \in Nat
    /\ pushUsed <= pushTaken /\ pushTaken <= pushAvail /\ pushAvail <= pushUsed + PushSize
    /\ pushPc # "idle" => pushAvail < pushUsed + PushSize /\ index = At(pushAvail)
    /\ pushAring = [s \in 0 .. PushSize - 1 |-> s]
    /\ pushHolds = {[n |-> k, desc |-> At(k)] : k \in pushUsed .. pushTaken - 1}

\* The buffers and lengths of the frames in flight are theirs, and those of the frame that is
\* pushed as far as Push has come.
Filled ==
    /\ pushBuf = [s \in 0 .. PushSize - 1 |-> pushBuf[s]]
    /\ len = [s \in 0 .. PushSize - 1 |-> len[s]]
    /\ \A k \in pushUsed .. pushAvail - 1 : pushBuf[At(k)] = k /\ len[At(k)] = k
    /\ pushPc \in {"data", "offer", "index"} => len[At(pushAvail)] = pushAvail
    /\ pushPc \in {"offer", "index"} => pushBuf[At(pushAvail)] = pushAvail

PushInv ==
    /\ pushPc \in {"idle", "len", "data", "offer", "index"}
    /\ Lap /\ Filled /\ FramesIntact

\* A descriptor is a position of the ring.
LEMMA AtSlot ==
    ASSUME NEW k \in Int
    PROVE  At(k) \in 0 .. PushSize - 1 /\ PushU16(k) % PushSize = At(k)
<1>1. PushSize \in Nat \ {0} /\ PushIndexMod \in Nat \ {0}
  BY PushAssumption DEF PushConstants
<1>2. PICK q \in Nat \ {0} : PushIndexMod = PushSize * q
  BY PushAssumption DEF PushConstants
<1>3. (k % PushIndexMod) % PushSize = k % PushSize
  BY <1>1, <1>2, ModMod, Zenon
<1>4. k % PushSize \in 0 .. PushSize - 1
  BY <1>1, DivMod
<1>5. QED
  BY <1>3, <1>4 DEF At, PushU16

\* The frame that is pushed shares its descriptor with no frame in flight.
LEMMA OwnDescriptor ==
    ASSUME Lap, pushPc # "idle", NEW k \in pushUsed .. pushAvail - 1
    PROVE  At(k) # At(pushAvail)
<1>1. PushSize \in Nat \ {0}
  BY PushAssumption DEF PushConstants
<1>2. k \in Int /\ pushAvail \in Int /\ k < pushAvail /\ pushAvail < k + PushSize
  BY <1>1 DEF Lap
<1>3. QED
  BY <1>1, <1>2, ModApart, Zenon DEF At

\* Before the first frame all buffers are free.
LEMMA PushInitial == PushInit => PushInv
<1> SUFFICES ASSUME PushInit PROVE PushInv
  OBVIOUS
<1>1. PushSize \in Nat \ {0}
  BY PushAssumption DEF PushConstants
<1>2. /\ pushAvail = 0 /\ pushTaken = 0 /\ pushUsed = 0 /\ pushPc = "idle" /\ pushHolds = {}
      /\ sent = [n |-> 0, data |-> 0, len |-> 0]
      /\ pushAring = [s \in 0 .. PushSize - 1 |-> s]
      /\ pushBuf = [s \in 0 .. PushSize - 1 |-> pushBuf[s]] /\ len = [s \in 0 .. PushSize - 1 |-> len[s]]
  BY DEF PushInit, PushSlots
<1>3. pushUsed .. pushTaken - 1 = {} /\ pushUsed .. pushAvail - 1 = {}
  BY <1>2
<1>4. Lap
  BY <1>1, <1>2, <1>3 DEF Lap
<1>5. QED
  BY <1>2, <1>3, <1>4 DEF PushInv, Filled, FramesIntact

\* Each step of Push and of the device keeps the frames in flight as they are.
LEMMA PushStep == PushInv /\ [PushNext]_(pushVars) => PushInv'
<1> SUFFICES ASSUME PushInv, [PushNext]_(pushVars) PROVE PushInv'
  OBVIOUS
<1> USE DEF pushDevice, pushDriver
<1>s. PushSize \in Nat \ {0}
  BY PushAssumption DEF PushConstants
<1>n. /\ pushAvail \in Nat /\ pushTaken \in Nat /\ pushUsed \in Nat
      /\ pushUsed <= pushTaken /\ pushTaken <= pushAvail /\ pushAvail <= pushUsed + PushSize
      /\ At(pushAvail) \in 0 .. PushSize - 1
  BY AtSlot DEF PushInv, Lap
<1>1. CASE PushBegin
  <2>1. /\ pushPc = "idle" /\ pushPc' = "len" /\ pushAvail - pushUsed < PushSize
        /\ index' = pushAring[PushU16(pushAvail) % PushSize]
        /\ UNCHANGED <<pushAvail, pushAring, pushBuf, len, pushTaken, pushHolds, pushUsed, sent>>
    BY <1>1 DEF PushBegin
  <2>2. index' = At(pushAvail)
    BY <1>n, <2>1, AtSlot DEF PushInv, Lap
  <2>3. Lap'
    BY <1>s, <1>n, <2>1, <2>2 DEF PushInv, Lap, At
  <2>4. Filled' /\ FramesIntact'
    BY <2>1, Zenon DEF PushInv, Filled, At, FramesIntact
  <2>5. QED
    BY <2>1, <2>3, <2>4 DEF PushInv
<1>2. CASE PutLength
  <2>1. /\ pushPc = "len" /\ pushPc' = "data"
        /\ len' = [d \in 0 .. PushSize - 1 |->
                     IF d \in AtOffset((8 + index * 16) % OffsetMod) THEN pushAvail ELSE len[d]]
        /\ UNCHANGED <<pushAvail, pushAring, pushBuf, index, pushTaken, pushHolds, pushUsed, sent>>
    BY <1>2 DEF PutLength, lenOffset, descSize, PushSlots
  <2>2. index = At(pushAvail)
    BY <2>1 DEF PushInv, Lap
  <2>3. (8 + index * 16) % OffsetMod = 8 + index * 16
    <3>1. OffsetMod \in Nat \ {0} /\ 8 + index * 16 \in 0 .. OffsetMod - 1
      BY <1>s, <1>n, <2>2, PushAssumption DEF PushConstants
    <3>2. QED
      BY <3>1, ModSmall
  <2>4. ASSUME NEW d \in 0 .. PushSize - 1
        PROVE  d \in AtOffset(8 + index * 16) <=> d = index
    <3>1. d \in AtOffset(8 + index * 16) <=> 8 + d * 16 = 8 + index * 16
      BY DEF AtOffset, lenOffset, descSize, PushSlots
    <3>2. QED
      BY <1>n, <2>2, <3>1
  <2>5. /\ len' = [s \in 0 .. PushSize - 1 |-> len'[s]] /\ len'[At(pushAvail)] = pushAvail
        /\ \A s \in 0 .. PushSize - 1 : s # At(pushAvail) => len'[s] = len[s]
    BY <1>n, <2>1, <2>2, <2>3, <2>4
  <2>6. ASSUME NEW k \in pushUsed .. pushAvail - 1
        PROVE  At(k) # At(pushAvail) /\ At(k) \in 0 .. PushSize - 1
    <3>1. k \in Int /\ Lap /\ pushPc # "idle"
      BY <1>n, <2>1 DEF PushInv
    <3>2. QED
      BY <3>1, OwnDescriptor, AtSlot, Zenon
  <2>7. Lap'
    BY <2>1 DEF PushInv, Lap, At
  <2>8. Filled'
    <3>1. ASSUME NEW k \in pushUsed .. pushAvail - 1 PROVE pushBuf[At(k)] = k /\ len'[At(k)] = k
      BY <2>5, <2>6, Zenon DEF PushInv, Filled
    <3>2. At(pushAvail)' = At(pushAvail) /\ \A k : At(k)' = At(k)
      BY <2>1 DEF At
    <3>3. QED
      BY <2>1, <2>5, <3>1, <3>2, Zenon DEF PushInv, Filled
  <2>9. QED
    BY <2>1, <2>7, <2>8 DEF PushInv, FramesIntact
<1>3. CASE WriteData
  <2>1. /\ pushPc = "data" /\ pushPc' = "offer"
        /\ pushBuf' = [pushBuf EXCEPT ![index] = pushAvail]
        /\ UNCHANGED <<pushAvail, pushAring, len, index, pushTaken, pushHolds, pushUsed, sent>>
    BY <1>3 DEF WriteData
  <2>2. index = At(pushAvail) /\ pushBuf = [s \in 0 .. PushSize - 1 |-> pushBuf[s]]
    BY <2>1 DEF PushInv, Lap, Filled
  <2>5. /\ pushBuf' = [s \in 0 .. PushSize - 1 |-> pushBuf'[s]] /\ pushBuf'[At(pushAvail)] = pushAvail
        /\ \A s \in 0 .. PushSize - 1 : s # At(pushAvail) => pushBuf'[s] = pushBuf[s]
    BY <1>n, <2>1, <2>2, Zenon
  <2>6. ASSUME NEW k \in pushUsed .. pushAvail - 1
        PROVE  At(k) # At(pushAvail) /\ At(k) \in 0 .. PushSize - 1
    <3>1. k \in Int /\ Lap /\ pushPc # "idle"
      BY <1>n, <2>1 DEF PushInv
    <3>2. QED
      BY <3>1, OwnDescriptor, AtSlot, Zenon
  <2>7. Lap'
    BY <2>1 DEF PushInv, Lap, At
  <2>8. Filled'
    <3>1. ASSUME NEW k \in pushUsed .. pushAvail - 1 PROVE pushBuf'[At(k)] = k /\ len[At(k)] = k
      BY <2>5, <2>6, Zenon DEF PushInv, Filled
    <3>2. At(pushAvail)' = At(pushAvail) /\ \A k : At(k)' = At(k)
      BY <2>1 DEF At
    <3>3. QED
      BY <2>1, <2>5, <3>1, <3>2 DEF PushInv, Filled
  <2>9. QED
    BY <2>1, <2>7, <2>8 DEF PushInv, FramesIntact
<1>4. CASE PushOffer
  <2>1. /\ pushPc = "offer" /\ pushPc' = "index"
        /\ pushAring' = [pushAring EXCEPT ![PushU16(pushAvail) % PushSize] = index]
        /\ UNCHANGED <<pushAvail, pushBuf, len, index, pushTaken, pushHolds, pushUsed, sent>>
    BY <1>4 DEF PushOffer
  <2>2. index = At(pushAvail) /\ pushAring = [s \in 0 .. PushSize - 1 |-> s]
    BY <2>1 DEF PushInv, Lap
  <2>3. PushU16(pushAvail) % PushSize = At(pushAvail)
    BY <1>n, AtSlot
  <2>4. pushAring' = [s \in 0 .. PushSize - 1 |-> s]
    BY <1>n, <2>1, <2>2, <2>3, Zenon
  <2>5. Lap'
    BY <2>1, <2>4, Zenon DEF PushInv, Lap, At
  <2>6. Filled' /\ FramesIntact'
    BY <2>1 DEF PushInv, Filled, At, FramesIntact
  <2>7. QED
    BY <2>1, <2>5, <2>6 DEF PushInv
<1>5. CASE PushIndex
  <2>1. /\ pushPc = "index" /\ pushPc' = "idle" /\ pushAvail' = pushAvail + 1
        /\ UNCHANGED <<pushAring, pushBuf, len, index, pushTaken, pushHolds, pushUsed, sent>>
    BY <1>5 DEF PushIndex
  <2>2. pushAvail < pushUsed + PushSize
    BY <2>1 DEF PushInv, Lap
  <2>3. Lap'
    BY <1>s, <1>n, <2>1, <2>2 DEF PushInv, Lap, At
  <2>4. pushUsed' .. pushAvail' - 1 = (pushUsed .. pushAvail - 1) \cup {pushAvail}
    BY <1>n, <2>1
  <2>5. pushBuf[At(pushAvail)] = pushAvail /\ len[At(pushAvail)] = pushAvail
    BY <2>1 DEF PushInv, Filled
  <2>6. \A k : At(k)' = At(k)
    BY DEF At
  <2>7. Filled'
    BY <2>1, <2>4, <2>5, <2>6, Zenon DEF PushInv, Filled
  <2>8. QED
    BY <2>1, <2>3, <2>7 DEF PushInv, FramesIntact
<1>6. CASE PushFetch
  <2>1. /\ PushU16(pushTaken) # PushU16(pushAvail) /\ pushTaken' = pushTaken + 1
        /\ pushHolds' = pushHolds \cup {[n |-> pushTaken, desc |-> pushAring[pushTaken % PushSize]]}
        /\ UNCHANGED <<pushAvail, pushAring, pushBuf, len, pushPc, index, pushUsed, sent>>
    BY <1>6 DEF PushFetch
  <2>2. pushTaken # pushAvail
    BY <2>1
  <2>3. pushTaken < pushAvail
    BY <1>n, <2>2
  <2>4. pushAring[pushTaken % PushSize] = At(pushTaken)
    <3>1. pushTaken \in Int
      BY <1>n
    <3>2. At(pushTaken) \in 0 .. PushSize - 1
      BY <3>1, AtSlot
    <3>3. QED
      BY <3>2 DEF PushInv, Lap, At
  <2>5. pushUsed .. pushTaken' - 1 = (pushUsed .. pushTaken - 1) \cup {pushTaken}
    BY <1>n, <2>1
  <2>6. pushHolds' = {[n |-> k, desc |-> At(k)] : k \in pushUsed .. pushTaken' - 1}
    BY <2>1, <2>4, <2>5, Zenon DEF PushInv, Lap
  <2>7. Lap'
    <3>1. pushTaken' \in Nat /\ pushUsed' <= pushTaken' /\ pushTaken' <= pushAvail'
      BY <1>n, <2>1, <2>3
    <3>2. pushHolds' = {[n |-> k, desc |-> At(k)'] : k \in pushUsed' .. pushTaken' - 1}
      BY <2>1, <2>6 DEF At
    <3>3. QED
      BY <2>1, <3>1, <3>2, Zenon DEF PushInv, Lap, At
  <2>8. Filled' /\ FramesIntact'
    BY <2>1, Zenon DEF PushInv, Filled, At, FramesIntact
  <2>9. QED
    BY <2>1, <2>7, <2>8 DEF PushInv
<1>7. CASE PushSend
  <2>1. /\ pushUsed' = pushUsed + 1
        /\ UNCHANGED <<pushAvail, pushAring, pushBuf, len, pushPc, index, pushTaken>>
    BY <1>7 DEF PushSend
  <2>2. PICK h \in pushHolds :
          /\ \A g \in pushHolds : h.n <= g.n
          /\ sent' = [n |-> h.n, data |-> pushBuf[h.desc], len |-> len[h.desc]]
          /\ pushHolds' = pushHolds \ {h}
    BY <1>7, Zenon DEF PushSend
  <2>3. pushHolds = {[n |-> k, desc |-> At(k)] : k \in pushUsed .. pushTaken - 1}
    BY DEF PushInv, Lap
  <2>4. PICK m \in pushUsed .. pushTaken - 1 : h = [n |-> m, desc |-> At(m)]
    BY <2>3
  <2>5. pushUsed \in pushUsed .. pushTaken - 1
    BY <1>n, <2>4
  <2>6. m = pushUsed
    <3>1. [n |-> pushUsed, desc |-> At(pushUsed)] \in pushHolds
      BY <2>3, <2>5
    <3>2. h.n <= pushUsed
      BY <2>2, <3>1
    <3>3. h.n = m
      BY <2>4
    <3>4. QED
      BY <1>n, <3>2, <3>3
  <2>7. pushBuf[At(pushUsed)] = pushUsed /\ len[At(pushUsed)] = pushUsed
    <3>1. pushUsed \in pushUsed .. pushAvail - 1
      BY <1>n, <2>5
    <3>2. QED
      BY <3>1 DEF PushInv, Filled
  <2>8. sent' = [n |-> pushUsed, data |-> pushUsed, len |-> pushUsed]
    BY <2>2, <2>4, <2>6, <2>7, Zenon
  <2>9. pushHolds' = {[n |-> k, desc |-> At(k)] : k \in pushUsed' .. pushTaken' - 1}
    <3>1. ASSUME NEW k \in pushUsed .. pushTaken - 1
          PROVE  [n |-> k, desc |-> At(k)] = h <=> k = pushUsed
      BY <2>4, <2>6
    <3>2. \A k : k \in pushUsed' .. pushTaken' - 1 <=> k \in pushUsed .. pushTaken - 1 /\ k # pushUsed
      BY <1>n, <2>1
    <3>3. \A x : x \in pushHolds' <=>
              \E k \in pushUsed .. pushTaken - 1 : k # pushUsed /\ x = [n |-> k, desc |-> At(k)]
      BY <2>2, <2>3, <3>1, Zenon
    <3>4. QED
      BY <3>2, <3>3, Zenon
  <2>10. Lap'
    <3>1. pushUsed' <= pushTaken' /\ pushAvail' <= pushUsed' + PushSize /\ pushUsed' \in Nat
      BY <1>s, <1>n, <2>1, <2>5
    <3>2. pushPc' # "idle" => pushAvail' < pushUsed' + PushSize /\ index' = At(pushAvail')
      BY <1>s, <1>n, <2>1 DEF PushInv, Lap
    <3>3. pushHolds' = {[n |-> k, desc |-> At(k)'] : k \in pushUsed' .. pushTaken' - 1}
      BY <2>9, Zenon DEF At
    <3>4. QED
      BY <2>1, <3>1, <3>2, <3>3, Zenon DEF PushInv, Lap, At
  <2>11. pushUsed' .. pushAvail' - 1 \subseteq pushUsed .. pushAvail - 1
    BY <1>n, <2>1
  <2>12. Filled'
    BY <2>1, <2>11 DEF PushInv, Filled, At
  <2>13. QED
    BY <2>1, <2>8, <2>10, <2>12, Zenon DEF PushInv, FramesIntact
<1>8. CASE UNCHANGED pushVars
  BY <1>8, Zenon DEF pushVars, PushInv, Lap, Filled, At, FramesIntact
<1>9. QED
  BY <1>1, <1>2, <1>3, <1>4, <1>5, <1>6, <1>7, <1>8 DEF PushNext, Push

\* Push: frames go out in order, each with its own data and length.  Descriptors are slices of
\* the buffer that Init reserved; until the first Destroy, it and the table are the queue's own.
DataIntact == FramesIntact /\ QueueBacked

\* Frames leave a queue intact, and its memory is behind it, for every ring size and range of
\* the indices, every region and every use of it by another goroutine (Push, Init, Destroy).
THEOREM QueuesIntact == PushSpec /\ LifeSpec => []DataIntact
<1>1. PushSpec => []FramesIntact
  <2>1. PushInv => FramesIntact
    BY DEF PushInv
  <2>2. QED
    BY <2>1, PushInitial, PushStep, PTL DEF PushSpec
<1>2. LifeSpec => []QueueBacked
  BY LifeInitial, LifeStep, LifeBacked, PTL DEF LifeSpec
<1>3. QED
  BY <1>1, <1>2, PTL DEF DataIntact

-----------------------------------------------------------------------------
(***************************************************************************)
(* The bring-up of the gVNIC, through its admin queue.                     *)
(***************************************************************************)

CONSTANTS Revision, Entries, AdminQueueSize, MaxAdminInits
VARIABLES adminInits, step, adminPc, adminCnt, ring, dma, regs, adminDoorbell, events, using, late

Admin == INSTANCE GveAdmin

\* The queue holds at least the commands of one Init.
AdminConstants == Entries \in Nat /\ Entries >= 6
ASSUME AdminAssumption == AdminConstants

\* the counter after the command of this step
After == IF step = Entries THEN 0 ELSE step

\* the entries of the commands before the one at position n were passed
PassedBelow(n) ==
    \A k \in 1 .. 6 : k < n => ring[k - 1] = [op |-> Admin!Cmds[k].op, status |-> "PASSED"]

\* Where the counters of driver and device are in each state of Init, and which buffers the
\* device may use that are not reserved: none, except those of a command that it did not complete
\* in time.
AdminInv ==
    /\ adminPc \in {"down", "push", "wait", "status", "failed", "up"} /\ step \in 1 .. 6
    /\ ring = [s \in 0 .. Entries - 1 |-> ring[s]]
    /\ adminDoorbell = adminCnt
    /\ adminPc = "down" => adminCnt = 0 /\ events = 0 /\ using = {}
    /\ adminPc = "push" =>
          /\ adminCnt = step - 1 /\ events = step - 1 /\ PassedBelow(step) /\ using \subseteq dma
    /\ adminPc \in {"wait", "status"} =>
          /\ adminCnt = After /\ PassedBelow(step) /\ using \subseteq dma
          /\ \/ events = step - 1 /\ adminPc = "wait"
                /\ ring[step - 1] = [op |-> Admin!Cmds[step].op, status |-> "UNSET"]
             \/ events = After /\ using \cap Admin!Named(Admin!Cmd.temp) = {}
                /\ \E st \in {"PASSED", "FAILED"} :
                      ring[step - 1] = [op |-> Admin!Cmds[step].op, status |-> st]
    /\ adminPc = "failed" =>
          /\ adminCnt = After /\ using \ Admin!Named(Admin!Cmd.temp) \subseteq dma
          /\ \/ events = step - 1 /\ late = TRUE
             \/ events = After /\ using \subseteq dma
    /\ adminPc = "up" =>
          /\ adminCnt = After /\ events = After /\ PassedBelow(7) /\ using \subseteq dma

\* The counter counts on to the position after a command, and back.
LEMMA Counting ==
    ASSUME NEW s \in 1 .. 6
    PROVE  /\ (s - 1 + 1) % Entries = IF s = Entries THEN 0 ELSE s
           /\ ((IF s = Entries THEN 0 ELSE s) - 1) % Entries = s - 1
           /\ s - 1 # IF s = Entries THEN 0 ELSE s
<1>1. Entries \in Nat \ {0} /\ Entries >= 6
  BY AdminAssumption DEF AdminConstants
<1>2. s - 1 \in 0 .. Entries - 1
  BY <1>1
<1>3. (s - 1) % Entries = s - 1
  BY <1>1, <1>2, ModSmall
<1>4. CASE s = Entries
  <2>1. 0 \in 0 .. Entries - 1 /\ 0 % Entries = 0
    BY <1>1, ModSmall
  <2>2. \A a \in Int : (a - Entries) % Entries = a % Entries
    BY <1>1, ModLap, Zenon
  <2>3. s % Entries = 0
    <3>1. (s - Entries) % Entries = s % Entries /\ s - Entries = 0
      BY <1>1, <1>4, <2>2
    <3>2. QED
      BY <2>1, <3>1
  <2>4. s - 1 \in Int
    OBVIOUS
  <2>5. (-1) % Entries = s - 1
    <3>1. ((s - 1) - Entries) % Entries = (s - 1) % Entries
      BY <2>2, <2>4, Zenon
    <3>2. (s - 1) - Entries = -1
      BY <1>1, <1>4
    <3>3. QED
      BY <1>3, <3>1, <3>2
  <2>6. s - 1 + 1 = s /\ 0 - 1 = -1
    OBVIOUS
  <2>7. QED
    BY <1>1, <1>4, <2>3, <2>5, <2>6
<1>5. CASE s # Entries
  <2>1. s \in 0 .. Entries - 1
    BY <1>1, <1>5
  <2>2. s % Entries = s /\ s - 1 + 1 = s
    BY <1>1, <2>1, ModSmall
  <2>3. QED
    BY <1>3, <1>5, <2>2
<1>6. QED
  BY <1>4, <1>5

\* Before the first Init nothing is counted and the device uses no memory.
LEMMA AdminInit == Admin!Init => AdminInv
<1> SUFFICES ASSUME Admin!Init PROVE AdminInv
  OBVIOUS
<1>1. ring = [s \in 0 .. Entries - 1 |-> ring[s]]
  BY DEF Admin!Init, Admin!Slots
<1>2. QED
  BY <1>1 DEF Admin!Init, AdminInv

\* Each step of Init and of the device keeps the counters together.
LEMMA AdminStep == AdminInv /\ [Admin!Next]_(Admin!vars) => AdminInv'
<1> SUFFICES ASSUME AdminInv, [Admin!Next]_(Admin!vars) PROVE AdminInv'
  OBVIOUS
<1>e. Entries \in Nat /\ Entries >= 6 /\ step \in 1 .. 6
  BY AdminAssumption DEF AdminConstants, AdminInv
<1>a. After # step - 1
  BY <1>e DEF After
<1>1. CASE Admin!Reset
  <2>1. PICK junk \in {"UNSET", "PASSED"} : ring' = [s \in 0 .. Entries - 1 |-> Admin!Free(junk)]
    BY <1>1, Zenon DEF Admin!Reset, Admin!Slots, Admin!UNSET, Admin!PASSED
  <2>2. ring' = [s \in 0 .. Entries - 1 |-> ring'[s]]
    BY <2>1, Zenon
  <2>3. /\ step' = 1 /\ adminPc' = "push" /\ adminCnt' = 0 /\ adminDoorbell' = 0 /\ events' = 0
        /\ using' = {<<"aq", adminInits'>>} /\ dma' = dma \cup {<<"aq", adminInits'>>}
    BY <1>1, Zenon DEF Admin!Reset
  <2>4. PassedBelow(step)'
    BY <2>3 DEF PassedBelow
  <2>5. QED
    BY <2>2, <2>3, <2>4 DEF AdminInv
<1>2. CASE Admin!Push
  <2>1. /\ adminPc = "push" /\ adminPc' = "wait" /\ step' = step /\ adminInits' = adminInits
        /\ dma' = dma \cup Admin!Named(Admin!Cmd.keep \cup Admin!Cmd.temp)
        /\ using' = using \cup Admin!Named(Admin!Cmd.keep \cup Admin!Cmd.temp)
        /\ ring' = [ring EXCEPT ![adminCnt] = [op |-> Admin!Cmd.op, status |-> "UNSET"]]
        /\ adminCnt' = (adminCnt + 1) % Entries /\ adminDoorbell' = adminCnt' /\ events' = events
    BY <1>2, Zenon DEF Admin!Push, Admin!UNSET
  <2>2. adminCnt = step - 1 /\ events = step - 1 /\ PassedBelow(step) /\ using \subseteq dma
    BY <2>1 DEF AdminInv
  <2>3. adminCnt' = After'
    BY <1>e, <2>1, <2>2, Counting DEF After
  <2>4. /\ ring' = [s \in 0 .. Entries - 1 |-> ring'[s]]
        /\ ring'[step - 1] = [op |-> Admin!Cmds[step].op, status |-> "UNSET"]
        /\ \A s \in 0 .. Entries - 1 : s # step - 1 => ring'[s] = ring[s]
    <3>1. step - 1 \in 0 .. Entries - 1 /\ ring = [s \in 0 .. Entries - 1 |-> ring[s]]
      BY <1>e DEF AdminInv
    <3>2. ring' = [ring EXCEPT ![step - 1] = [op |-> Admin!Cmds[step].op, status |-> "UNSET"]]
      BY <2>1, <2>2, Zenon DEF Admin!Cmd
    <3>3. QED
      BY <3>1, <3>2, Zenon
  <2>5. PassedBelow(step)'
    <3>1. ASSUME NEW k \in 1 .. 6, k < step
          PROVE  ring'[k - 1] = [op |-> Admin!Cmds[k].op, status |-> "PASSED"]
      <4>1. k - 1 \in 0 .. Entries - 1 /\ k - 1 # step - 1
        BY <1>e, <3>1
      <4>2. ring[k - 1] = [op |-> Admin!Cmds[k].op, status |-> "PASSED"]
        BY <2>2, <3>1 DEF PassedBelow
      <4>3. QED
        BY <2>4, <4>1, <4>2
    <3>2. QED
      BY <2>1, <3>1 DEF PassedBelow
  <2>6. using' \subseteq dma'
    BY <2>1, <2>2
  <2>7. QED
    BY <1>e, <2>1, <2>2, <2>3, <2>4, <2>5, <2>6 DEF AdminInv
<1>3. CASE Admin!WaitFor
  <2>1. /\ adminPc = "wait" /\ events = adminCnt /\ adminPc' = "status"
        /\ UNCHANGED <<adminInits, step, adminCnt, ring, dma, adminDoorbell, events, using, late>>
    BY <1>3, Zenon DEF Admin!WaitFor
  <2>2. /\ PassedBelow(step)' = PassedBelow(step) /\ After' = After
        /\ Admin!Named(Admin!Cmd.temp)' = Admin!Named(Admin!Cmd.temp)
    BY <2>1 DEF PassedBelow, After, Admin!Named, Admin!Cmd
  <2>3. QED
    BY <1>a, <2>1, <2>2 DEF AdminInv
<1>4. CASE Admin!Timeout
  <2>1. /\ adminPc = "wait" /\ events # adminCnt /\ adminPc' = "failed" /\ step' = step
        /\ dma' = dma \ Admin!Named(Admin!Cmd.temp) /\ late' = TRUE
        /\ UNCHANGED <<adminInits, adminCnt, ring, adminDoorbell, events, using>>
    BY <1>4, Zenon DEF Admin!Timeout, Admin!Return
  <2>2. After' = After /\ Admin!Named(Admin!Cmd.temp)' = Admin!Named(Admin!Cmd.temp)
    BY <2>1 DEF After, Admin!Named, Admin!Cmd
  <2>3. adminCnt = After /\ using \subseteq dma /\ (events = step - 1 \/ events = After)
    BY <2>1 DEF AdminInv
  <2>4. QED
    BY <2>1, <2>2, <2>3 DEF AdminInv
<1>5. CASE Admin!CheckStatus
  <2>1. /\ adminPc = "status" /\ dma' = dma \ Admin!Named(Admin!Cmd.temp)
        /\ UNCHANGED <<adminInits, adminCnt, ring, adminDoorbell, events, using, late>>
    BY <1>5, Zenon DEF Admin!CheckStatus, Admin!Return
  <2>2. /\ adminCnt = After /\ events = After /\ PassedBelow(step)
        /\ using \subseteq dma /\ using \cap Admin!Named(Admin!Cmd.temp) = {}
    BY <2>1 DEF AdminInv
  <2>3. PICK st \in {"PASSED", "FAILED"} :
          ring[step - 1] = [op |-> Admin!Cmds[step].op, status |-> st]
    BY <2>1 DEF AdminInv
  <2>4. (adminCnt - 1) % Entries = step - 1
    BY <1>e, <2>2, Counting DEF After
  <2>5. using' \subseteq dma'
    BY <2>1, <2>2
  <2>6. Admin!Len(Admin!Cmds) = 6
    BY DEF Admin!Cmds
  <2>7. \/ st = "PASSED" /\ step = 6 /\ adminPc' = "up" /\ step' = step
        \/ st = "PASSED" /\ step # 6 /\ adminPc' = "push" /\ step' = step + 1
        \/ st = "FAILED" /\ adminPc' = "failed" /\ step' = step
    <3>1. ring[step - 1].status = st
      BY <2>3
    <3>2. ring[(adminCnt - 1) % Entries].status = st
      BY <2>4, <3>1
    <3>3. IF ring[(adminCnt - 1) % Entries].status = "PASSED"
          THEN IF step = Admin!Len(Admin!Cmds) THEN adminPc' = "up" /\ step' = step
               ELSE adminPc' = "push" /\ step' = step + 1
          ELSE adminPc' = "failed" /\ step' = step
      BY <1>5, Zenon DEF Admin!CheckStatus, Admin!Return, Admin!PASSED
    <3>4. QED
      BY <2>6, <3>2, <3>3
  <2>8. CASE st = "FAILED" /\ adminPc' = "failed" /\ step' = step
    <3>1. After' = After /\ Admin!Named(Admin!Cmd.temp)' = Admin!Named(Admin!Cmd.temp)
      BY <2>1, <2>8 DEF After, Admin!Named, Admin!Cmd
    <3>2. QED
      BY <2>1, <2>2, <2>5, <2>8, <3>1 DEF AdminInv
  <2>9. CASE st = "PASSED" /\ step # 6 /\ adminPc' = "push" /\ step' = step + 1
    <3>1. step' \in 1 .. 6 /\ After = step' - 1
      BY <1>e, <2>9 DEF After
    <3>2. PassedBelow(step)'
      <4>1. ASSUME NEW k \in 1 .. 6, k < step'
            PROVE  ring'[k - 1] = [op |-> Admin!Cmds[k].op, status |-> "PASSED"]
        <5>1. CASE k = step
          BY <2>1, <2>3, <2>9, <5>1
        <5>2. CASE k # step
          <6>1. k < step
            BY <1>e, <2>9, <4>1, <5>2
          <6>2. QED
            BY <2>1, <2>2, <6>1, Zenon DEF PassedBelow
        <5>3. QED
          BY <5>1, <5>2
      <4>2. QED
        BY <4>1, Zenon DEF PassedBelow
    <3>3. QED
      BY <2>1, <2>2, <2>5, <2>9, <3>1, <3>2 DEF AdminInv
  <2>10. CASE st = "PASSED" /\ step = 6 /\ adminPc' = "up" /\ step' = step
    <3>1. PassedBelow(7)'
      <4>1. ASSUME NEW k \in 1 .. 6
            PROVE  ring'[k - 1] = [op |-> Admin!Cmds[k].op, status |-> "PASSED"]
        <5>1. CASE k = 6
          BY <2>1, <2>3, <2>10, <5>1
        <5>2. CASE k # 6
          <6>1. k < step
            BY <2>10, <5>2
          <6>2. QED
            BY <2>1, <2>2, <6>1, Zenon DEF PassedBelow
        <5>3. QED
          BY <5>1, <5>2
      <4>2. QED
        BY <4>1, Zenon DEF PassedBelow
    <3>2. After' = After
      BY <2>10 DEF After
    <3>3. QED
      BY <1>e, <2>1, <2>2, <2>5, <2>10, <3>1, <3>2 DEF AdminInv
  <2>11. QED
    BY <2>7, <2>8, <2>9, <2>10
<1>6. CASE Admin!Execute
  <2>1. PICK status \in {"PASSED", "FAILED"} :
          /\ ring' = [ring EXCEPT ![events].status = status]
          /\ using' = using \ Admin!Named(Admin!Cmd.temp \cup
                                (IF status = "PASSED" THEN {} ELSE Admin!Cmd.keep))
    BY <1>6, Zenon DEF Admin!Execute, Admin!PASSED, Admin!FAILED
  <2>2. /\ events # adminDoorbell /\ events' = (events + 1) % Entries
        /\ UNCHANGED <<adminInits, step, adminPc, adminCnt, dma, adminDoorbell>>
    BY <1>6, Zenon DEF Admin!Execute, Admin!driver
  <2>3. adminPc \in {"wait", "failed"} /\ events = step - 1 /\ adminCnt = After
    BY <2>2 DEF AdminInv
  <2>4. After' = After /\ Admin!Named(Admin!Cmd.temp)' = Admin!Named(Admin!Cmd.temp)
    BY <2>2 DEF After, Admin!Named, Admin!Cmd
  <2>5. events' = After
    BY <1>e, <2>2, <2>3, Counting DEF After
  <2>6. using' \subseteq using /\ using' \cap Admin!Named(Admin!Cmd.temp) = {}
    <3>1. Admin!Named(Admin!Cmd.temp) \subseteq
            Admin!Named(Admin!Cmd.temp \cup (IF status = "PASSED" THEN {} ELSE Admin!Cmd.keep))
      BY DEF Admin!Named
    <3>2. QED
      BY <2>1, <3>1
  <2>7. /\ ring' = [s \in 0 .. Entries - 1 |-> ring'[s]]
        /\ ring'[step - 1] = [ring[step - 1] EXCEPT !.status = status]
        /\ \A s \in 0 .. Entries - 1 : s # step - 1 => ring'[s] = ring[s]
    <3>1. step - 1 \in 0 .. Entries - 1 /\ ring = [s \in 0 .. Entries - 1 |-> ring[s]]
      BY <1>e DEF AdminInv
    <3>2. ring' = [ring EXCEPT ![step - 1].status = status]
      BY <2>1, <2>3
    <3>3. QED
      BY <3>1, <3>2, Zenon
  <2>8. CASE adminPc = "wait"
    <3>1. /\ PassedBelow(step) /\ using \subseteq dma
          /\ ring[step - 1] = [op |-> Admin!Cmds[step].op, status |-> "UNSET"]
      BY <1>a, <2>3, <2>8 DEF AdminInv
    <3>2. ring'[step - 1] = [op |-> Admin!Cmds[step].op, status |-> status]
      BY <2>7, <3>1
    <3>3. PassedBelow(step)'
      <4>1. ASSUME NEW k \in 1 .. 6, k < step
            PROVE  ring'[k - 1] = [op |-> Admin!Cmds[k].op, status |-> "PASSED"]
        <5>1. k - 1 \in 0 .. Entries - 1 /\ k - 1 # step - 1
          BY <1>e, <4>1
        <5>2. ring[k - 1] = [op |-> Admin!Cmds[k].op, status |-> "PASSED"]
          BY <3>1, <4>1 DEF PassedBelow
        <5>3. QED
          BY <2>7, <5>1, <5>2
      <4>2. QED
        BY <2>2, <4>1 DEF PassedBelow
    <3>4. using' \subseteq dma'
      BY <2>2, <2>6, <3>1
    <3>5. \E st \in {"PASSED", "FAILED"} :
            ring'[step'- 1] = [op |-> Admin!Cmds[step'].op, status |-> st]
      BY <2>2, <3>2
    <3>6. QED
      BY <1>e, <2>2, <2>3, <2>4, <2>5, <2>6, <2>7, <2>8, <3>3, <3>4, <3>5 DEF AdminInv
  <2>9. CASE adminPc = "failed"
    <3>1. using \ Admin!Named(Admin!Cmd.temp) \subseteq dma
      BY <2>9 DEF AdminInv
    <3>2. using' \subseteq dma'
      BY <2>2, <2>6, <3>1
    <3>3. QED
      BY <1>e, <2>2, <2>3, <2>4, <2>5, <2>7, <2>9, <3>2 DEF AdminInv
  <2>10. QED
    BY <2>3, <2>8, <2>9
<1>7. CASE UNCHANGED Admin!vars
  <2>1. UNCHANGED <<adminInits, step, adminPc, adminCnt, ring, dma, adminDoorbell, events, using, late>>
    BY <1>7 DEF Admin!vars, Admin!driver, Admin!device
  <2>2. /\ PassedBelow(step)' = PassedBelow(step) /\ After' = After
        /\ PassedBelow(7)' = PassedBelow(7)
        /\ Admin!Named(Admin!Cmd.temp)' = Admin!Named(Admin!Cmd.temp)
    BY <2>1, Zenon DEF PassedBelow, After, Admin!Named, Admin!Cmd
  <2>3. QED
    BY <2>1, <2>2 DEF AdminInv
<1>8. QED
  BY <1>1, <1>2, <1>3, <1>4, <1>5, <1>6, <1>7 DEF Admin!Next

\* The invariant gives the property.
LEMMA AdminUp == AdminInv => Admin!UpMeansConfigured
<1> SUFFICES ASSUME AdminInv PROVE Admin!UpMeansConfigured
  OBVIOUS
<1>1. Admin!Len(Admin!Cmds) = 6
  BY DEF Admin!Cmds
<1>2. ~late => using \subseteq dma
  BY DEF AdminInv
<1>3. ASSUME adminPc = "up"
      PROVE  /\ events = adminCnt
             /\ \A k \in 1 .. 6 : ring[k - 1] = [op |-> Admin!Cmds[k].op, status |-> "PASSED"]
  BY <1>3 DEF AdminInv, PassedBelow
<1>4. QED
  BY <1>1, <1>2, <1>3 DEF Admin!UpMeansConfigured, Admin!PASSED

-----------------------------------------------------------------------------
(***************************************************************************)
(* The handshake of the VirtIO transports.                                 *)
(***************************************************************************)

CONSTANTS Transports, Queues, DevOffered, Wanted, MsixIDs
VARIABLES transport, valid, offered, accept, status, dfeatures, qsel, qaddr, qvector, msix,
          routed, notified, features, notifyOff, asked, wrong, phase

Transport == INSTANCE VirtTransport

\* What the device was told is in force in each phase.  Features are in the driver's register as
\* they are in the driver, because those that a legacy device does not have were never visible.
TransportInv ==
    /\ dfeatures = features
    /\ features \subseteq (offered \cap asked) \ {"packed", "notifdata"}
    /\ valid \in BOOLEAN /\ accept \in BOOLEAN
    /\ phase \in {"new", "failed", "init", "ready"}
    /\ "DriverOk" \in status => phase # "init"
    /\ phase \in {"init", "ready"} \/ status # {} =>
          valid /\ {"Acknowledge", "Driver"} \subseteq status
    /\ phase \in {"init", "ready"} => (transport # "legacy" => accept /\ "FeaturesOk" \in status)
    /\ "DriverOk" \in status => (transport # "legacy" => accept /\ "FeaturesOk" \in status)
    /\ phase = "ready" => "DriverOk" \in status
    /\ notified # {} => "DriverOk" \in status

\* The features negotiated are visible to the device, hence its register takes them all.
LEMMA FeaturesVisible ==
    ASSUME NEW offer, NEW wanted
    PROVE  Transport!Visible(Transport!negotiate(Transport!Visible(offer), wanted))
             = Transport!negotiate(Transport!Visible(offer), wanted)
BY DEF Transport!Visible, Transport!negotiate

\* Before Init nothing is negotiated.
LEMMA TransportInit == Transport!Init => TransportInv
BY DEF Transport!Init, TransportInv

\* A handshake ends in phase "init" only if the device accepts, which it leaves in its status.
LEMMA HandshakeStep ==
    ASSUME TransportInv, valid, NEW wanted, NEW ok \in SUBSET {"FeaturesOk"}, NEW fails \in BOOLEAN,
           Transport!Handshake(wanted, ok, fails),
           ~fails => (transport # "legacy" => accept /\ "FeaturesOk" \in ok)
    PROVE  TransportInv'
<1>1. /\ asked' = wanted /\ features' = Transport!negotiate(Transport!Visible(offered), wanted)
      /\ dfeatures' = features'
      /\ status' = {"Acknowledge", "Driver"} \cup ok
      /\ phase' = IF fails THEN "failed" ELSE "init"
      /\ notified' = {} /\ UNCHANGED <<transport, valid, offered, accept>>
  <2>1. dfeatures' = Transport!Visible(features')
    BY DEF Transport!Handshake
  <2>2. features' = Transport!negotiate(Transport!Visible(offered), wanted)
    BY DEF Transport!Handshake
  <2>3. dfeatures' = features'
    BY <2>1, <2>2, FeaturesVisible
  <2>4. QED
    BY <2>2, <2>3 DEF Transport!Handshake
<1>2. features' \subseteq (offered' \cap asked') \ {"packed", "notifdata"}
  BY <1>1 DEF Transport!negotiate, Transport!Visible
<1>3. "DriverOk" \notin status' /\ {"Acknowledge", "Driver"} \subseteq status'
  BY <1>1
<1>4. QED
  BY <1>1, <1>2, <1>3 DEF TransportInv

\* Each call of the transport keeps the device as it was told.
LEMMA TransportStep == TransportInv /\ [Transport!Next]_(Transport!vars) => TransportInv'
<1> SUFFICES ASSUME TransportInv, [Transport!Next]_(Transport!vars) PROVE TransportInv'
  OBVIOUS
<1>1. ASSUME NEW wanted \in Wanted, Transport!InitMMIO(wanted) PROVE TransportInv'
  <2>1. /\ Transport!Handshake(wanted, Transport!FeaturesOkMMIO, Transport!FeaturesOkMMIO = {}) /\ valid
    BY <1>1 DEF Transport!InitMMIO
  <2>2. /\ Transport!FeaturesOkMMIO \in SUBSET {"FeaturesOk"}
        /\ ~(Transport!FeaturesOkMMIO = {}) => accept /\ "FeaturesOk" \in Transport!FeaturesOkMMIO
    BY DEF Transport!FeaturesOkMMIO
  <2>3. QED
    BY <2>1, <2>2, HandshakeStep, Zenon
<1>2. ASSUME NEW wanted \in Wanted, Transport!InitPCI(wanted) PROVE TransportInv'
  <2>1. /\ Transport!Handshake(wanted, Transport!FeaturesOkPCI, Transport!FeaturesOkPCI = {}) /\ valid
    BY <1>2 DEF Transport!InitPCI
  <2>2. /\ Transport!FeaturesOkPCI \in SUBSET {"FeaturesOk"}
        /\ ~(Transport!FeaturesOkPCI = {}) => accept /\ "FeaturesOk" \in Transport!FeaturesOkPCI
    BY DEF Transport!FeaturesOkPCI
  <2>3. QED
    BY <2>1, <2>2, HandshakeStep, Zenon
<1>3. ASSUME NEW wanted \in Wanted, Transport!InitLegacy(wanted) PROVE TransportInv'
  <2>1. transport = "legacy" /\ valid /\ Transport!Handshake(wanted, {}, FALSE)
    BY <1>3, Zenon DEF Transport!InitLegacy, Transport!FeaturesOkLegacy
  <2>2. QED
    BY <2>1, HandshakeStep, Zenon
<1>4. CASE Transport!InitInvalid
  BY <1>4, Zenon DEF Transport!InitInvalid, Transport!dev, TransportInv
<1>5. ASSUME NEW q \in Queues, Transport!ReadQueue(q) PROVE TransportInv'
  BY <1>5, Zenon DEF Transport!ReadQueue, TransportInv
<1>6. ASSUME NEW q \in Queues, Transport!SetQueue(q) PROVE TransportInv'
  BY <1>6, Zenon DEF Transport!SetQueue, TransportInv
<1>7. ASSUME NEW q \in Queues, Transport!QueueNotify(q) PROVE TransportInv'
  BY <1>7, Zenon DEF Transport!QueueNotify, TransportInv
<1>8. ASSUME NEW q \in Queues, NEW id \in MsixIDs, Transport!EnableInterrupt(q, id) PROVE TransportInv'
  BY <1>8, Zenon DEF Transport!EnableInterrupt, TransportInv
<1>9. CASE Transport!SetReady
  BY <1>9, Zenon DEF Transport!SetReady, TransportInv
<1>10. CASE UNCHANGED Transport!vars
  BY <1>10, Zenon DEF Transport!vars, Transport!dev, TransportInv
<1>11. QED
  BY <1>1, <1>2, <1>3, <1>4, <1>5, <1>6, <1>7, <1>8, <1>9, <1>10 DEF Transport!Next

\* The invariant gives the property.
LEMMA TransportNegotiated == TransportInv => Transport!Negotiated
BY DEF TransportInv, Transport!Negotiated

\* Init of the gVNIC returns without error only if the device has executed all
\* six commands, in order, and passed each; the device keeps no released memory.
\* The handshake of the VirtIO transports ends with agreed features on a device
\* that accepts them, and only then is the device driven.
BroughtUp == Admin!UpMeansConfigured /\ Transport!Negotiated

\* No device is driven that was not brought up, for every admin queue that holds the commands of
\* one Init, whatever fails or times out, and for every device, offer of features and wish of a
\* driver (GVE.Init, Init of the transports).
THEOREM DevicesBroughtUp == Admin!Spec /\ Transport!Spec => []BroughtUp
<1>1. Admin!Spec => []Admin!UpMeansConfigured
  BY AdminInit, AdminStep, AdminUp, PTL DEF Admin!Spec
<1>2. Transport!Spec => []Transport!Negotiated
  BY TransportInit, TransportStep, TransportNegotiated, PTL DEF Transport!Spec
<1>3. QED
  BY <1>1, <1>2, PTL DEF BroughtUp

-----------------------------------------------------------------------------
(***************************************************************************)
(* SEV guests: requests to the firmware, and changes of pages.             *)
(***************************************************************************)

CONSTANTS GuestPages, MaxPSCEntries, MaxGuestCalls
CONSTANTS Versions, MaxUpdates

VARIABLES layout, seqNo, gpc, request, answer, outcome, firmware, lost, guestCalls, rmp, validated,
          range, private, entries, cur
VARIABLES shared, hpc, updates, vpc, version, timeInfo, adjusted

Guest == INSTANCE KvmGuest

\* Pages are counted; a request has room for entries.
SevConstants == GuestPages \subseteq Nat /\ IsFiniteSet(GuestPages) /\ MaxPSCEntries \in Nat
ASSUME SevAssumption == SevConstants

\* How the number of the guest compares with the count of the firmware, at each step of a
\* request; before the first exit neither has counted.
Counted ==
    /\ seqNo \in Nat /\ firmware \in Nat /\ layout \in BOOLEAN
    /\ ~layout => firmware = 0
    /\ gpc = "exit" => layout
    /\ gpc = "answered" => layout /\ answer = firmware /\ (~lost => seqNo + 1 = firmware)
    /\ gpc # "answered" => (layout /\ ~lost => seqNo = firmware + 1)

\* What a change of pages has done at each step.
Changed ==
    /\ rmp \subseteq GuestPages /\ validated \subseteq rmp
    /\ range \subseteq GuestPages /\ entries \subseteq range /\ cur \in Nat
    /\ private \in BOOLEAN
    /\ gpc \in {"psc", "pscExit"} => entries = range /\ (~private => range \cap validated = {})
    /\ gpc = "pscExit" /\ cur >= Cardinality(entries) =>
          IF private THEN range \subseteq rmp ELSE range \cap rmp = {}
    /\ gpc = "pscDefer" /\ outcome = "ok" =>
          /\ entries = range
          /\ IF private THEN range \subseteq rmp ELSE range \cap (rmp \cup validated) = {}
    /\ Guest!PagesAsAsked

SevInv ==
    /\ gpc \in {"idle", "exit", "answered", "returned", "psc", "pscExit", "pscDefer", "pscReturned"}
    /\ Counted /\ Changed

\* The module's Cardinality is the one of the theorems about finite sets.
LEMMA GuestCardinality == ASSUME NEW s PROVE Guest!Cardinality(s) = Cardinality(s)
BY Zenon DEF Guest!Cardinality, Cardinality

\* Sets of pages can be counted, and a part of a set that has as many pages is all of it.
PagesCounted ==
    \A s \in SUBSET GuestPages :
        /\ IsFiniteSet(s) /\ Cardinality(s) \in Nat
        /\ \A q \in SUBSET s :
              /\ Cardinality(q) \in Nat /\ Cardinality(q) <= Cardinality(s)
              /\ Cardinality(q) = Cardinality(s) => q = s

\* The first n pages of a set of no more than n are all of them.
LEMMA AllFirst ==
    ASSUME PagesCounted, NEW s \in SUBSET GuestPages, NEW k \in Nat, k >= Cardinality(s)
    PROVE  Guest!FirstOf(s, k) = s /\ Cardinality(s) \in Nat /\ IsFiniteSet(s)
<1>1. IsFiniteSet(s) /\ Cardinality(s) \in Nat
  BY Zenon DEF PagesCounted
<1>2. ASSUME NEW p \in s PROVE Cardinality({q \in s : q < p}) < Cardinality(s)
  <2>1. {q \in s : q < p} \in SUBSET s
    OBVIOUS
  <2>2. p \in Nat /\ p \notin {q \in s : q < p}
    BY SevAssumption DEF SevConstants
  <2>3. {q \in s : q < p} # s
    BY <2>2
  <2>4. /\ Cardinality({q \in s : q < p}) <= Cardinality(s)
        /\ Cardinality({q \in s : q < p}) = Cardinality(s) => {q \in s : q < p} = s
    BY <2>1, Zenon DEF PagesCounted
  <2>5. Cardinality({q \in s : q < p}) \in Nat
    BY <2>1, Zenon DEF PagesCounted
  <2>6. QED
    BY <1>1, <2>3, <2>4, <2>5
<1>3. \A p \in s : Cardinality({q \in s : q < p}) < k
  <2>1. ASSUME NEW p \in s PROVE Cardinality({q \in s : q < p}) \in Nat
    BY {q \in s : q < p} \in SUBSET s, Zenon DEF PagesCounted
  <2>2. QED
    BY <1>1, <1>2, <2>1
<1>4. ASSUME NEW p \in s PROVE p \in Guest!FirstOf(s, k)
  <2>1. Cardinality({q \in s : q < p}) < k
    BY <1>3
  <2>2. Guest!Cardinality({q \in s : q < p}) = Cardinality({q \in s : q < p})
    BY GuestCardinality
  <2>3. Guest!Cardinality({q \in s : q < p}) < k
    BY <2>1, <2>2
  <2>4. QED
    BY <2>3, Zenon DEF Guest!FirstOf
<1>5. Guest!FirstOf(s, k) \subseteq s
  BY Zenon DEF Guest!FirstOf
<1>6. QED
  BY <1>1, <1>4, <1>5

\* At the start nothing was sent, and every page is private.
LEMMA SevInit == Guest!Init => SevInv
<1> SUFFICES ASSUME Guest!Init PROVE SevInv
  OBVIOUS
<1>1. gpc = "idle" /\ Counted
  BY Zenon DEF Guest!Init, Counted
<1>2. Changed
  BY <1>1, Zenon DEF Guest!Init, Changed, Guest!PagesAsAsked
<1>3. QED
  BY <1>1, <1>2 DEF SevInv

\* Each step of a request or of a change of pages keeps the invariant, failing exits included.
LEMMA SevStep == PagesCounted /\ SevInv /\ [Guest!Next]_(Guest!vars) => SevInv'
<1> SUFFICES ASSUME PagesCounted, SevInv, [Guest!Next]_(Guest!vars) PROVE SevInv'
  OBVIOUS
<1> USE DEF Guest!requestVars, Guest!pageVars
<1>1. CASE Guest!GuestRequest
  <2>1. /\ gpc = "idle" /\ gpc' = "exit" /\ layout' = TRUE
        /\ seqNo' = (IF layout THEN seqNo ELSE 1) /\ firmware' = firmware /\ lost' = lost
    BY <1>1, Zenon DEF Guest!GuestRequest
  <2>2. UNCHANGED <<rmp, validated, range, private, entries, cur>>
    BY <1>1, Zenon DEF Guest!GuestRequest
  <2>3. Counted'
    <3>1. CASE layout
      BY <2>1, <3>1 DEF SevInv, Counted
    <3>2. CASE ~layout
      BY <2>1, <3>2 DEF SevInv, Counted
    <3>3. QED
      BY <3>1, <3>2
  <2>4. Changed'
    BY <2>1, <2>2, Zenon DEF SevInv, Changed, Guest!PagesAsAsked
  <2>5. QED
    BY <2>1, <2>3, <2>4 DEF SevInv
<1>2. CASE Guest!HwFirmware
  <2>1. /\ gpc = "exit" /\ gpc' = "answered" /\ request = firmware + 1 /\ firmware' = firmware + 2
        /\ answer' = firmware + 2 /\ layout' = layout /\ seqNo' = seqNo /\ lost' = lost
    BY <1>2, Zenon DEF Guest!HwFirmware
  <2>2. UNCHANGED <<rmp, validated, range, private, entries, cur>>
    BY <1>2, Zenon DEF Guest!HwFirmware
  <2>3. Counted'
    BY <2>1 DEF SevInv, Counted
  <2>4. Changed'
    BY <2>1, <2>2, Zenon DEF SevInv, Changed, Guest!PagesAsAsked
  <2>5. QED
    BY <2>1, <2>3, <2>4 DEF SevInv
<1>3. CASE Guest!ExitError
  BY <1>3, Zenon DEF Guest!ExitError, SevInv, Counted, Changed, Guest!PagesAsAsked
<1>4. CASE Guest!openMessage
  <2>1. /\ gpc = "answered" /\ gpc' = "returned"
        /\ \/ answer = seqNo + 1 /\ seqNo' = seqNo + 2 /\ lost' = lost
           \/ seqNo' = seqNo + 1 /\ lost' = TRUE
        /\ layout' = layout /\ answer' = answer /\ firmware' = firmware
    BY <1>4, Zenon DEF Guest!openMessage
  <2>2. UNCHANGED <<rmp, validated, range, private, entries, cur>>
    BY <1>4, Zenon DEF Guest!openMessage
  <2>3. Counted'
    BY <2>1 DEF SevInv, Counted
  <2>4. Changed'
    BY <2>1, <2>2, Zenon DEF SevInv, Changed, Guest!PagesAsAsked
  <2>5. QED
    BY <2>1, <2>3, <2>4 DEF SevInv
<1>5. CASE Guest!Return
  BY <1>5, Zenon DEF Guest!Return, SevInv, Counted, Changed, Guest!PagesAsAsked
<1>6. ASSUME NEW s \in SUBSET GuestPages, NEW priv \in BOOLEAN, Guest!PageStateChange(s, priv)
      PROVE  SevInv'
  <2>1. PICK k \in 0 .. MaxPSCEntries :
          /\ k <= Guest!Cardinality(s)
          /\ priv => k = Guest!Cardinality(Guest!FirstOf(s, MaxPSCEntries))
          /\ validated' = IF priv THEN validated ELSE validated \ Guest!FirstOf(s, k)
          /\ IF Guest!Cardinality(s) <= MaxPSCEntries /\ k = Guest!Cardinality(s)
             THEN /\ gpc' = "psc" /\ layout' = TRUE /\ seqNo' = IF layout THEN seqNo ELSE 1
                  /\ UNCHANGED outcome
             ELSE /\ gpc' = "pscDefer" /\ outcome' = "error" /\ UNCHANGED <<layout, seqNo>>
    BY <1>6 DEF Guest!PageStateChange
  <2>2. /\ gpc = "idle" /\ range' = s /\ private' = priv /\ cur' = 0
        /\ entries' = Guest!FirstOf(s, MaxPSCEntries)
        /\ UNCHANGED <<rmp, request, answer, firmware, lost>>
    BY <1>6 DEF Guest!PageStateChange
  <2>3. Counted' /\ gpc' \in {"psc", "pscDefer"}
    <3>1. /\ seqNo \in Nat /\ firmware \in Nat /\ layout \in BOOLEAN /\ (~layout => firmware = 0)
          /\ layout /\ ~lost => seqNo = firmware + 1
      BY <2>2 DEF SevInv, Counted
    <3>2. \/ gpc' = "psc" /\ layout' = TRUE /\ seqNo' = (IF layout THEN seqNo ELSE 1)
          \/ gpc' = "pscDefer" /\ layout' = layout /\ seqNo' = seqNo
      BY <2>1
    <3>3. CASE gpc' = "psc" /\ layout' = TRUE /\ seqNo' = (IF layout THEN seqNo ELSE 1)
      <4>1. CASE layout
        BY <2>2, <3>1, <3>3, <4>1 DEF Counted
      <4>2. CASE ~layout
        BY <2>2, <3>1, <3>3, <4>2 DEF Counted
      <4>3. QED
        BY <4>1, <4>2
    <3>4. CASE gpc' = "pscDefer" /\ layout' = layout /\ seqNo' = seqNo
      BY <2>2, <3>1, <3>4 DEF Counted
    <3>5. QED
      BY <3>2, <3>3, <3>4, Zenon
  <2>4. entries' \subseteq s /\ validated' \subseteq validated
    BY <2>1, <2>2 DEF Guest!FirstOf
  <2>5. gpc' = "psc" => entries' = s /\ (~priv => s \cap validated' = {})
    <3>1. SUFFICES ASSUME gpc' = "psc" PROVE entries' = s /\ (~priv => s \cap validated' = {})
      OBVIOUS
    <3>2. Cardinality(s) <= MaxPSCEntries /\ k = Cardinality(s)
      BY <2>1, <3>1, GuestCardinality
    <3>3. k \in Nat /\ MaxPSCEntries \in Nat
      BY SevAssumption DEF SevConstants
    <3>4. Guest!FirstOf(s, MaxPSCEntries) = s
      BY <3>2, <3>3, AllFirst
    <3>5. Guest!FirstOf(s, k) = s
      BY <3>2, <3>3, AllFirst
    <3>6. QED
      BY <2>1, <2>2, <3>4, <3>5
  <2>6. gpc' = "pscDefer" => outcome' = "error"
    BY <2>1
  <2>7. Changed'
    BY <2>2, <2>3, <2>4, <2>5, <2>6, Zenon DEF SevInv, Changed, Guest!PagesAsAsked
  <2>8. QED
    BY <2>3, <2>7 DEF SevInv
<1>7. CASE Guest!HwPsc
  <2>1. PICK k \in 0 .. Guest!Cardinality(entries) :
          /\ rmp' = IF private THEN rmp \cup Guest!FirstOf(entries, k)
                    ELSE rmp \ Guest!FirstOf(entries, k)
          /\ cur' = k
    BY <1>7, Zenon DEF Guest!HwPsc
  <2>2. /\ gpc = "psc" /\ gpc' = "pscExit"
        /\ UNCHANGED <<layout, outcome, seqNo, request, answer, firmware, lost, validated, range,
                       private, entries>>
    BY <1>7 DEF Guest!HwPsc
  <2>3. Counted'
    BY <2>2 DEF SevInv, Counted
  <2>4. entries = range /\ (~private => range \cap validated = {}) /\ entries \in SUBSET GuestPages
    BY <2>2 DEF SevInv, Changed
  <2>5. k \in Nat /\ Guest!FirstOf(entries, k) \subseteq entries
    BY <2>1 DEF Guest!FirstOf
  <2>6. rmp' \subseteq GuestPages /\ validated' \subseteq rmp'
    BY <2>1, <2>2, <2>4, <2>5 DEF SevInv, Changed
  <2>7. k >= Cardinality(entries) => Guest!FirstOf(entries, k) = entries
    BY <2>4, <2>5, AllFirst
  <2>8. k >= Cardinality(entries) => IF private THEN range \subseteq rmp' ELSE range \cap rmp' = {}
    BY <2>1, <2>4, <2>7
  <2>9. Changed'
    BY <2>1, <2>2, <2>4, <2>5, <2>6, <2>8, Zenon DEF SevInv, Changed, Guest!PagesAsAsked
  <2>10. QED
    BY <2>2, <2>3, <2>9 DEF SevInv
<1>8. CASE Guest!PscResult
  <2>1. /\ gpc = "pscExit" /\ gpc' = "pscDefer"
        /\ UNCHANGED <<layout, seqNo, request, answer, firmware, lost, rmp, validated, range, private,
                       entries, cur>>
    BY <1>8 DEF Guest!PscResult
  <2>2. Counted'
    BY <2>1 DEF SevInv, Counted
  <2>3. outcome' = "ok" => cur > Cardinality(entries) - 1
    <3>1. outcome' = "ok" => cur > Guest!Cardinality(entries) - 1
      BY <1>8, Zenon DEF Guest!PscResult
    <3>2. QED
      BY <3>1, GuestCardinality
  <2>4. cur \in Nat /\ Cardinality(entries) \in Nat
    <3>1. entries \in SUBSET GuestPages /\ cur \in Nat
      BY DEF SevInv, Changed
    <3>2. QED
      BY <3>1, Zenon DEF PagesCounted
  <2>5. outcome' = "ok" => cur >= Cardinality(entries)
    BY <2>3, <2>4
  <2>6. Changed'
    BY <2>1, <2>5, Zenon DEF SevInv, Changed, Guest!PagesAsAsked
  <2>7. QED
    BY <2>1, <2>2, <2>6 DEF SevInv
<1>9. CASE Guest!PscDefer
  <2>1. /\ gpc = "pscDefer" /\ gpc' = "pscReturned"
        /\ UNCHANGED <<layout, seqNo, request, answer, firmware, lost, rmp, range, private, entries, cur>>
    BY <1>9 DEF Guest!PscDefer
  <2>2. Counted'
    BY <2>1 DEF SevInv, Counted
  <2>3. CASE private
    <3>1. /\ validated' = validated \cup (entries \cap rmp)
          /\ outcome' = IF entries \subseteq rmp THEN outcome ELSE "error"
      BY <1>9, <2>3 DEF Guest!PscDefer
    <3>2. Changed'
      BY <2>1, <2>3, <3>1, Zenon DEF SevInv, Changed, Guest!PagesAsAsked
    <3>3. QED
      BY <2>1, <2>2, <3>2 DEF SevInv
  <2>4. CASE ~private
    <3>1. UNCHANGED <<validated, outcome>>
      BY <1>9, <2>4 DEF Guest!PscDefer
    <3>2. Changed'
      BY <2>1, <2>4, <3>1, Zenon DEF SevInv, Changed, Guest!PagesAsAsked
    <3>3. QED
      BY <2>1, <2>2, <3>2 DEF SevInv
  <2>5. QED
    BY <2>3, <2>4
<1>10. CASE UNCHANGED Guest!vars
  BY <1>10, Zenon DEF Guest!vars, SevInv, Counted, Changed, Guest!PagesAsAsked
<1>11. QED
  BY <1>1, <1>2, <1>3, <1>4, <1>5, <1>6, <1>7, <1>8, <1>9, <1>10 DEF Guest!Next

\* Guest requests are numbered as the firmware counts its messages.  Page state
\* changes that succeed changed every page of their range, and pages are shared only
\* after the guest has given up their validation.
GuestRequests == Guest!InSequence /\ Guest!PagesAsAsked /\ Guest!SharedInvalid

INSTANCE FiniteSetTheorems

\* There are finitely many pages.
LEMMA PagesFinite == PagesCounted
<1> SUFFICES ASSUME NEW s \in SUBSET GuestPages
             PROVE  /\ IsFiniteSet(s) /\ Cardinality(s) \in Nat
                    /\ \A q \in SUBSET s :
                          /\ Cardinality(q) \in Nat /\ Cardinality(q) <= Cardinality(s)
                          /\ Cardinality(q) = Cardinality(s) => q = s
  BY Zenon DEF PagesCounted
<1>1. IsFiniteSet(s) /\ Cardinality(s) \in Nat
  BY SevAssumption, FS_Subset, FS_CardinalityType, Zenon DEF SevConstants
<1>2. ASSUME NEW q \in SUBSET s
      PROVE  /\ Cardinality(q) \in Nat /\ Cardinality(q) <= Cardinality(s)
             /\ Cardinality(q) = Cardinality(s) => q = s
  BY <1>1, FS_Subset, FS_CardinalityType, Zenon
<1>3. QED
  BY <1>1, <1>2, Zenon

\* Guest and firmware stay in step, and changes of pages are complete when they succeed, for every
\* set of pages and length of requests, whatever exits fail (GetAttestationReport, Exit,
\* PageStateChange).
THEOREM GuestsInStep == Guest!Spec => []GuestRequests
<1>1. SevInv => GuestRequests
  BY DEF SevInv, Counted, Changed, GuestRequests, Guest!InSequence, Guest!SharedInvalid
<1>2. QED
  BY <1>1, SevInit, SevStep, PagesFinite, PTL DEF Guest!Spec

=============================================================================
