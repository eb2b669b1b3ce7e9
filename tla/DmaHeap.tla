------------------------------- MODULE DmaHeap ------------------------------
(***************************************************************************)
(* What a DMA region (dma/region.go) promises its callers, with the free   *)
(* list left out: the state is the map of used blocks, and everything else *)
(* in the region is free.  A request is served at the lowest address where *)
(* an aligned run of free bytes is long enough, and fails only when there  *)
(* is no such run anywhere in the region.                                  *)
(***************************************************************************)
EXTENDS Integers

CONSTANTS
    Start,      \* first address of the region (Region.start)
    Size,       \* size of the region in bytes (Region.size)
    Word,       \* DefaultAlignment: 4 on 32-bit platforms, 8 on 64-bit ones
    Sizes,      \* request sizes, all greater than 0
    Aligns      \* effective alignments: Word and the powers of two asked for

ASSUME RegionAssumption ==
    /\ Start \in Nat \ {0}
    /\ Size \in Nat \ {0}
    /\ Word \in Nat \ {0}
    /\ Sizes \subseteq Nat \ {0}
    /\ Aligns \subseteq Nat \ {0}

VARIABLES
    used,       \* address of a used block -> its size and reservation flag
    failed      \* whether the last call panicked with "out of memory"

vars == <<used, failed>>

Region == Start .. Start + Size - 1

Block == [size : Nat \ {0}, res : BOOLEAN]

\* the bytes of a block of n bytes at address a
Bytes(a, n) == a .. a + n - 1

Covered == UNION {Bytes(a, used[a].size) : a \in DOMAIN used}

\* where an aligned block of n bytes would fit now
Fits(n, align) ==
    {a \in Region : /\ a % align = 0
                    /\ a + n <= Start + Size
                    /\ Bytes(a, n) \cap Covered = {}}

Init ==
    /\ used = [a \in {} |-> 0]
    /\ failed = FALSE

\* Alloc (res = FALSE) and Reserve (res = TRUE) of n bytes
Take(n, align, res) ==
    \/ \E a \in Fits(n, align) :
          /\ \A x \in Fits(n, align) : a <= x
          /\ used' = [x \in DOMAIN used \cup {a} |->
                        IF x = a THEN [size |-> n, res |-> res] ELSE used[x]]
          /\ failed' = FALSE
    \/ /\ Fits(n, align) = {}
       /\ failed' = TRUE
       /\ UNCHANGED used

\* Free (res = FALSE) and Release (res = TRUE) of an address: only a used
\* block of the same kind is given back, any other address is ignored
Give(a, res) ==
    /\ used' = IF a \in DOMAIN used /\ used[a].res = res
               THEN [x \in DOMAIN used \ {a} |-> used[x]]
               ELSE used
    /\ failed' = FALSE

\* a call that changes no block: Alloc of a reserved buffer, Read, Write
Pass ==
    /\ failed' = FALSE
    /\ UNCHANGED used

Next ==
    \/ \E n \in Sizes, align \in Aligns, res \in BOOLEAN : Take(n, align, res)
    \/ \E a \in Region, res \in BOOLEAN : Give(a, res)
    \/ Pass

Spec == Init /\ [][Next]_vars

-----------------------------------------------------------------------------

\* Used blocks are inside the region: no block handed out by alloc reaches
\* beyond start+size (region.go:281 is the only check).
Inside ==
    \A a \in DOMAIN used : a >= Start /\ a + used[a].size <= Start + Size

\* No two used blocks share a byte: what Alloc and Reserve hand out is
\* exclusive until freeBlock takes it back.
Disjoint ==
    \A a, b \in DOMAIN used :
        a < b => a + used[a].size <= b

TypeOK ==
    /\ DOMAIN used \subseteq Region
    /\ \A a \in DOMAIN used : used[a] \in Block
    /\ failed \in BOOLEAN

\* A step never moves, resizes or changes the kind of a block that stays in
\* use: addresses given to hardware remain valid across calls of others.
Stable ==
    [][\A a \in DOMAIN used \cap DOMAIN used' : used'[a] = used[a]]_vars

=============================================================================
