----------------------------- MODULE DmaRegion -----------------------------
(***************************************************************************)
(* The first-fit DMA allocator of dma/region.go: a linked list of free     *)
(* blocks kept in address order, a map of used blocks, and the operations  *)
(* a driver calls.  Every operation holds the region's mutex while it      *)
(* touches that state, so each one is a single action.                     *)
(***************************************************************************)
EXTENDS Integers, FiniteSets, SequencesExt

CONSTANTS
    Start, Size,    \* Region.start, Region.size
    Word,           \* DefaultAlignment
    Sizes,          \* the lengths of buffers passed to Alloc and Reserve
    AlignArgs,      \* the align arguments of Alloc and Reserve
    Offsets,        \* offsets of slices and writes into a buffer
    Clients,        \* goroutines that use the region
    MaxHeld         \* bound on the buffers clients hold at one time

ASSUME DmaAssumption ==
    /\ Start \in Nat \ {0}
    /\ Size \in Nat \ {0}
    /\ Word \in Nat \ {0}
    /\ Sizes \subseteq Nat
    /\ AlignArgs \subseteq Nat
    /\ Offsets \subseteq Nat
    /\ MaxHeld \in Nat

VARIABLES
    freeBlocks,     \* the list, front first, of records [addr, size]
    usedBlocks,     \* address -> [size, res]
    mem,            \* contents of the region: who wrote each byte last
    held,           \* buffers the clients hold and have not given back
    failed          \* whether the last call panicked with "out of memory"

vars == <<freeBlocks, usedBlocks, mem, held, failed>>

Region == Start .. Start + Size - 1
Nobody == "nobody"
Bytes(a, n) == a .. a + n - 1
End(b) == b.addr + b.size

\* align == 0 || align&(align-1) != 0 selects DefaultAlignment
EffAlign(align) ==
    IF \E k \in 0 .. align : 2^k = align THEN align ELSE Word

\* -b.addr & (align - 1), align a power of two
Pad(b, align) == (-b.addr) % align

-----------------------------------------------------------------------------
\* The free list.

\* mutant: a block that fits exactly is passed over
FittingLarger(l, size, align) ==
    {i \in DOMAIN l : l[i].size > size + Pad(l[i], align)}

Fitting(l, size, align) ==
    {i \in DOMAIN l : l[i].size >= size + Pad(l[i], align)}

\* mutant: the padding before an aligned block is dropped
SplitLosesPad(l, i, size, align) ==
    LET pad  == Pad(l[i], align)
        rest == l[i].size - (size + pad)
    IN  SubSeq(l, 1, i - 1)
        \o (IF rest = 0 THEN <<>>
            ELSE <<[addr |-> l[i].addr + pad + size, size |-> rest]>>)
        \o SubSeq(l, i + 1, Len(l))

\* the list after block i gave its padding and its remainder back
Split(l, i, size, align) ==
    LET pad  == Pad(l[i], align)
        rest == l[i].size - (size + pad)
        Part(a, n) == IF n = 0 THEN <<>> ELSE <<[addr |-> a, size |-> n]>>
    IN  SubSeq(l, 1, i - 1)
        \o Part(l[i].addr, pad)
        \o Part(l[i].addr + pad + size, rest)
        \o SubSeq(l, i + 1, Len(l))

\* free: before the first block with a greater address, or at the back
Insert(l, b) ==
    LET after == {i \in DOMAIN l : l[i].addr > b.addr}
        pos   == IF after = {} THEN Len(l) + 1 ELSE Min(after)
    IN  InsertAt(l, pos, b)

\* defrag: a block that starts where the previous one ends is merged into it
Defrag(l) ==
    FoldLeft(LAMBDA acc, b :
                 IF acc # <<>> /\ End(Last(acc)) = b.addr
                 THEN [acc EXCEPT ![Len(acc)].size = @ + b.size]
                 ELSE Append(acc, b),
             <<>>, l)

-----------------------------------------------------------------------------
\* The operations.

Init ==
    /\ freeBlocks = <<[addr |-> Start, size |-> Size]>>
    /\ usedBlocks = <<>>
    /\ mem = [a \in Region |-> Nobody]
    /\ held = {}
    /\ failed = FALSE

\* alloc: the block chosen is the first one of the list that fits
AllocAt(size, align, res, addr) ==
    LET fitting == Fitting(freeBlocks, size, align)
        i == Min(fitting)
    IN  /\ fitting # {}
        /\ addr = freeBlocks[i].addr + Pad(freeBlocks[i], align)
        /\ freeBlocks' = Split(freeBlocks, i, size, align)
        /\ usedBlocks' = (addr :> [size |-> size, res |-> res]) @@ usedBlocks
        /\ failed' = FALSE

Hold(c, addr, size, kind) ==
    held' = held \cup {[owner |-> c, addr |-> addr, size |-> size,
                        kind |-> kind]}

\* Alloc of a buffer outside the region: its contents are copied in
Alloc(c, size, align) ==
    /\ Cardinality(held) < MaxHeld
    /\ size # 0
    /\ \E addr \in Region :
         /\ AllocAt(size, EffAlign(align), FALSE, addr)
         /\ mem' = [a \in Region |-> IF a \in Bytes(addr, size) THEN c ELSE mem[a]]
         /\ Hold(c, addr, size, "alloc")

\* Reserve: the contents are uninitialized, the client is given the slice
Reserve(c, size, align) ==
    /\ Cardinality(held) < MaxHeld
    /\ size # 0
    /\ \E addr \in Region :
         /\ AllocAt(size, EffAlign(align), TRUE, addr)
         /\ Hold(c, addr, size, "reserve")
    /\ UNCHANGED mem

\* Alloc and Reserve panic: no free block fits
Exhausted(size, align) ==
    /\ size # 0
    /\ Fitting(freeBlocks, size, EffAlign(align)) = {}
    /\ failed' = TRUE
    /\ UNCHANGED <<freeBlocks, usedBlocks, mem, held>>

\* Alloc and Reserve of nothing return address 0
AllocNothing(size) ==
    /\ size = 0
    /\ failed' = FALSE
    /\ UNCHANGED <<freeBlocks, usedBlocks, mem, held>>

\* Alloc of a slice of a buffer the client reserved: Reserved() is true, the
\* slice's own address is returned and nothing is allocated
AllocSlice(h, off) ==
    /\ Cardinality(held) < MaxHeld
    /\ h.kind = "reserve"
    /\ off < h.size
    /\ Hold(h.owner, h.addr + off, h.size - off, "slice")
    /\ failed' = FALSE
    /\ UNCHANGED <<freeBlocks, usedBlocks, mem>>

\* mutant: the kind of the block is not compared
FreeBlockAnyKind(addr, res) ==
    /\ IF addr # 0 /\ addr \in DOMAIN usedBlocks
       THEN /\ freeBlocks' = Defrag(Insert(freeBlocks,
                                [addr |-> addr, size |-> usedBlocks[addr].size]))
            /\ usedBlocks' = [a \in DOMAIN usedBlocks \ {addr} |-> usedBlocks[a]]
       ELSE UNCHANGED <<freeBlocks, usedBlocks>>
    /\ failed' = FALSE

\* freeBlock
FreeBlock(addr, res) ==
    /\ IF addr # 0 /\ addr \in DOMAIN usedBlocks /\ usedBlocks[addr].res = res
       THEN /\ freeBlocks' = Defrag(Insert(freeBlocks,
                                [addr |-> addr, size |-> usedBlocks[addr].size]))
            /\ usedBlocks' = [a \in DOMAIN usedBlocks \ {addr} |-> usedBlocks[a]]
       ELSE UNCHANGED <<freeBlocks, usedBlocks>>
    /\ failed' = FALSE

\* the client gives a buffer up; what is in memory it no longer owns is not
\* specified by anything, and is forgotten
Drop(h) ==
    /\ held' = held \ {h}
    /\ mem' = IF h.kind = "slice" THEN mem
              ELSE [a \in Region |-> IF a \in Bytes(h.addr, h.size) THEN Nobody ELSE mem[a]]

\* Free of what Alloc returned, which may be a slice of a reserved buffer
Free(h) ==
    /\ h.kind \in {"alloc", "slice"}
    /\ FreeBlock(h.addr, FALSE)
    /\ Drop(h)

\* Release of a reserved buffer, once no slice of it is held
Release(h) ==
    /\ h.kind = "reserve"
    /\ \A s \in held : s.kind = "slice" =>
           Bytes(s.addr, s.size) \cap Bytes(h.addr, h.size) = {}
    /\ FreeBlock(h.addr, TRUE)
    /\ Drop(h)

\* Free or Release of an address nobody holds with that kind (a nil buffer,
\* an address inside a block, as VirtualQueue.Destroy passes to Release)
StrayFree(addr, res) ==
    /\ ~ \E h \in held : h.addr = addr /\ h.kind = (IF res THEN "reserve" ELSE "alloc")
    /\ FreeBlock(addr, res)
    /\ UNCHANGED <<mem, held>>

\* Write at an offset of an allocated block, within its size: otherwise the
\* code panics ("invalid write parameters") and nothing is written
Write(h, off, len) ==
    /\ h.kind = "alloc" /\ len > 0 /\ off + len <= h.size
    /\ mem' = IF h.addr \in DOMAIN usedBlocks
              THEN [a \in Region |-> IF a \in Bytes(h.addr + off, len)
                                     THEN h.owner ELSE mem[a]]
              ELSE mem
    /\ failed' = FALSE
    /\ UNCHANGED <<freeBlocks, usedBlocks, held>>

\* a client fills the slice it reserved without calling the region
Fill(h) ==
    /\ h.kind = "reserve"
    /\ mem' = [a \in Region |-> IF a \in Bytes(h.addr, h.size) THEN h.owner ELSE mem[a]]
    /\ failed' = FALSE
    /\ UNCHANGED <<freeBlocks, usedBlocks, held>>

Next ==
    \/ \E c \in Clients, size \in Sizes, align \in AlignArgs :
          Alloc(c, size, align) \/ Reserve(c, size, align)
    \/ \E size \in Sizes, align \in AlignArgs : Exhausted(size, align)
    \/ \E size \in Sizes : AllocNothing(size)
    \/ \E h \in held, off \in Offsets : AllocSlice(h, off)
    \/ \E h \in held : Free(h) \/ Release(h) \/ Fill(h)
    \/ \E addr \in Region \cup {0}, res \in BOOLEAN : StrayFree(addr, res)
    \/ \E h \in held, off \in Offsets, len \in Sizes : Write(h, off, len)

Spec == Init /\ [][Next]_vars

-----------------------------------------------------------------------------

\* Every byte of the region belongs to exactly one block, free or used: the
\* splits of alloc and the merges of defrag neither lose nor duplicate memory,
\* whatever the order of the calls.
Tiled ==
    \A a \in Region :
        Cardinality({i \in DOMAIN freeBlocks :
                        a \in Bytes(freeBlocks[i].addr, freeBlocks[i].size)})
        + Cardinality({u \in DOMAIN usedBlocks : a \in Bytes(u, usedBlocks[u].size)})
        = 1

\* The bytes of an allocated buffer are the ones its owner put there: no other
\* client's Alloc, Write or reserved slice ever reaches them.
Isolated ==
    \A h \in held : h.kind = "alloc" =>
        \A a \in Bytes(h.addr, h.size) : mem[a] = h.owner

\* The list implements the abstract heap: the lowest aligned run of free bytes
\* is the one chosen, and "out of memory" is only raised when none exists.
Heap == INSTANCE DmaHeap WITH
            used <- usedBlocks,
            Sizes <- Sizes \ {0},
            Aligns <- {EffAlign(a) : a \in AlignArgs}

ImplementsHeap == Heap!Spec

=============================================================================
