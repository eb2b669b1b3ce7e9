----------------------------- MODULE SdhciBlocks ----------------------------
(***************************************************************************)
(* How transferBlocks of the Microchip SDHCI driver splits a request into  *)
(* transfer commands: no more than the DMA region holds, and for writes    *)
(* ending on a boundary the card programs well.  Then the computations of  *)
(* the SD/MMC drivers.                                                     *)
(***************************************************************************)
EXTENDS Integers, Sequences

CONSTANTS
    Blocks,         \* capacity of the card
    maxBlocks,      \* blocks that fit the DMA region
    writeAlignment, \* write command boundary in blocks
    MaxRequest      \* bound: blocks of a request

ASSUME BlocksAssumption ==
    /\ Blocks \in Nat
    /\ maxBlocks \in Nat \ {0}
    /\ writeAlignment \in Nat \ {0}
    /\ MaxRequest \in Nat

VARIABLES
    dtd,            \* direction of the request
    start, total,   \* first block and number of blocks of the request
    lba, left,      \* what remains of it
    last,           \* blocks of the last command
    reqPc

vars == <<dtd, start, total, lba, left, last, reqPc>>

Init ==
    /\ dtd = "read" /\ start = 0 /\ total = 0 /\ lba = 0 /\ left = 0 /\ last = 0
    /\ reqPc = "idle"

\* mutant: only the start of the request is considered
validateTransferEnd(from, n) == n > 0 /\ from >= 0 /\ from <= Blocks

\* validateTransfer, for whole blocks
validateTransfer(from, n) == n > 0 /\ from >= 0 /\ from <= Blocks - n

TransferBlocks(d, from, n) ==
    /\ reqPc = "idle"
    /\ validateTransfer(from, n)
    /\ dtd' = d /\ start' = from /\ total' = n
    /\ lba' = from /\ left' = n /\ last' = 0
    /\ reqPc' = "loop"

Lesser(a, b) == IF a < b THEN a ELSE b

\* the largest number of blocks a write ending on a boundary can have
limit == maxBlocks - (maxBlocks % writeAlignment)

\* mutant: the start of the command is not considered
chunkLimit == IF dtd = "write" /\ writeAlignment <= maxBlocks THEN Lesser(left, limit)
              ELSE Lesser(left, maxBlocks)

\* blocks of the next command
chunk == IF dtd = "write" /\ writeAlignment <= maxBlocks
         THEN Lesser(left, limit - (lba % writeAlignment))
         ELSE Lesser(left, maxBlocks)

\* one command
TransferDMA ==
    /\ reqPc = "loop" /\ left > 0
    /\ last' = chunk /\ left' = left - chunk /\ lba' = lba + chunk
    /\ UNCHANGED <<dtd, start, total, reqPc>>

\* the request is done
Done ==
    /\ reqPc = "loop" /\ left = 0
    /\ reqPc' = "idle"
    /\ UNCHANGED <<dtd, start, total, lba, left, last>>

Next ==
    \/ \E d \in {"read", "write"}, from \in 0 .. Blocks, n \in 0 .. MaxRequest :
          TransferBlocks(d, from, n)
    \/ TransferDMA \/ Done

Spec == Init /\ [][Next]_vars /\ WF_vars(TransferDMA \/ Done)

-----------------------------------------------------------------------------

TypeOK ==
    /\ dtd \in {"read", "write"} /\ reqPc \in {"idle", "loop"}
    /\ start \in Nat /\ total \in Nat /\ lba \in Nat /\ left \in Nat /\ last \in Nat

\* What was moved and what is left are always the request, in order and within
\* the card; no command is larger than the DMA region.
Covered ==
    /\ lba + left = start + total /\ start <= lba
    /\ reqPc = "loop" => lba + left <= Blocks
    /\ last <= maxBlocks

\* "end each write command on a 16 KiB boundary": every command of a write but
\* the last one.
EndsOnBoundary ==
    dtd = "write" /\ writeAlignment <= maxBlocks /\ last > 0 /\ left > 0 =>
        lba % writeAlignment = 0

-----------------------------------------------------------------------------
(***************************************************************************)
(* The pure computations of the two SD/MMC drivers: descriptor tables,     *)
(* the number of blocks that fit the DMA region and requests in bytes.     *)
(* The state is an input, chosen anew by each step.                        *)
(***************************************************************************)

CONSTANTS
    BlockSize,      \* bytes of a block
    MaxLength,      \* admaMaxLength, ADMA_BD_MAX_LENGTH
    DescriptorSize, \* admaDescriptorSize
    MaxBlocks,      \* maxBlocksPerTransfer
    MaxBytes        \* bound: sizes, offsets and DMA memory

VARIABLES size, offset

mathVars == <<size, offset>>

CeilDiv(a, b) == (a + b - 1) \div b

-----------------------------------------------------------------------------
(* Descriptor tables, of both drivers.                                     *)

\* as below, for a mutant
InitShort[rest \in Nat] ==
    IF rest < MaxLength
    THEN <<[length |-> rest, end |-> TRUE]>>
    ELSE <<[length |-> MaxLength, end |-> FALSE]>> \o InitShort[rest - MaxLength]

\* admaDescriptor.init
AdmaInit[rest \in Nat] ==
    IF rest <= MaxLength
    THEN <<[length |-> rest, end |-> TRUE]>>
    ELSE <<[length |-> MaxLength, end |-> FALSE]>> \o AdmaInit[rest - MaxLength]

\* mutant: the last descriptor is never full
admaTableShort(s) == IF s = 0 THEN <<>> ELSE InitShort[s]

admaTable(s) == IF s = 0 THEN <<>> ELSE AdmaInit[s]

admaTableSize(s) == CeilDiv(s, MaxLength) * DescriptorSize

Tables == Seq([length : Nat, end : BOOLEAN])

\* address of a descriptor, relative to the buffer
Address[t \in Tables, i \in Nat] ==
    IF i <= 1 THEN 0 ELSE Address[t, i - 1] + t[i - 1].length

\* the loop of dmaBlockLimit
Limit[available \in Nat, b \in Nat] ==
    IF b = 0 \/ b * BlockSize + admaTableSize(b * BlockSize) <= available THEN b
    ELSE Limit[available, b - 1]

dmaBlockLimit(available) == Limit[available, Lesser(available \div BlockSize, MaxBlocks)]

-----------------------------------------------------------------------------
(* Read of both drivers: the first block, the number of blocks, and the    *)
(* part of the buffer that is returned.                                    *)

SdhciRead(off, n) ==
    LET blockOffset == off % BlockSize
        blocks == CeilDiv(blockOffset + n, BlockSize)
    IN  [from |-> off \div BlockSize, blocks |-> blocks,
         lo |-> blockOffset, hi |-> blockOffset + n]

usdhcBlocks(off, n) ==
    LET full == ((off % BlockSize) + n) \div BlockSize
    IN  IF full = 0 THEN 1 ELSE IF (off + n) % BlockSize # 0 THEN full + 1 ELSE full

\* mutant: the buffer is only cut if the size is not a number of blocks
UsdhcReadTrim(off, n) ==
    LET blocks == usdhcBlocks(off, n)
        cut == n % BlockSize > 0
    IN  [from |-> off \div BlockSize, blocks |-> blocks,
         lo |-> IF cut THEN off % BlockSize ELSE 0,
         hi |-> IF cut THEN (off % BlockSize) + n ELSE blocks * BlockSize]

\* of a high capacity card, which takes block numbers
UsdhcRead(off, n) ==
    LET blocks == usdhcBlocks(off, n)
        cut == off % BlockSize # 0 \/ n % BlockSize > 0
    IN  [from |-> off \div BlockSize, blocks |-> blocks,
         lo |-> IF cut THEN off % BlockSize ELSE 0,
         hi |-> IF cut THEN (off % BlockSize) + n ELSE blocks * BlockSize]

-----------------------------------------------------------------------------

MathInit == size = 1 /\ offset = 0

\* another request
Bytes == size' \in 0 .. MaxBytes /\ offset' \in 0 .. MaxBytes

MathNext ==
    \/ mathVars = <<1, 0>> /\ Bytes
    \/ size' = 1 /\ offset' = 0

MathSpec == MathInit /\ [][MathNext]_mathVars

-----------------------------------------------------------------------------

\* the descriptors of a table cover the buffer without a gap, none is empty or
\* too long, only the last one ends the table, and the table has the size that
\* was reserved for it
Covers(t) ==
    /\ Len(t) * DescriptorSize = admaTableSize(size)
    /\ \A i \in 1 .. Len(t) :
          /\ t[i].length \in 1 .. MaxLength
          /\ t[i].end = (i = Len(t))
    /\ size > 0 => Address[t, Len(t)] + t[Len(t)].length = size

\* the limit is the largest number of blocks that fit the DMA memory together
\* with their table
Largest(b) ==
    LET need(k) == k * BlockSize + admaTableSize(k * BlockSize)
    IN  /\ b > 0 => need(b) <= size
        /\ b < MaxBlocks => need(b + 1) > size

\* A transfer of as many blocks as admaTable and dmaBlockLimit allow fits the
\* DMA region with its table, and the table covers the buffer.
TablesFit == Covers(admaTable(size)) /\ Largest(dmaBlockLimit(size))

\* the result of a read is the request, within what was read, and no block is
\* read that is not needed
Exact(r, unit) ==
    /\ r.from * unit + r.lo = offset /\ r.hi - r.lo = size
    /\ r.hi <= r.blocks * BlockSize /\ r.hi > (r.blocks - 1) * BlockSize

\* Read of both drivers, each with its own arithmetic, returns the bytes that
\* were asked for.
BytesExact ==
    size > 0 => /\ Exact(SdhciRead(offset, size), BlockSize)
                /\ Exact(UsdhcRead(offset, size), BlockSize)

=============================================================================
