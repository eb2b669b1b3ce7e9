----------------------------- MODULE SerialBus ------------------------------
(***************************************************************************)
(* The TWI mode of the Microchip FLEXCOM and the ECSPI of NXP.             *)
(*                                                                         *)
(* TWI: each wait may end with a missing acknowledge or a time-out, and    *)
(* then the controller is reset.  SPI: the buffer goes through two FIFOs   *)
(* of words, the first of which is filled up where the length is no        *)
(* multiple of a word.                                                     *)
(*                                                                         *)
(* Bytes sent are numbered from 1, bytes received from 101.                *)
(***************************************************************************)
EXTENDS Integers, Sequences, SequencesExt, FiniteSetsExt

CONSTANTS
    TwiLengths, TwiAddresses,   \* lengths of buffers and of internal addresses
    MaxTwiCalls,                \* bound: calls
    SpiLengths, FifoWords,      \* lengths of buffers; words in a FIFO
    Channels, Modes,            \* chip selects and clock modes used
    MaxSpiCalls                 \* bound: transfers

VARIABLES
    tpc, twi, ti, tbuf,         \* step, call, index and buffer of Read and Write
    cwgr, ctl, holding,         \* clock register, controller, its data register
    wire, twiCalls,             \* what was on the bus in this call; calls made
    spc, spiLen, sbuf, tried,      \* step, length and buffer of Transfer; transfers made
    port,                       \* Channel and Mode
    pol, pha,                   \* configuration: bits of SCLK_POL and SCLK_PHA
    burst, xch, tc,             \* burst length, exchange requested, completed
    txWords, rxWords, mosi,     \* FIFOs; what was sent
    dirty                       \* a transfer has failed since Init

twiVars == <<tpc, twi, ti, tbuf, cwgr, ctl, holding, wire, twiCalls>>
spiVars == <<spc, spiLen, sbuf, tried, port, pol, pha, burst, xch, tc, txWords, rxWords, mosi, dirty>>

Min2(a, b) == IF a < b THEN a ELSE b
Take(s, n) == SubSeq(s, 1, Min2(n, Len(s)))

-----------------------------------------------------------------------------
(* TWI.                                                                    *)

\* the controller: what it is doing, STOP requested, NACK seen
Idle == [at |-> "idle", stop |-> FALSE, nack |-> FALSE]
None == 0

TwiInit ==
    /\ tpc = "off" /\ twi = [op |-> "none", alen |-> 0, n |-> 0] /\ ti = 0 /\ tbuf = <<>>
    /\ cwgr = "reset" /\ ctl = Idle /\ holding = None /\ wire = <<>> /\ twiCalls = 0

\* mutant: the clock is set only once
ResetClockLost == cwgr' = "reset" /\ ctl' = Idle /\ holding' = None

\* SWRST, which resets the clock register as well, the clock, MSEN
reset == cwgr' = "configured" /\ ctl' = Idle /\ holding' = None

Initialize ==
    /\ tpc = "off" /\ tpc' = "idle" /\ reset
    /\ UNCHANGED <<twi, ti, tbuf, wire, twiCalls>>

\* configure fails, or the buffer is empty
Rejected(op, alen, n) ==
    /\ tpc = "idle" /\ twiCalls < MaxTwiCalls
    /\ n = 0 \/ alen \notin 0 .. 3
    /\ twiCalls' = twiCalls + 1 /\ wire' = <<>>
    /\ twi' = [op |-> op, alen |-> alen, n |-> 0]
    /\ UNCHANGED <<tpc, ti, tbuf, cwgr, ctl, holding>>

\* configure, and the read of the status that clears an old NACK
ReadOrWrite(op, alen, n) ==
    /\ tpc = "idle" /\ twiCalls < MaxTwiCalls
    /\ n > 0 /\ alen \in 0 .. 3
    /\ twiCalls' = twiCalls + 1 /\ wire' = <<>>
    /\ twi' = [op |-> op, alen |-> alen, n |-> n] /\ ti' = 1
    /\ tbuf' = IF op = "read" THEN <<>> ELSE [k \in 1 .. n |-> k]
    /\ ctl' = [ctl EXCEPT !.nack = FALSE] /\ tpc' = "byte"
    /\ UNCHANGED <<cwgr, holding>>

\* mutant: START with every byte
ReadByteStarts ==
    /\ tpc = "byte" /\ twi.op = "read" /\ tpc' = "wait"
    /\ ctl' = [ctl EXCEPT !.at = "start", !.stop = @ \/ ti = twi.n]
    /\ UNCHANGED <<twi, ti, tbuf, cwgr, holding, wire, twiCalls>>

\* the control register: START with the first byte, STOP with the last
ReadByte ==
    /\ tpc = "byte" /\ twi.op = "read" /\ tpc' = "wait"
    /\ ctl' = [ctl EXCEPT !.at = IF ti = 1 THEN "start" ELSE @, !.stop = @ \/ ti = twi.n]
    /\ UNCHANGED <<twi, ti, tbuf, cwgr, holding, wire, twiCalls>>

\* THR, which starts with the first byte; then STOP with the last
WriteByte ==
    /\ tpc = "byte" /\ twi.op = "write" /\ tpc' = "wait"
    /\ ctl' = [ctl EXCEPT !.at = IF ti = 1 THEN "start" ELSE @, !.stop = @ \/ ti = twi.n]
    /\ holding' = tbuf[ti]
    /\ UNCHANGED <<twi, ti, tbuf, cwgr, wire, twiCalls>>

Ended(ok) == tpc' = (IF ok THEN "ok" ELSE "failed") /\ UNCHANGED <<twi, twiCalls, wire, ti, tbuf>>

\* wait: NACK, which is looked at first, or time-out
WaitFails ==
    /\ tpc \in {"wait", "complete"}
    /\ reset /\ Ended(FALSE)

Ready == tpc = "wait" /\ ~ctl.nack
         /\ IF twi.op = "read" THEN holding # None ELSE holding = None /\ ctl.at # "start"

\* RXRDY and RHR, or TXRDY; on to the next byte
WaitReady ==
    /\ Ready
    /\ tbuf' = IF twi.op = "read" THEN Append(tbuf, holding) ELSE tbuf
    /\ holding' = None
    /\ ti' = ti + 1 /\ tpc' = IF ti = twi.n THEN "complete" ELSE "byte"
    /\ UNCHANGED <<twi, cwgr, ctl, wire, twiCalls>>

\* TXCOMP
WaitComplete ==
    /\ tpc = "complete" /\ ~ctl.nack /\ ctl.at = "idle" /\ holding = None
    /\ Ended(TRUE) /\ UNCHANGED <<cwgr, ctl, holding>>

\* the call returns
TwiReturn ==
    /\ tpc \in {"ok", "failed"} /\ tpc' = "idle"
    /\ UNCHANGED <<twi, ti, tbuf, cwgr, ctl, holding, wire, twiCalls>>

\* The controller: START, the target and the internal address, or no acknowledge.
\* For a read with an internal address the target is addressed twice.
HwTwiStart ==
    /\ ctl.at = "start" /\ ~ctl.nack
    /\ wire' = wire \o <<"S">> \o
                 (IF twi.op = "read" /\ twi.alen = 0 THEN <<"R">>
                  ELSE <<"W">> \o [k \in 1 .. twi.alen |-> "A"]
                         \o (IF twi.op = "read" THEN <<"S", "R">> ELSE <<>>))
    /\ ctl' = [ctl EXCEPT !.at = "data"]
    /\ UNCHANGED <<tpc, twi, ti, tbuf, cwgr, holding, twiCalls>>

HwNack ==
    /\ ctl.at # "idle" /\ ~ctl.nack
    /\ ctl' = [ctl EXCEPT !.at = "idle", !.nack = TRUE, !.stop = FALSE] /\ holding' = None
    /\ UNCHANGED <<tpc, twi, ti, tbuf, cwgr, wire, twiCalls>>

Datum == 100 + Len(SelectSeq(wire, LAMBDA x : x = "D")) + 1

\* A byte: the controller waits for RHR to be read, and for what the driver writes
\* to the control register then, before the next.  After a byte with STOP, stop.
HwByte ==
    /\ ctl.at = "data"
    /\ IF twi.op = "read"
       THEN holding = None /\ tpc = "wait" /\ holding' = Datum
       ELSE holding # None /\ holding' = None
    /\ wire' = Append(wire, "D") \o (IF ctl.stop THEN <<"P">> ELSE <<>>)
    /\ ctl' = IF ctl.stop THEN Idle ELSE ctl
    /\ UNCHANGED <<tpc, twi, ti, tbuf, cwgr, twiCalls>>

TwiNext ==
    \/ Initialize
    \/ \E op \in {"read", "write"}, alen \in TwiAddresses, n \in TwiLengths :
           Rejected(op, alen, n) \/ ReadOrWrite(op, alen, n)
    \/ ReadByte \/ WriteByte \/ WaitFails \/ WaitReady \/ WaitComplete \/ TwiReturn
    \/ HwTwiStart \/ HwNack \/ HwByte

-----------------------------------------------------------------------------
(* SPI.                                                                    *)

Out(n) == [k \in 1 .. n |-> k]
In(n) == [k \in 1 .. n |-> 100 + k]

\* the words of a buffer as they are written: the first one filled up from the left
Pad(n) == [k \in 1 .. ((4 - (n % 4)) % 4) |-> 0]
WordsOf(b) ==
    LET all == Pad(Len(b)) \o b
    IN  [w \in 1 .. Len(all) \div 4 |-> SubSeq(all, 4 * w - 3, 4 * w)]

SpiInit ==
    /\ spc = "off" /\ spiLen = 0 /\ sbuf = <<>> /\ tried = 0
    /\ port = [channel |-> 0, mode |-> 0] /\ pol = {} /\ pha = {}
    /\ burst = 8 /\ xch = FALSE /\ tc = FALSE
    /\ txWords = <<>> /\ rxWords = <<>> /\ mosi = <<>> /\ dirty = FALSE

\* Init: EN cleared empties the FIFOs
EcspiInit ==
    /\ spc = "off" \/ (spc = "idle" /\ dirty)
    /\ spc' = "idle" /\ dirty' = FALSE
    /\ txWords' = <<>> /\ rxWords' = <<>> /\ xch' = FALSE /\ tc' = FALSE /\ burst' = 8
    /\ UNCHANGED <<spiLen, sbuf, tried, port, pol, pha, mosi>>

\* SetN of the whole field with the mask 1 << Channel and a value that is not shifted
SetBit(field, channel, value) == (field \ {channel}) \cup (IF value = 1 THEN {0} ELSE {})

Configure(n, c, m) ==
    /\ port' = [channel |-> c, mode |-> m]
    /\ burst' = 8 * n
    /\ pol' = SetBit(pol, c, m \div 2)
    /\ pha' = SetBit(pha, c, m % 2)

BadChannel(c) ==
    /\ spc = "idle" /\ tried < MaxSpiCalls /\ c \notin 0 .. 3
    /\ tried' = tried + 1
    /\ UNCHANGED <<spc, spiLen, sbuf, port, pol, pha, burst, xch, tc, txWords, rxWords, mosi, dirty>>

\* mutant: the first word is filled up from the right
TransferPadRight(n, c, m) ==
    /\ spc = "idle" /\ tried < MaxSpiCalls /\ c \in 0 .. 3
    /\ tried' = tried + 1 /\ spiLen' = n /\ sbuf' = Out(n) /\ mosi' = <<>>
    /\ Configure(n, c, m)
    /\ LET all == Out(n) \o Pad(n)
           words == [w \in 1 .. Len(all) \div 4 |-> SubSeq(all, 4 * w - 3, 4 * w)]
           room == FifoWords - Len(txWords)
       IN  /\ txWords' = txWords \o Take(words, room)
           /\ spc' = IF Len(words) > room THEN "failed" ELSE "exchange"
           /\ xch' = (xch \/ Len(words) <= room)
    /\ UNCHANGED <<tc, rxWords, dirty>>

\* The FIFO is filled until a word finds it full, which ends the call; else XCH.
Transfer(n, c, m) ==
    /\ spc = "idle" /\ tried < MaxSpiCalls /\ c \in 0 .. 3
    /\ tried' = tried + 1 /\ spiLen' = n /\ sbuf' = Out(n) /\ mosi' = <<>>
    /\ Configure(n, c, m)
    /\ LET words == WordsOf(Out(n))
           room == FifoWords - Len(txWords)
       IN  /\ txWords' = txWords \o Take(words, room)
           /\ spc' = IF Len(words) > room THEN "failed" ELSE "exchange"
           /\ xch' = (xch \/ Len(words) <= room)
    /\ UNCHANGED <<tc, rxWords, dirty>>

\* XCH cleared, then TC; either wait may time out
WaitXch ==
    /\ spc = "exchange"
    /\ \/ ~xch /\ spc' = "transfer"
       \/ spc' = "failed"
    /\ UNCHANGED <<spiLen, sbuf, tried, port, pol, pha, burst, xch, tc, txWords, rxWords, mosi, dirty>>

WaitTc ==
    /\ spc = "transfer"
    /\ \/ tc /\ spc' = "response"
       \/ spc' = "failed"
    /\ UNCHANGED <<spiLen, sbuf, tried, port, pol, pha, burst, xch, tc, txWords, rxWords, mosi, dirty>>

Overwrite(b, i, w) == [k \in DOMAIN b |-> IF k - i \in 1 .. Len(w) THEN w[k - i] ELSE b[k]]

\* The response word by word: the first one is copied to the start of the buffer as
\* it is, and the ones that follow go where the rest of the buffer starts.
ReadWords(n, words) ==
    LET first == n % 4
        start == IF first = 0 THEN 0 ELSE first - 4
        put[k \in 0 .. Len(words)] ==
            IF k = 0 THEN Out(n)
            ELSE LET at == start + 4 * (k - 1)
                 IN  Overwrite(put[k - 1], IF at < 0 THEN 0 ELSE at, words[k])
    IN  put[Len(words)]

Response ==
    /\ spc = "response"
    /\ LET words == Take(rxWords, Len(WordsOf(Out(spiLen))))
       IN  /\ sbuf' = ReadWords(spiLen, words)
           /\ rxWords' = SubSeq(rxWords, Len(words) + 1, Len(rxWords))
    /\ tc' = FALSE /\ spc' = "ok"
    /\ UNCHANGED <<spiLen, tried, port, pol, pha, burst, xch, txWords, mosi, dirty>>

TransferReturn ==
    /\ spc \in {"ok", "failed"} /\ spc' = "idle" /\ dirty' = (dirty \/ spc = "failed")
    /\ UNCHANGED <<spiLen, sbuf, tried, port, pol, pha, burst, xch, tc, txWords, rxWords, mosi>>

\* The controller: a burst of a number of bits that does not divide by 32 takes
\* the low bits of the first word and all of those that follow, and fills the
\* words received in the same way.
HwExchange ==
    /\ xch /\ xch' = FALSE /\ tc' = TRUE
    /\ LET n == burst \div 8
           words == Len(WordsOf(In(n)))
           taken == Take(txWords, words)
       IN  /\ mosi' = SubSeq(FlattenSeq(taken), Len(Pad(n)) + 1, 4 * Len(taken))
           /\ txWords' = SubSeq(txWords, Len(taken) + 1, Len(txWords))
           /\ rxWords' = Take(rxWords \o WordsOf(In(n)), FifoWords)
    /\ UNCHANGED <<spc, spiLen, sbuf, tried, port, pol, pha, burst, dirty>>

SpiNext ==
    \/ EcspiInit
    \/ \E c \in Channels : \/ BadChannel(c)
                           \/ \E n \in SpiLengths, m \in Modes : Transfer(n, c, m)
    \/ WaitXch \/ WaitTc \/ Response \/ TransferReturn \/ HwExchange

-----------------------------------------------------------------------------
(* Properties.                                                             *)

\* the frames the documentation of Read and Write gives
TwiFrame ==
    LET data == [k \in 1 .. twi.n |-> "D"]
        addr == [k \in 1 .. twi.alen |-> "A"]
    IN  <<"S">> \o (IF twi.op = "write" THEN <<"W">> \o addr
                    ELSE IF twi.alen = 0 THEN <<"R">> ELSE <<"W">> \o addr \o <<"S", "R">>)
        \o data \o <<"P">>

\* A TWI call that returns no error has put exactly its frame on the bus: the
\* target, the internal address, its bytes and one stop.  A read has all its bytes
\* in order.  Between calls the controller is idle with its clock set, whatever
\* way the last call failed.
TwiExact ==
    /\ tpc = "ok" => /\ wire = TwiFrame
                     /\ twi.op = "read" => tbuf = In(twi.n)
    /\ tpc = "idle" => cwgr = "configured" /\ ctl.at = "idle" /\ ~ctl.stop /\ holding = None

\* A transfer with no failed one since Init has sent the bytes of its buffer in
\* order, and nothing else.  If they fill whole words, the buffer has the bytes
\* received, and nothing is left in a FIFO for the next transfer.
SpiExact ==
    spc = "ok" /\ ~dirty =>
        /\ mosi = Out(spiLen)
        /\ spiLen % 4 = 0 => sbuf = In(spiLen)
        /\ txWords = <<>> /\ rxWords = <<>>

\* The buses as the drivers of devices see them: both of the above.
TransfersExact == TwiExact /\ SpiExact

\* "Transfer performs a full-duplex SPI exchange in-place.  On return, buf contains
\* the received bytes."
ReceivedBytes == spc = "ok" /\ ~dirty => sbuf = In(spiLen)

\* "Mode defines the clock polarization mode" of the chip select that Channel names.
ModeApplied ==
    spc = "exchange" => /\ (port.channel \in pol) = (port.mode \div 2 = 1)
                        /\ (port.channel \in pha) = (port.mode % 2 = 1)
-----------------------------------------------------------------------------
(***************************************************************************)
(* The NXP I2C controller driver (soc/nxp/i2c/i2c.go) as the only master   *)
(* of its bus: Read and Write, one at a time under the mutex, wait for     *)
(* each byte, and any wait may time out while the controller goes on.      *)
(*                                                                         *)
(* The wire records what the last transaction did: start and repeated      *)
(* start, bytes with the acknowledgement they got, and stop.  A target may *)
(* refuse any byte.  The controller ends a byte before it gives up the bus.*)
(***************************************************************************)

CONSTANTS
    AddressLengths, \* alen, NoAddress for a negative one
    ReadSizes, WriteSizes,  \* lengths of the data
    MaxTransactions \* bound

VARIABLES
    ipc, op, alen, len,     \* the step; "read" or "write" and its arguments
    queue, buf,             \* bytes to be sent, or a restart; bytes received
    outcome,                \* of the last call
    msta, mtx, txak,        \* I2CR
    ibb, iif, rxak, dr,     \* I2SR; I2DR, the last byte received
    shift,                  \* what the controller is at: "none" or a byte
    onBus, sentBytes,       \* the bus; bytes that the target has sent
    transactions

caller == <<op, alen, len, transactions>>
i2cVars == <<ipc, caller, queue, buf, outcome, msta, mtx, txak, ibb, iif, rxak, dr, shift, onBus, sentBytes>>

NoAddress == 9      \* alen < 0

I2cInit ==
    /\ ipc = "idle" /\ op = "read" /\ alen = 0 /\ len = 0 /\ queue = << >> /\ buf = << >>
    /\ outcome = "none" /\ msta = FALSE /\ mtx = FALSE /\ txak = FALSE
    /\ ibb = FALSE /\ iif = FALSE /\ rxak = FALSE /\ dr = 0 /\ shift = "none"
    /\ onBus = << >> /\ sentBytes = 0 /\ transactions = 0

-----------------------------------------------------------------------------
(* The driver.                                                             *)

\* txAddress: the target with R/W unset, the register address
Address(n) == << "W" >> \o [k \in 1 .. n |-> "addr"]

Call(o, a, n) ==
    /\ ipc = "idle" /\ transactions < MaxTransactions /\ transactions' = transactions + 1
    /\ o = "write" => a # NoAddress
    /\ op' = o /\ alen' = a /\ len' = n
    /\ queue' = IF o = "write" THEN Address(a) \o [k \in 1 .. n |-> "data"]
                ELSE IF a \in {0, NoAddress} THEN << "R" >> ELSE Address(a) \o << "Sr", "R" >>
    /\ buf' = << >> /\ outcome' = "none"
    /\ ipc' = "free?"
    /\ UNCHANGED <<msta, mtx, txak, ibb, iif, rxak, dr, shift, onBus, sentBytes>>

\* start(false): wait for the bus, or give up
WaitFree ==
    /\ ipc = "free?" /\ ~ibb
    /\ msta' = TRUE /\ ipc' = "busy?"
    /\ UNCHANGED <<caller, queue, buf, outcome, mtx, txak, ibb, iif, rxak, dr, shift, onBus, sentBytes>>

NotFree ==
    /\ ipc = "free?"
    /\ outcome' = "error" /\ ipc' = "idle"
    /\ UNCHANGED <<caller, queue, buf, msta, mtx, txak, ibb, iif, rxak, dr, shift, onBus, sentBytes>>

WaitBusy ==
    /\ ipc = "busy?" /\ ibb
    /\ mtx' = TRUE /\ ipc' = "tx"
    /\ UNCHANGED <<caller, queue, buf, outcome, msta, txak, ibb, iif, rxak, dr, shift, onBus, sentBytes>>

\* mutant: master mode is left on
NotBusyMaster ==
    /\ ipc = "busy?"
    /\ outcome' = "error" /\ ipc' = "idle"
    /\ UNCHANGED <<caller, queue, buf, msta, mtx, txak, ibb, iif, rxak, dr, shift, onBus, sentBytes>>

NotBusy ==
    /\ ipc = "busy?"
    /\ msta' = FALSE
    /\ outcome' = "error" /\ ipc' = "idle"
    /\ UNCHANGED <<caller, queue, buf, mtx, txak, ibb, iif, rxak, dr, shift, onBus, sentBytes>>

\* txAddress refuses the length, when the bus has been taken
InvalidAddress ==
    /\ ipc = "tx" /\ alen > 4 /\ alen # NoAddress
    /\ outcome' = "error" /\ ipc' = "stop"
    /\ UNCHANGED <<caller, queue, buf, msta, mtx, txak, ibb, iif, rxak, dr, shift, onBus, sentBytes>>

\* tx: the next byte is written
tx ==
    /\ ipc = "tx" /\ (alen <= 4 \/ alen = NoAddress) /\ queue # << >> /\ Head(queue) # "Sr"
    /\ iif' = FALSE /\ shift' = Head(queue) /\ queue' = Tail(queue)
    /\ ipc' = "sent?"
    /\ UNCHANGED <<caller, buf, outcome, msta, mtx, txak, ibb, rxak, dr, onBus, sentBytes>>

Acknowledged ==
    /\ ipc = "sent?" /\ iif /\ ~rxak
    /\ ipc' = "tx"
    /\ UNCHANGED <<caller, queue, buf, outcome, msta, mtx, txak, ibb, iif, rxak, dr, shift, onBus, sentBytes>>

\* start(true), which finds the bus busy
Restart ==
    /\ ipc = "tx" /\ queue # << >> /\ Head(queue) = "Sr"
    /\ onBus' = Append(onBus, "Sr") /\ queue' = Tail(queue)
    /\ UNCHANGED <<ipc, caller, buf, outcome, msta, mtx, txak, ibb, iif, rxak, dr, shift, sentBytes>>

\* rx: the dummy read starts the first byte, not acknowledged if it is the only one
rx ==
    /\ ipc = "tx" /\ queue = << >> /\ op = "read"
    /\ mtx' = FALSE /\ txak' = (len = 1)
    /\ iif' = FALSE /\ shift' = "receive"
    /\ ipc' = IF len = 0 THEN "stop" ELSE "received?"
    /\ UNCHANGED <<caller, queue, buf, outcome, msta, ibb, rxak, dr, onBus, sentBytes>>

\* mutant: the acknowledgement is withheld from the last byte but two
ReceivedLate ==
    /\ ipc = "received?" /\ iif
    /\ LET i == Len(buf) IN
       /\ txak' = (txak \/ i + 3 = len)
       /\ IF i + 1 = len THEN msta' = FALSE /\ mtx' = FALSE ELSE UNCHANGED <<msta, mtx>>
       /\ shift' = IF i + 1 = len THEN "none" ELSE "receive"
       /\ ipc' = IF i + 1 = len THEN "stop" ELSE "received?"
    /\ buf' = Append(buf, dr) /\ iif' = FALSE
    /\ UNCHANGED <<caller, queue, outcome, ibb, rxak, dr, onBus, sentBytes>>

\* reading a byte starts the next one: the last but one is told not to be
\* acknowledged after, the last is read when the bus was given up
Received ==
    /\ ipc = "received?" /\ iif
    /\ LET i == Len(buf) IN
       /\ txak' = (txak \/ i + 2 = len)
       /\ IF i + 1 = len THEN msta' = FALSE /\ mtx' = FALSE ELSE UNCHANGED <<msta, mtx>>
       /\ shift' = IF i + 1 = len THEN "none" ELSE "receive"
       /\ ipc' = IF i + 1 = len THEN "stop" ELSE "received?"
    /\ buf' = Append(buf, dr) /\ iif' = FALSE
    /\ UNCHANGED <<caller, queue, outcome, ibb, rxak, dr, onBus, sentBytes>>

\* a refused byte, or no byte in time
Error ==
    /\ \/ ipc = "sent?" /\ (rxak \/ ~iif)
       \/ ipc = "received?" /\ ~iif
    /\ outcome' = "error" /\ ipc' = "stop"
    /\ UNCHANGED <<caller, queue, buf, msta, mtx, txak, ibb, iif, rxak, dr, shift, onBus, sentBytes>>

Written ==
    /\ ipc = "tx" /\ queue = << >> /\ op = "write"
    /\ ipc' = "stop"
    /\ UNCHANGED <<caller, queue, buf, outcome, msta, mtx, txak, ibb, iif, rxak, dr, shift, onBus, sentBytes>>

\* the deferred stop
stop ==
    /\ ipc = "stop"
    /\ msta' = FALSE /\ mtx' = FALSE
    /\ outcome' = IF outcome = "none" THEN "ok" ELSE outcome
    /\ ipc' = "idle"
    /\ UNCHANGED <<caller, queue, buf, txak, ibb, iif, rxak, dr, shift, onBus, sentBytes>>

-----------------------------------------------------------------------------
(* The controller and the target.                                          *)

HwStart ==
    /\ msta /\ ~ibb
    /\ ibb' = TRUE /\ onBus' = << "S" >> /\ sentBytes' = 0
    /\ UNCHANGED <<ipc, caller, queue, buf, outcome, msta, mtx, txak, iif, rxak, dr, shift>>

HwSend(refused) ==
    /\ shift \notin {"none", "receive"} /\ ibb
    /\ onBus' = onBus \o << shift >> \o (IF refused THEN << "nack" >> ELSE << >>)
    /\ rxak' = refused /\ iif' = TRUE /\ shift' = "none"
    /\ UNCHANGED <<ipc, caller, queue, buf, outcome, msta, mtx, txak, ibb, dr, sentBytes>>

HwReceive ==
    /\ shift = "receive" /\ ibb
    /\ sentBytes' = sentBytes + 1 /\ dr' = sentBytes + 1
    /\ onBus' = Append(onBus, IF txak THEN "last" ELSE "byte")
    /\ iif' = TRUE /\ shift' = "none"
    /\ UNCHANGED <<ipc, caller, queue, buf, outcome, msta, mtx, txak, ibb, rxak>>

HwStop ==
    /\ ~msta /\ ibb /\ shift = "none"
    /\ ibb' = FALSE /\ onBus' = Append(onBus, "P")
    /\ UNCHANGED <<ipc, caller, queue, buf, outcome, msta, mtx, txak, iif, rxak, dr, shift, sentBytes>>

I2cNext ==
    \/ \E a \in AddressLengths :
         \/ \E n \in ReadSizes : Call("read", a, n)
         \/ \E n \in WriteSizes : Call("write", a, n)
    \/ WaitFree \/ NotFree \/ WaitBusy \/ NotBusy \/ InvalidAddress \/ tx \/ Acknowledged \/ Restart \/ rx
    \/ Received \/ Error \/ Written \/ stop
    \/ HwStart \/ HwReceive \/ HwStop
    \/ \E refused \in BOOLEAN : HwSend(refused)

I2cSpec == I2cInit /\ [][I2cNext]_i2cVars

-----------------------------------------------------------------------------

\* what a transaction looks like on the bus, but for the stop
Transaction ==
    << "S" >> \o
    IF op = "write" THEN Address(alen) \o [k \in 1 .. len |-> "data"]
    ELSE (IF alen \in {0, NoAddress} THEN << >> ELSE Address(alen) \o << "Sr" >>)
         \o << "R" >> \o [k \in 1 .. len |-> IF k = len THEN "last" ELSE "byte"]

\* A call that returns without error has done its whole transaction on the bus and
\* nothing else, whatever earlier calls left behind: the target sends exactly the
\* bytes that are returned, and knows which one is the last.
BusExact ==
    ipc = "idle" /\ outcome = "ok" =>
        /\ onBus \in {Transaction, Append(Transaction, "P")}
        /\ op = "read" => buf = [k \in 1 .. len |-> k]

\* Every call gives up the bus.
BusReleased == ipc = "idle" => ~msta /\ ~mtx

=============================================================================
