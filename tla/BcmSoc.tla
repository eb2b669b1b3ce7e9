------------------------------- MODULE BcmSoc -------------------------------
(***************************************************************************)
(* The services the BCM2835 SoC package shares between goroutines: calls   *)
(* of the VideoCore processor through a mailbox (soc/bcm2835/mailbox.go),  *)
(* copies by DMA channels (soc/bcm2835/dma.go) and GPIO lines, which share *)
(* registers (soc/bcm2835/gpio.go).  VideoCore answers in the buffer of    *)
(* the request, and also uses DMA channels of its own.                     *)
(***************************************************************************)
EXTENDS Naturals, Sequences, FiniteSets

CONSTANTS
    Callers,        \* goroutines
    Tags,           \* messages: sequences of tag buffer lengths, in bytes
    MailboxDepth,   \* messages the mailbox holds before it is full
    Channels, Available,    \* DMA channels; those VideoCore leaves to the CPU
    GpioLines, PerSelect, PerBank,  \* lines; fields of a GPFSEL register (10), bits of the others (32)
    Pulls, Functions,   \* arguments of PullUpDown and SelectFunction
    MaxBcmCalls     \* bound: calls of each goroutine

VARIABLES
    boxPc, message, bcmCalls,   \* by caller: its step, its tags, its calls
    buffer,                     \* by caller: the words at the offsets of its buffer
    lock, inbox, outbox,        \* the mailbox's mutex; messages either way
    response, panicked          \* by caller: the tags Call returned; a panic
VARIABLES
    allocated,              \* by channel
    holding, copyPc,        \* by caller: its channel, and the step of Copy
    block, running, end,    \* by channel: its control block, CS_ACTIVE and CS_END
    copied, used            \* by caller: its data has arrived; channels the CPU used
VARIABLES
    gpio,       \* registers GPFSEL, levels by bank, GPPUD, GPPUDCLK; the pulls of the lines; gpmu
    gpioCall,   \* by caller: the steps left of its call, its line and value, the register it read
    gpioAsked   \* by line: function, level and pull last asked for; lines in overlapping updates

mailboxVars == <<boxPc, message, bcmCalls, buffer, lock, inbox, outbox, response, panicked>>
dmaVars == <<allocated, holding, copyPc, block, running, end, copied, used>>
gpioVars == <<gpio, gpioCall, gpioAsked>>
vars == <<mailboxVars, dmaVars, gpioVars>>

None == "none"
NoChannel == 16

\* DMAController.Init
DmaInit == allocated = [ch \in Channels |-> ch \in Available]

Init ==
    /\ boxPc = [c \in Callers |-> "idle"] /\ message = [c \in Callers |-> << >>]
    /\ bcmCalls = [c \in Callers |-> 0] /\ buffer = [c \in Callers |-> << >>]
    /\ lock = None /\ inbox = << >> /\ outbox = << >>
    /\ response = [c \in Callers |-> << >>] /\ panicked = FALSE
    /\ DmaInit
    /\ holding = [c \in Callers |-> NoChannel] /\ copyPc = [c \in Callers |-> "idle"]
    /\ block = [ch \in Channels |-> None]
    /\ running = [ch \in Channels |-> FALSE] /\ end = [ch \in Channels |-> FALSE]
    /\ copied = [c \in Callers |-> FALSE] /\ used = {}

-----------------------------------------------------------------------------
(* The mailbox.                                                            *)

Padded(len) == 12 + ((len + 3) \div 4) * 4

\* the offset of tag k, or of the null tag after the last
TagOffset(tags, k) ==
    LET Sum[j \in 0 .. Len(tags)] == IF j = 0 THEN 8 ELSE Sum[j - 1] + Padded(tags[j]) IN Sum[k - 1]

\* what Call writes: at the offset of each tag its length, and the null tag, << >>
Encode(tags) ==
    [o \in {TagOffset(tags, k) : k \in 1 .. Len(tags) + 1} |->
        IF o = TagOffset(tags, Len(tags) + 1) THEN << >>
        ELSE << tags[CHOOSE k \in DOMAIN tags : TagOffset(tags, k) = o] >>]

\* mutant: the tags are read without their padding
DecodeUnpadded(buf) ==
    LET From[o \in Nat] == IF o \notin DOMAIN buf \/ buf[o] = << >> THEN << >>
                           ELSE buf[o] \o From[o + 12 + buf[o][1]]
    IN From[8]

\* how Call walks the answer
Decode(buf) ==
    LET From[o \in Nat] == IF o \notin DOMAIN buf \/ buf[o] = << >> THEN << >>
                           ELSE buf[o] \o From[o + Padded(buf[o][1])]
    IN From[8]

\* Call: the buffer is reserved for this call alone
Call(c, tags) ==
    /\ boxPc[c] = "idle" /\ bcmCalls[c] < MaxBcmCalls
    /\ bcmCalls' = [bcmCalls EXCEPT ![c] = @ + 1]
    /\ message' = [message EXCEPT ![c] = tags]
    /\ buffer' = [buffer EXCEPT ![c] = [state |-> "request", words |-> Encode(tags)]]
    /\ boxPc' = [boxPc EXCEPT ![c] = "lock"]
    /\ UNCHANGED <<lock, inbox, outbox, response, panicked, dmaVars>>

\* mutant: without the mutex
LockNot(c) ==
    /\ boxPc[c] = "lock"
    /\ lock' = c /\ boxPc' = [boxPc EXCEPT ![c] = "send"]
    /\ UNCHANGED <<message, bcmCalls, buffer, inbox, outbox, response, panicked, dmaVars>>

Lock(c) ==
    /\ boxPc[c] = "lock" /\ lock = None
    /\ lock' = c /\ boxPc' = [boxPc EXCEPT ![c] = "send"]
    /\ UNCHANGED <<message, bcmCalls, buffer, inbox, outbox, response, panicked, dmaVars>>

Send(c) ==
    /\ boxPc[c] = "send" /\ Len(inbox) < MailboxDepth
    /\ inbox' = Append(inbox, c) /\ boxPc' = [boxPc EXCEPT ![c] = "wait"]
    /\ UNCHANGED <<message, bcmCalls, buffer, lock, outbox, response, panicked, dmaVars>>

\* VideoCore answers one of the messages it has, in place
HwAnswer(k) ==
    /\ k \in DOMAIN inbox
    /\ buffer' = [buffer EXCEPT ![inbox[k]].state = "answer"]
    /\ outbox' = Append(outbox, inbox[k])
    /\ inbox' = SubSeq(inbox, 1, k - 1) \o SubSeq(inbox, k + 1, Len(inbox))
    /\ UNCHANGED <<boxPc, message, bcmCalls, lock, response, panicked, dmaVars>>

\* the answer is read, and compared with the request by address
ReadResponse(c) ==
    /\ boxPc[c] = "wait" /\ outbox # << >>
    /\ outbox' = Tail(outbox)
    /\ panicked' = (panicked \/ outbox[1] # c)
    /\ lock' = None
    /\ boxPc' = [boxPc EXCEPT ![c] = "unlocked"]
    /\ UNCHANGED <<message, bcmCalls, buffer, inbox, response, dmaVars>>

\* the tags are taken from the buffer, which is released
Return(c) ==
    /\ boxPc[c] = "unlocked"
    /\ response' = [response EXCEPT ![c] =
            [state |-> buffer[c].state, asked |-> message[c], tags |-> Decode(buffer[c].words)]]
    /\ buffer' = [buffer EXCEPT ![c] = << >>]
    /\ boxPc' = [boxPc EXCEPT ![c] = "idle"]
    /\ UNCHANGED <<message, bcmCalls, lock, inbox, outbox, panicked, dmaVars>>

MailboxNext ==
    \/ \E c \in Callers :
          (\E t \in Tags : Call(c, t)) \/ Lock(c) \/ Send(c) \/ ReadResponse(c) \/ Return(c)
    \/ \E k \in 1 .. MailboxDepth : HwAnswer(k)

-----------------------------------------------------------------------------
(* DMA channels.                                                           *)

\* the first channel that is not allocated; an error leaves all as it was
AllocChannel(c) ==
    /\ copyPc[c] = "idle" /\ holding[c] = NoChannel
    /\ \E ch \in Channels :
          /\ ~allocated[ch] /\ \A d \in Channels : d < ch => allocated[d]
          /\ allocated' = [allocated EXCEPT ![ch] = TRUE]
          /\ holding' = [holding EXCEPT ![c] = ch]
    /\ UNCHANGED <<copyPc, block, running, end, copied, used, mailboxVars>>

FreeChannel(c) ==
    /\ copyPc[c] = "idle" /\ holding[c] # NoChannel /\ allocated[holding[c]]
    /\ allocated' = [allocated EXCEPT ![holding[c]] = FALSE]
    /\ holding' = [holding EXCEPT ![c] = NoChannel]
    /\ UNCHANGED <<copyPc, block, running, end, copied, used, mailboxVars>>

\* mutant: the channel is not reset
CopyStale(c) ==
    /\ copyPc[c] = "idle" /\ holding[c] # NoChannel /\ bcmCalls[c] < MaxBcmCalls
    /\ LET ch == holding[c] IN
       /\ block' = [block EXCEPT ![ch] = c]
       /\ running' = [running EXCEPT ![ch] = TRUE]
       /\ used' = used \cup {ch} /\ UNCHANGED end
    /\ bcmCalls' = [bcmCalls EXCEPT ![c] = @ + 1]
    /\ copied' = [copied EXCEPT ![c] = FALSE]
    /\ copyPc' = [copyPc EXCEPT ![c] = "poll"]
    /\ UNCHANGED <<allocated, holding, boxPc, message, buffer, lock, inbox, outbox, response, panicked>>

\* Copy: the control block, a reset, which takes CS_END away, and CS_ACTIVE
Copy(c) ==
    /\ copyPc[c] = "idle" /\ holding[c] # NoChannel /\ bcmCalls[c] < MaxBcmCalls
    /\ LET ch == holding[c] IN
       /\ block' = [block EXCEPT ![ch] = c]
       /\ end' = [end EXCEPT ![ch] = FALSE]
       /\ running' = [running EXCEPT ![ch] = TRUE]
       /\ used' = used \cup {ch}
    /\ bcmCalls' = [bcmCalls EXCEPT ![c] = @ + 1]
    /\ copied' = [copied EXCEPT ![c] = FALSE]
    /\ copyPc' = [copyPc EXCEPT ![c] = "poll"]
    /\ UNCHANGED <<allocated, holding, boxPc, message, buffer, lock, inbox, outbox, response, panicked>>

\* the channel does what its block says
HwCopy(ch) ==
    /\ running[ch]
    /\ copied' = [copied EXCEPT ![block[ch]] = TRUE]
    /\ running' = [running EXCEPT ![ch] = FALSE] /\ end' = [end EXCEPT ![ch] = TRUE]
    /\ UNCHANGED <<allocated, holding, copyPc, block, used, mailboxVars>>

\* CS_END is seen, the control block is released
Ended(c) ==
    /\ copyPc[c] = "poll" /\ end[holding[c]]
    /\ copyPc' = [copyPc EXCEPT ![c] = "done"]
    /\ UNCHANGED <<allocated, holding, block, running, end, copied, used, mailboxVars>>

CopyReturn(c) ==
    /\ copyPc[c] = "done" /\ copyPc' = [copyPc EXCEPT ![c] = "idle"]
    /\ UNCHANGED <<allocated, holding, block, running, end, copied, used, mailboxVars>>

DmaNext ==
    \/ \E c \in Callers : AllocChannel(c) \/ FreeChannel(c) \/ Copy(c) \/ Ended(c) \/ CopyReturn(c)
    \/ \E ch \in Channels : HwCopy(ch)

-----------------------------------------------------------------------------
(* GPIO lines.                                                             *)

Select(num) == num \div PerSelect
Bank(num) == num \div PerBank
Idle == [steps |-> <<>>, num |-> 0, val |-> 0, read |-> <<>>]

GpioInit ==
    /\ gpio = [fsel |-> [g \in {Select(l) : l \in GpioLines} |-> [k \in 0 .. PerSelect - 1 |-> 0]],
               level |-> [b \in {Bank(l) : l \in GpioLines} |-> {}], clk |-> [b \in {Bank(l) : l \in GpioLines} |-> {}],
               pud |-> 0, pull |-> [l \in GpioLines |-> 0], gpmu |-> None]
    /\ gpioCall = [c \in Callers |-> Idle]
    /\ gpioAsked = [fn |-> [l \in GpioLines |-> 0], level |-> [l \in GpioLines |-> FALSE], pull |-> [l \in GpioLines |-> 0],
                    raced |-> {}]

GpioEnter(c, steps, num, val) ==
    /\ gpioCall[c].steps = <<>> /\ bcmCalls[c] < MaxBcmCalls
    /\ bcmCalls' = [bcmCalls EXCEPT ![c] = @ + 1]
    /\ gpioCall' = [gpioCall EXCEPT ![c] = [steps |-> steps, num |-> num, val |-> val, read |-> <<>>]]

\* the register is read and written without a lock
SelectFunction(c, num, n) ==
    /\ GpioEnter(c, <<"read", "write">>, num, n)
    /\ LET others == {d \in Callers \ {c} : gpioCall[d].steps # <<>> /\ Head(gpioCall[d].steps) \in {"read", "write"}
                                            /\ Select(gpioCall[d].num) = Select(num)}
       IN gpioAsked' = [gpioAsked EXCEPT !.fn[num] = n,
                            !.raced = @ \cup (IF others = {} THEN {} ELSE {l \in GpioLines : Select(l) = Select(num)})]
    /\ UNCHANGED gpio

\* High and Low write registers that set or clear the bits that are written as 1
SetLevel(c, num, high) ==
    /\ GpioEnter(c, <<>>, 0, 0)
    /\ gpio' = [gpio EXCEPT !.level[Bank(num)] = IF high THEN @ \cup {num % PerBank} ELSE @ \ {num % PerBank}]
    /\ gpioAsked' = [gpioAsked EXCEPT !.level[num] = high]

Value(num) == num % PerBank \in gpio.level[Bank(num)]
GetFunction(num) == gpio.fsel[Select(num)][num % PerSelect]

\* mutant: without gpmu
PullUpDownUnlocked(c, num, val) ==
    /\ GpioEnter(c, <<"control", "clock", "uncontrol", "unclock">>, num, val)
    /\ UNCHANGED <<gpio, gpioAsked>>

PullUpDown(c, num, val) ==
    /\ GpioEnter(c, <<"lock", "control", "clock", "uncontrol", "unclock">>, num, val)
    /\ UNCHANGED <<gpio, gpioAsked>>

\* a line takes the control signal when its clock comes; the last step also unlocks
GpioStep(c) ==
    LET g == gpioCall[c]
        o == Head(g.steps)
    IN  /\ g.steps # <<>>
        /\ o = "lock" => gpio.gpmu = None
        /\ gpio' = CASE o = "lock" -> [gpio EXCEPT !.gpmu = c]
                     [] o = "control" -> [gpio EXCEPT !.pud = g.val]
                     [] o = "clock" -> [gpio EXCEPT !.clk[Bank(g.num)] = {g.num % PerBank},
                                            !.pull = [l \in GpioLines |-> IF Bank(l) = Bank(g.num) /\ l % PerBank = g.num % PerBank
                                                                            /\ l % PerBank \notin gpio.clk[Bank(l)]
                                                                         THEN gpio.pud ELSE @[l]]]
                     [] o = "uncontrol" -> [gpio EXCEPT !.pud = 0]
                     [] o = "unclock" -> [gpio EXCEPT !.clk[Bank(g.num)] = {}, !.gpmu = None]
                     [] o = "read" -> gpio
                     [] o = "write" -> [gpio EXCEPT !.fsel[Select(g.num)] = [g.read EXCEPT ![g.num % PerSelect] = g.val]]
        /\ gpioAsked' = IF o = "clock" THEN [gpioAsked EXCEPT !.pull[g.num] = g.val] ELSE gpioAsked
        /\ gpioCall' = [gpioCall EXCEPT ![c] =
                            IF Tail(g.steps) = <<>> THEN Idle
                            ELSE [g EXCEPT !.steps = Tail(@), !.read = IF o = "read" THEN gpio.fsel[Select(g.num)] ELSE @]]
        /\ UNCHANGED bcmCalls

GpioNext ==
    /\ \E c \in Callers :
          \/ GpioStep(c)
          \/ \E num \in GpioLines :
                \/ \E n \in Functions : SelectFunction(c, num, n)
                \/ \E high \in BOOLEAN : SetLevel(c, num, high)
                \/ \E val \in Pulls : PullUpDown(c, num, val)
    /\ UNCHANGED <<boxPc, message, buffer, lock, inbox, outbox, response, panicked, dmaVars>>

-----------------------------------------------------------------------------

\* goroutines call all three services
Next == ((MailboxNext \/ DmaNext) /\ UNCHANGED gpioVars) \/ GpioNext

Spec == Init /\ GpioInit /\ [][Next]_vars

\* A call returns the answer to its own message, with the tags of that message.
AnswerOwn ==
    /\ ~panicked
    /\ \A c \in Callers : response[c] # << >> =>
          response[c].state = "answer" /\ response[c].tags = response[c].asked

\* A channel is used by the one goroutine that holds it, and Copy returns
\* when the data is there.
CopyOwn ==
    /\ \A c, d \in Callers : c # d /\ holding[c] # NoChannel => holding[c] # holding[d]
    /\ \A c \in Callers : copyPc[c] = "done" => copied[c]

\* The CPU only uses the channels that VideoCore makes available.
OnlyAvailable == used \subseteq Available

\* Calls for different GPIO lines leave each other alone, although the lines share
\* registers: the pull of every line is the one of the last call for it, as is its
\* level, and its function unless updates of its register overlap.
LinesOwn ==
    \A l \in GpioLines :
        /\ gpio.pull[l] = gpioAsked.pull[l]
        /\ Value(l) = gpioAsked.level[l]
        /\ l \notin gpioAsked.raced /\ (\A c \in Callers : gpioCall[c].steps = <<>>) => GetFunction(l) = gpioAsked.fn[l]

=============================================================================
