----------------------------- MODULE BcmProofs ------------------------------
(***************************************************************************)
(* Proof that goroutines that share the mailbox, the DMA channels and the  *)
(* GPIO registers of BcmSoc get the result of their own calls.             *)
(***************************************************************************)
EXTENDS Naturals, Sequences, ModFacts, TLAPS

CONSTANTS Callers, Tags, MailboxDepth, Channels, Available, MaxBcmCalls
CONSTANTS GpioLines, PerSelect, PerBank, Pulls, Functions

VARIABLES boxPc, message, bcmCalls, buffer, lock, inbox, outbox, response, panicked,
          allocated, holding, copyPc, block, running, end, copied, used
VARIABLES gpio, gpioCall, gpioAsked

Bcm == INSTANCE BcmSoc

\* Goroutines are none of the values that stand for nobody, there are 16 channels at
\* most, tags have buffers of some bytes each, and registers hold fields of some lines.
BcmConstants ==
    /\ "none" \notin Callers
    /\ Channels \subseteq 0 .. 15
    /\ Tags \subseteq Seq(Nat)
    /\ GpioLines \subseteq Nat
    /\ PerSelect \in Nat \ {0} /\ PerBank \in Nat \ {0}
ASSUME BcmAssumption == BcmConstants

-----------------------------------------------------------------------------
(* Copies by DMA channels.                                                 *)

\* The inductive invariant of the DMA channels: a channel that runs does the copy of
\* the one goroutine that holds it and waits, and has not ended; once it has ended, the
\* data of that goroutine is there.
DmaInv ==
    /\ allocated \in [Channels -> BOOLEAN]
    /\ holding \in [Callers -> Channels \cup {Bcm!NoChannel}]
    /\ copyPc \in [Callers -> {"idle", "poll", "done"}]
    /\ block \in [Channels -> Callers \cup {Bcm!None}]
    /\ running \in [Channels -> BOOLEAN] /\ end \in [Channels -> BOOLEAN]
    /\ copied \in [Callers -> BOOLEAN]
    /\ \A c, d \in Callers : c # d /\ holding[c] # Bcm!NoChannel => holding[c] # holding[d]
    /\ \A c \in Callers : holding[c] # Bcm!NoChannel => allocated[holding[c]]
    /\ \A c \in Callers : copyPc[c] # "idle" => holding[c] # Bcm!NoChannel
    /\ \A ch \in Channels : running[ch] =>
          ~end[ch] /\ block[ch] \in Callers /\ holding[block[ch]] = ch /\ copyPc[block[ch]] = "poll"
    /\ \A c \in Callers : copyPc[c] = "poll" /\ end[holding[c]] => copied[c]
    /\ \A c \in Callers : copyPc[c] = "done" => copied[c]

\* No channel has the number that stands for none.
LEMMA ChannelNumbers == Bcm!NoChannel \notin Channels
BY BcmAssumption DEF BcmConstants, Bcm!NoChannel

\* No channel runs at first.
LEMMA DmaStart == Bcm!Init => DmaInv
BY ChannelNumbers DEF Bcm!Init, Bcm!DmaInit, DmaInv

\* Each step of the goroutines and of the channels keeps the invariant.
LEMMA DmaStep == DmaInv /\ Bcm!DmaNext => DmaInv'
<1> SUFFICES ASSUME DmaInv, Bcm!DmaNext PROVE DmaInv'
  OBVIOUS
<1> USE ChannelNumbers
<1>1. ASSUME NEW c \in Callers, Bcm!AllocChannel(c) PROVE DmaInv'
  <2>1. PICK ch \in Channels : ~allocated[ch] /\ allocated' = [allocated EXCEPT ![ch] = TRUE]
                               /\ holding' = [holding EXCEPT ![c] = ch]
    BY <1>1, Zenon DEF Bcm!AllocChannel
  <2>2. copyPc[c] = "idle" /\ UNCHANGED <<copyPc, block, running, end, copied>>
    BY <1>1 DEF Bcm!AllocChannel
  <2>3. \A d \in Callers : holding[d] # ch
    BY <2>1 DEF DmaInv
  <2>4. \A d \in Callers : copyPc[d] # "idle" => holding'[d] = holding[d]
    BY <2>1, <2>2 DEF DmaInv
  <2>5. QED
    BY <2>1, <2>2, <2>3, <2>4 DEF DmaInv
<1>2. ASSUME NEW c \in Callers, Bcm!FreeChannel(c) PROVE DmaInv'
  BY <1>2 DEF Bcm!FreeChannel, DmaInv
<1>3. ASSUME NEW c \in Callers, Bcm!Copy(c) PROVE DmaInv'
  <2>1. PICK ch \in Channels : ch = holding[c]
    BY <1>3 DEF Bcm!Copy, DmaInv
  <2>2. /\ copyPc[c] = "idle" /\ holding' = holding /\ allocated' = allocated
        /\ block' = [block EXCEPT ![ch] = c] /\ end' = [end EXCEPT ![ch] = FALSE]
        /\ running' = [running EXCEPT ![ch] = TRUE] /\ copied' = [copied EXCEPT ![c] = FALSE]
        /\ copyPc' = [copyPc EXCEPT ![c] = "poll"]
    BY <1>3, <2>1 DEF Bcm!Copy
  <2>3. \A d \in Callers : d # c => holding[d] # ch
    BY <2>1 DEF DmaInv
  <2>4. \A k \in Channels : k # ch /\ running[k] => block[k] # c
    BY <2>2 DEF DmaInv
  <2>5. QED
    BY <2>1, <2>2, <2>3, <2>4 DEF DmaInv
<1>4. ASSUME NEW c \in Callers, Bcm!Ended(c) PROVE DmaInv'
  <2>1. ~running[holding[c]]
    BY <1>4 DEF Bcm!Ended, DmaInv
  <2>2. \A k \in Channels : running[k] => block[k] # c
    BY <2>1 DEF DmaInv
  <2>3. QED
    BY <1>4, <2>2 DEF Bcm!Ended, DmaInv
<1>5. ASSUME NEW c \in Callers, Bcm!CopyReturn(c) PROVE DmaInv'
  BY <1>5 DEF Bcm!CopyReturn, DmaInv
<1>6. ASSUME NEW ch \in Channels, Bcm!HwCopy(ch) PROVE DmaInv'
  <2>1. PICK b \in Callers : b = block[ch] /\ holding[b] = ch /\ copyPc[b] = "poll"
    BY <1>6 DEF Bcm!HwCopy, DmaInv
  <2>2. /\ UNCHANGED <<allocated, holding, copyPc, block>>
        /\ copied' = [copied EXCEPT ![b] = TRUE]
        /\ running' = [running EXCEPT ![ch] = FALSE] /\ end' = [end EXCEPT ![ch] = TRUE]
    BY <1>6, <2>1, Zenon DEF Bcm!HwCopy
  <2>3. \A d \in Callers : d # b => holding[d] # ch
    BY <2>1 DEF DmaInv
  <2>4. QED
    BY <2>1, <2>2, <2>3, SMTT(20) DEF DmaInv
<1>7. QED
  BY <1>1, <1>2, <1>3, <1>4, <1>5, <1>6 DEF Bcm!DmaNext

-----------------------------------------------------------------------------
(* Calls of VideoCore.                                                     *)

\* What the buffer of goroutine c holds while its call is under way: the tags of its
\* message, and the answer once VideoCore has sent it back.
Asked(c) ==
    /\ message[c] \in Tags
    /\ buffer[c] \in [state : {"request", "answer"}, words : {Bcm!Encode(message[c])}]
    /\ boxPc[c] = "unlocked" => buffer[c].state = "answer"

\* The mailbox is empty unless the goroutine that has the mutex waits: then its message
\* is on its way to VideoCore, or its answer on the way back.
BoxOf(c) ==
    \/ boxPc[c] = "send" /\ inbox = << >> /\ outbox = << >>
    \/ boxPc[c] = "wait" /\ inbox = << c >> /\ outbox = << >>
    \/ boxPc[c] = "wait" /\ inbox = << >> /\ outbox = << c >> /\ buffer[c].state = "answer"

\* The inductive invariant of the mailbox.
BoxInv ==
    /\ boxPc \in [Callers -> {"idle", "lock", "send", "wait", "unlocked"}]
    /\ DOMAIN message = Callers /\ DOMAIN buffer = Callers /\ DOMAIN response = Callers
    /\ lock \in Callers \cup {Bcm!None}
    /\ \A c \in Callers : boxPc[c] \in {"send", "wait"} <=> lock = c
    /\ lock = Bcm!None => inbox = << >> /\ outbox = << >>
    /\ lock # Bcm!None => BoxOf(lock)
    /\ \A c \in Callers : boxPc[c] # "idle" => Asked(c)
    /\ Bcm!AnswerOwn

\* No goroutine is the one that stands for nobody.
LEMMA SomeCaller == Bcm!None \notin Callers
BY BcmAssumption DEF BcmConstants, Bcm!None

\* The mailbox is empty at first.
LEMMA BoxStart == Bcm!Init => BoxInv
BY SomeCaller DEF Bcm!Init, BoxInv, Bcm!AnswerOwn

\* Each step of a goroutine and of VideoCore keeps the invariant, if the walk over an
\* answer finds the tags that were written.
LEMMA BoxStep ==
    ASSUME BoxInv, Bcm!MailboxNext, \A t \in Tags : Bcm!Decode(Bcm!Encode(t)) = t
    PROVE  BoxInv'
<1> USE SomeCaller
<1>1. ASSUME NEW c \in Callers, NEW t \in Tags, Bcm!Call(c, t) PROVE BoxInv'
  <2>1. /\ boxPc[c] = "idle" /\ boxPc' = [boxPc EXCEPT ![c] = "lock"]
        /\ message' = [message EXCEPT ![c] = t]
        /\ buffer' = [buffer EXCEPT ![c] = [state |-> "request", words |-> Bcm!Encode(t)]]
        /\ UNCHANGED <<lock, inbox, outbox, response, panicked>>
    BY <1>1, Zenon DEF Bcm!Call
  <2>2. lock # c
    BY <2>1, Zenon DEF BoxInv
  <2>3. \A d \in Callers : boxPc'[d] # "idle" => Asked(d)'
    BY <2>1 DEF BoxInv, Asked
  <2>4. lock # Bcm!None => BoxOf(lock)'
    BY <2>1, <2>2, Zenon DEF BoxInv, BoxOf
  <2>5. Bcm!AnswerOwn'
    BY <2>1, Zenon DEF BoxInv, Bcm!AnswerOwn
  <2>6. QED
    BY <2>1, <2>2, <2>3, <2>4, <2>5, Zenon DEF BoxInv
<1>2. ASSUME NEW c \in Callers, Bcm!Lock(c) PROVE BoxInv'
  <2>1. /\ boxPc[c] = "lock" /\ lock = Bcm!None /\ lock' = c
        /\ boxPc' = [boxPc EXCEPT ![c] = "send"]
        /\ UNCHANGED <<message, buffer, inbox, outbox, response, panicked>>
    BY <1>2, Zenon DEF Bcm!Lock
  <2>3. \A d \in Callers : boxPc'[d] # "idle" => Asked(d)'
    BY <2>1, Zenon DEF BoxInv, Asked
  <2>4. BoxOf(c)'
    BY <2>1 DEF BoxInv, BoxOf
  <2>5. Bcm!AnswerOwn'
    BY <2>1, Zenon DEF BoxInv, Bcm!AnswerOwn
  <2>6. QED
    BY <2>1, <2>3, <2>4, <2>5, Zenon DEF BoxInv, BoxOf
<1>3. ASSUME NEW c \in Callers, Bcm!Send(c) PROVE BoxInv'
  <2>1. /\ boxPc[c] = "send" /\ inbox' = Append(inbox, c)
        /\ boxPc' = [boxPc EXCEPT ![c] = "wait"]
        /\ UNCHANGED <<message, buffer, lock, outbox, response, panicked>>
    BY <1>3, Zenon DEF Bcm!Send
  <2>2. lock = c /\ inbox = << >> /\ outbox = << >>
    BY <2>1, Zenon DEF BoxInv, BoxOf
  <2>3. \A d \in Callers : boxPc'[d] # "idle" => Asked(d)'
    BY <2>1 DEF BoxInv, Asked
  <2>4. BoxOf(c)'
    <3>1. inbox' = << c >>
      BY <2>1, <2>2
    <3>2. boxPc'[c] = "wait"
      BY <2>1 DEF BoxInv
    <3>3. QED
      BY <2>1, <2>2, <3>1, <3>2 DEF BoxOf
  <2>5. Bcm!AnswerOwn'
    BY <2>1, Zenon DEF BoxInv, Bcm!AnswerOwn
  <2>6. \A d \in Callers : boxPc'[d] \in {"send", "wait"} <=> lock' = d
    BY <2>1, <2>2 DEF BoxInv
  <2>7. boxPc' \in [Callers -> {"idle", "lock", "send", "wait", "unlocked"}]
    BY <2>1 DEF BoxInv
  <2>8. QED
    BY <2>1, <2>2, <2>3, <2>4, <2>5, <2>6, <2>7, Zenon DEF BoxInv
<1>4. ASSUME NEW c \in Callers, Bcm!ReadResponse(c) PROVE BoxInv'
  <2>1. /\ boxPc[c] = "wait" /\ outbox # << >> /\ outbox' = Tail(outbox)
        /\ panicked' = (panicked \/ outbox[1] # c) /\ lock' = Bcm!None
        /\ boxPc' = [boxPc EXCEPT ![c] = "unlocked"]
        /\ UNCHANGED <<message, buffer, inbox, response>>
    BY <1>4, Zenon DEF Bcm!ReadResponse
  <2>2. lock = c
    BY <2>1, Zenon DEF BoxInv
  <2>3. inbox = << >> /\ outbox = << c >> /\ buffer[c].state = "answer"
    BY <2>1, <2>2, Zenon DEF BoxInv, BoxOf
  <2>4. outbox' = << >> /\ ~panicked'
    <3>1. Tail(<< c >>) = << >> /\ << c >>[1] = c
      OBVIOUS
    <3>2. ~panicked
      BY DEF BoxInv, Bcm!AnswerOwn
    <3>3. QED
      BY <2>1, <2>3, <3>1, <3>2, Zenon
  <2>5. \A d \in Callers : boxPc'[d] # "idle" => Asked(d)'
    BY <2>1, <2>3 DEF BoxInv, Asked
  <2>6. Bcm!AnswerOwn'
    BY <2>1, <2>4, Zenon DEF BoxInv, Bcm!AnswerOwn
  <2>7. \A d \in Callers : boxPc'[d] \notin {"send", "wait"}
    BY <2>1, <2>2 DEF BoxInv
  <2>8. QED
    BY <2>1, <2>3, <2>4, <2>5, <2>6, <2>7, Zenon DEF BoxInv
<1>5. ASSUME NEW c \in Callers, Bcm!Return(c) PROVE BoxInv'
  <2>1. /\ boxPc[c] = "unlocked" /\ boxPc' = [boxPc EXCEPT ![c] = "idle"]
        /\ response' = [response EXCEPT ![c] = [state |-> buffer[c].state, asked |-> message[c],
                                                tags |-> Bcm!Decode(buffer[c].words)]]
        /\ buffer' = [buffer EXCEPT ![c] = << >>]
        /\ UNCHANGED <<message, lock, inbox, outbox, panicked>>
    BY <1>5, Zenon DEF Bcm!Return
  <2>2. lock # c
    BY <2>1, Zenon DEF BoxInv
  <2>3. \A d \in Callers : boxPc'[d] # "idle" => Asked(d)'
    BY <2>1, Zenon DEF BoxInv, Asked
  <2>4. lock # Bcm!None => BoxOf(lock)'
    BY <2>1, <2>2 DEF BoxInv, BoxOf
  <2>5. Asked(c)
    BY <2>1, Zenon DEF BoxInv
  <2>6. buffer[c].state = "answer" /\ buffer[c].words = Bcm!Encode(message[c]) /\ message[c] \in Tags
    BY <2>1, <2>5, Zenon DEF Asked
  <2>7. Bcm!Decode(buffer[c].words) = message[c]
    BY <2>6, Zenon
  <2>8. response' = [response EXCEPT ![c] = [state |-> "answer", asked |-> message[c], tags |-> message[c]]]
    BY <2>1, <2>6, <2>7, Zenon
  <2>9. Bcm!AnswerOwn'
    BY <2>1, <2>8 DEF BoxInv, Bcm!AnswerOwn
  <2>10. QED
    BY <2>1, <2>2, <2>3, <2>4, <2>8, <2>9, Zenon DEF BoxInv
<1>6. ASSUME NEW k \in 1 .. MailboxDepth, Bcm!HwAnswer(k) PROVE BoxInv'
  <2>1. /\ k \in DOMAIN inbox /\ buffer' = [buffer EXCEPT ![inbox[k]].state = "answer"]
        /\ outbox' = Append(outbox, inbox[k])
        /\ inbox' = SubSeq(inbox, 1, k - 1) \o SubSeq(inbox, k + 1, Len(inbox))
        /\ UNCHANGED <<boxPc, message, lock, response, panicked>>
    BY <1>6, Zenon DEF Bcm!HwAnswer
  <2>2. inbox # << >>
    BY <2>1
  <2>3. lock \in Callers /\ inbox = << lock >> /\ outbox = << >> /\ boxPc[lock] = "wait"
    BY <2>2, Zenon DEF BoxInv, BoxOf
  <2>4. k = 1 /\ inbox[k] = lock
    BY <2>1, <2>3
  <2>5. outbox' = << lock >> /\ inbox' = << >>
    <3>1. SubSeq(<< lock >>, 1, 0) = << >> /\ SubSeq(<< lock >>, 2, 1) = << >> /\ Len(<< lock >>) = 1
      OBVIOUS
    <3>2. QED
      BY <2>1, <2>3, <2>4, <3>1
  <2>6. Asked(lock)
    BY <2>3 DEF BoxInv
  <2>7. /\ buffer' = [buffer EXCEPT ![lock] = [buffer[lock] EXCEPT !.state = "answer"]]
        /\ DOMAIN buffer = Callers
    BY <2>1, <2>4 DEF BoxInv
  <2>8. Asked(lock)' /\ buffer'[lock].state = "answer"
    BY <2>1, <2>3, <2>6, <2>7 DEF Asked
  <2>9. \A d \in Callers : boxPc'[d] # "idle" => Asked(d)'
    BY <2>1, <2>7, <2>8 DEF BoxInv, Asked
  <2>10. BoxOf(lock)'
    BY <2>1, <2>3, <2>5, <2>8 DEF BoxOf
  <2>11. Bcm!AnswerOwn'
    BY <2>1, Zenon DEF BoxInv, Bcm!AnswerOwn
  <2>12. QED
    BY <2>1, <2>3, <2>7, <2>9, <2>10, <2>11 DEF BoxInv
<1>7. QED
  BY <1>1, <1>2, <1>3, <1>4, <1>5, <1>6 DEF Bcm!MailboxNext

-----------------------------------------------------------------------------
(* GPIO lines.                                                             *)

\* The steps that calls for lines go through, and the one goroutine c is at.
GpioSteps ==
    {<< >>, <<"read", "write">>, <<"write">>,
     <<"lock", "control", "clock", "uncontrol", "unclock">>, <<"control", "clock", "uncontrol", "unclock">>,
     <<"clock", "uncontrol", "unclock">>, <<"uncontrol", "unclock">>, <<"unclock">>}
At(c) == IF gpioCall[c].steps = << >> THEN "idle" ELSE Head(gpioCall[c].steps)

Selecting(c) == At(c) \in {"read", "write"}
Pulling(c) == At(c) \in {"control", "clock", "uncontrol", "unclock"}
Clocked(c) == At(c) \in {"uncontrol", "unclock"}

FnValues == Functions \cup {0}
PullValues == Pulls \cup {0}
Fields == [0 .. PerSelect - 1 -> FnValues]
Banks == {Bcm!Bank(l) : l \in GpioLines}
Registers == {Bcm!Select(l) : l \in GpioLines}

GpioType ==
    /\ gpio \in [fsel : [Registers -> Fields], level : [Banks -> SUBSET Nat], clk : [Banks -> SUBSET Nat],
                 pud : PullValues, pull : [GpioLines -> PullValues], gpmu : Callers \cup {Bcm!None}]
    /\ gpioCall \in [Callers -> [steps : GpioSteps, num : GpioLines \cup {0}, val : FnValues \cup PullValues,
                                 read : Fields \cup {<< >>}]]
    /\ gpioAsked \in [fn : [GpioLines -> FnValues], level : [GpioLines -> BOOLEAN],
                      pull : [GpioLines -> PullValues], raced : SUBSET GpioLines]
    /\ \A c \in Callers : At(c) # "idle" => gpioCall[c].num \in GpioLines
    /\ \A c \in Callers : Selecting(c) => gpioCall[c].val \in FnValues
    /\ \A c \in Callers : At(c) = "write" => gpioCall[c].read \in Fields
    /\ \A c \in Callers : Pulling(c) \/ At(c) = "lock" => gpioCall[c].val \in PullValues

\* The pull registers belong to the goroutine that has gpmu: the clock reaches no other
\* line than its own, and no line before the control signal is the one it asked for.
PullInv ==
    /\ \A c \in Callers : Pulling(c) <=> gpio.gpmu = c
    /\ \A c \in Callers : At(c) = "clock" => gpio.pud = gpioCall[c].val
    /\ \A b \in Banks : gpio.clk[b] # {} => \E c \in Callers : Clocked(c) /\ Bcm!Bank(gpioCall[c].num) = b
    /\ \A l \in GpioLines : gpio.pull[l] = gpioAsked.pull[l]

\* The level of a line is the one last asked for.
LevelInv == \A l \in GpioLines : Bcm!Value(l) <=> gpioAsked.level[l]

\* A register of functions whose updates did not overlap has one update at a time; the
\* update keeps the other lines of the register.
FnInv ==
    /\ \A l, m \in GpioLines : l \in gpioAsked.raced /\ Bcm!Select(l) = Bcm!Select(m) => m \in gpioAsked.raced
    /\ \A l \in GpioLines \ gpioAsked.raced :
          /\ \A c, d \in Callers : /\ Selecting(c) /\ Bcm!Select(gpioCall[c].num) = Bcm!Select(l)
                                   /\ Selecting(d) /\ Bcm!Select(gpioCall[d].num) = Bcm!Select(l)
                                   => c = d
          /\ \A c \in Callers : Selecting(c) /\ Bcm!Select(gpioCall[c].num) = Bcm!Select(l) =>
                IF gpioCall[c].num = l THEN gpioAsked.fn[l] = gpioCall[c].val
                ELSE IF At(c) = "read" THEN Bcm!GetFunction(l) = gpioAsked.fn[l]
                ELSE gpioCall[c].read[l % PerSelect] = gpioAsked.fn[l]
          /\ (\A c \in Callers : ~(Selecting(c) /\ Bcm!Select(gpioCall[c].num) = Bcm!Select(l))) =>
                Bcm!GetFunction(l) = gpioAsked.fn[l]

\* The inductive invariant of the lines.
GpioInv == GpioType /\ PullInv /\ LevelInv /\ FnInv

\* Two lines are not at the same place of one register.
LEMMA LinePlace ==
    ASSUME NEW s \in Nat \ {0}, NEW a \in Nat, NEW b \in Nat, a \div s = b \div s, a % s = b % s
    PROVE  a = b
<1>1. a = s * (a \div s) + (a % s) /\ b = s * (b \div s) + (b % s)
  BY DivMod
<1>2. QED
  BY <1>1, Zenon

\* The order of the steps.
LEMMA StepOrder ==
    ASSUME NEW s \in GpioSteps, s # << >>
    PROVE  /\ Tail(s) \in GpioSteps
           /\ Head(s) = "read" => s = <<"read", "write">> /\ Tail(s) = <<"write">>
           /\ Head(s) = "write" => Tail(s) = << >>
           /\ Head(s) = "lock" => Tail(s) # << >> /\ Head(Tail(s)) = "control"
           /\ Head(s) = "control" => Tail(s) # << >> /\ Head(Tail(s)) = "clock"
           /\ Head(s) = "clock" => Tail(s) # << >> /\ Head(Tail(s)) = "uncontrol"
           /\ Head(s) = "uncontrol" => Tail(s) # << >> /\ Head(Tail(s)) = "unclock"
           /\ Head(s) = "unclock" => Tail(s) = << >>
           /\ Head(s) \in {"read", "write", "lock", "control", "clock", "uncontrol", "unclock"}
<1>1. Head(<<"read", "write">>) = "read" /\ Tail(<<"read", "write">>) = <<"write">> /\ <<"read", "write">> # << >>
  OBVIOUS
<1>2. Head(<<"write">>) = "write" /\ Tail(<<"write">>) = << >> /\ <<"write">> # << >>
  OBVIOUS
<1>3. Head(<<"lock", "control", "clock", "uncontrol", "unclock">>) = "lock" /\ Tail(<<"lock", "control", "clock", "uncontrol", "unclock">>) = <<"control", "clock", "uncontrol", "unclock">> /\ <<"lock", "control", "clock", "uncontrol", "unclock">> # << >>
  OBVIOUS
<1>4. Head(<<"control", "clock", "uncontrol", "unclock">>) = "control" /\ Tail(<<"control", "clock", "uncontrol", "unclock">>) = <<"clock", "uncontrol", "unclock">> /\ <<"control", "clock", "uncontrol", "unclock">> # << >>
  OBVIOUS
<1>5. Head(<<"clock", "uncontrol", "unclock">>) = "clock" /\ Tail(<<"clock", "uncontrol", "unclock">>) = <<"uncontrol", "unclock">> /\ <<"clock", "uncontrol", "unclock">> # << >>
  OBVIOUS
<1>6. Head(<<"uncontrol", "unclock">>) = "uncontrol" /\ Tail(<<"uncontrol", "unclock">>) = <<"unclock">> /\ <<"uncontrol", "unclock">> # << >>
  OBVIOUS
<1>7. Head(<<"unclock">>) = "unclock" /\ Tail(<<"unclock">>) = << >> /\ <<"unclock">> # << >>
  OBVIOUS
<1>8. CASE s = <<"read", "write">>
  BY <1>1, <1>2, <1>3, <1>4, <1>5, <1>6, <1>7, <1>8, Zenon DEF GpioSteps
<1>9. CASE s = <<"write">>
  BY <1>1, <1>2, <1>3, <1>4, <1>5, <1>6, <1>7, <1>9, Zenon DEF GpioSteps
<1>10. CASE s = <<"lock", "control", "clock", "uncontrol", "unclock">>
  BY <1>1, <1>2, <1>3, <1>4, <1>5, <1>6, <1>7, <1>10, Zenon DEF GpioSteps
<1>11. CASE s = <<"control", "clock", "uncontrol", "unclock">>
  BY <1>1, <1>2, <1>3, <1>4, <1>5, <1>6, <1>7, <1>11, Zenon DEF GpioSteps
<1>12. CASE s = <<"clock", "uncontrol", "unclock">>
  BY <1>1, <1>2, <1>3, <1>4, <1>5, <1>6, <1>7, <1>12, Zenon DEF GpioSteps
<1>13. CASE s = <<"uncontrol", "unclock">>
  BY <1>1, <1>2, <1>3, <1>4, <1>5, <1>6, <1>7, <1>13, Zenon DEF GpioSteps
<1>14. CASE s = <<"unclock">>
  BY <1>1, <1>2, <1>3, <1>4, <1>5, <1>6, <1>7, <1>14, Zenon DEF GpioSteps
<1>15. QED
  BY <1>8, <1>9, <1>10, <1>11, <1>12, <1>13, <1>14, Zenon DEF GpioSteps
\* Where a line is in the registers.
LEMMA LineWhere ==
    ASSUME NEW l \in GpioLines
    PROVE  /\ Bcm!Bank(l) \in Banks /\ Bcm!Select(l) \in Registers
           /\ l % PerSelect \in 0 .. PerSelect - 1 /\ l % PerBank \in Nat
           /\ \A m \in GpioLines : Bcm!Bank(l) = Bcm!Bank(m) /\ l % PerBank = m % PerBank => l = m
           /\ \A m \in GpioLines : Bcm!Select(l) = Bcm!Select(m) /\ l % PerSelect = m % PerSelect => l = m
<1>1. l \in Nat /\ PerSelect \in Nat \ {0} /\ PerBank \in Nat \ {0} /\ \A m \in GpioLines : m \in Nat
  BY BcmAssumption DEF BcmConstants
<1>2. l % PerSelect \in 0 .. PerSelect - 1 /\ l % PerBank \in Nat
  BY <1>1, DivMod
<1>3. ASSUME NEW m \in GpioLines, Bcm!Bank(l) = Bcm!Bank(m), l % PerBank = m % PerBank PROVE l = m
  BY <1>1, <1>3, LinePlace, Zenon DEF Bcm!Bank
<1>4. ASSUME NEW m \in GpioLines, Bcm!Select(l) = Bcm!Select(m), l % PerSelect = m % PerSelect PROVE l = m
  BY <1>1, <1>4, LinePlace, Zenon DEF Bcm!Select
<1>5. QED
  BY <1>2, <1>3, <1>4 DEF Banks, Registers

\* The lines are as nobody asked for anything at first.
LEMMA GpioStart == Bcm!GpioInit => GpioInv
<1> SUFFICES ASSUME Bcm!GpioInit PROVE GpioInv
  OBVIOUS
<1>1. /\ gpio = [fsel |-> [g \in Registers |-> [k \in 0 .. PerSelect - 1 |-> 0]],
                 level |-> [b \in Banks |-> {}], clk |-> [b \in Banks |-> {}],
                 pud |-> 0, pull |-> [l \in GpioLines |-> 0], gpmu |-> Bcm!None]
      /\ gpioCall = [c \in Callers |-> [steps |-> << >>, num |-> 0, val |-> 0, read |-> << >>]]
      /\ gpioAsked = [fn |-> [l \in GpioLines |-> 0], level |-> [l \in GpioLines |-> FALSE],
                      pull |-> [l \in GpioLines |-> 0], raced |-> {}]
  BY Zenon DEF Bcm!GpioInit, Bcm!Idle, Registers, Banks
<1>2. \A c \in Callers : gpioCall[c].steps = << >> /\ At(c) = "idle"
  BY <1>1 DEF At
<1>3. GpioType
  BY <1>1, <1>2, Zenon DEF GpioType, GpioSteps, FnValues, PullValues, Fields, Selecting, Pulling
<1>4. \A l \in GpioLines : Bcm!Bank(l) \in Banks /\ Bcm!Select(l) \in Registers /\ l % PerSelect \in 0 .. PerSelect - 1
  BY LineWhere
<1>5. PullInv
  BY <1>1, <1>2, SomeCaller, Zenon DEF PullInv, Pulling
<1>6. LevelInv
  BY <1>1, <1>4, Zenon DEF LevelInv, Bcm!Value
<1>7. FnInv
  BY <1>1, <1>2, <1>4, Zenon DEF FnInv, Selecting, Bcm!GetFunction
<1>8. QED
  BY <1>3, <1>5, <1>6, <1>7 DEF GpioInv

\* A call is entered: other goroutines stay where they are.
LEMMA Entered ==
    ASSUME GpioType, NEW c \in Callers, NEW steps \in GpioSteps, NEW num \in GpioLines \cup {0},
           NEW val \in FnValues \cup PullValues, Bcm!GpioEnter(c, steps, num, val)
    PROVE  /\ At(c) = "idle"
           /\ \A d \in Callers \ {c} : gpioCall'[d] = gpioCall[d] /\ At(d)' = At(d)
           /\ gpioCall'[c] = [steps |-> steps, num |-> num, val |-> val, read |-> << >>]
           /\ steps = << >> => At(c)' = "idle"
           /\ steps # << >> => At(c)' = Head(steps)
           /\ gpioCall' \in [Callers -> [steps : GpioSteps, num : GpioLines \cup {0}, val : FnValues \cup PullValues,
                                         read : Fields \cup {<< >>}]]
<1>1. gpioCall[c].steps = << >> /\ gpioCall' = [gpioCall EXCEPT ![c] = [steps |-> steps, num |-> num, val |-> val, read |-> << >>]]
  BY DEF Bcm!GpioEnter
<1>2. DOMAIN gpioCall = Callers
  BY DEF GpioType
<1>3. gpioCall'[c] = [steps |-> steps, num |-> num, val |-> val, read |-> << >>]
  BY <1>1, <1>2
<1>4. \A d \in Callers \ {c} : gpioCall'[d] = gpioCall[d]
  BY <1>1, <1>2
<1>5. gpioCall'[c].steps = steps
  BY <1>3, SMTT(20)
<1>6. gpioCall' \in [Callers -> [steps : GpioSteps, num : GpioLines \cup {0}, val : FnValues \cup PullValues,
                                 read : Fields \cup {<< >>}]]
  BY <1>1 DEF GpioType
<1>7. QED
  BY <1>1, <1>3, <1>4, <1>5, <1>6, Zenon DEF At

\* SelectFunction asks for a function: lines of a register with another update are given up.
LEMMA SelectStep ==
    ASSUME GpioInv, NEW c \in Callers, NEW num \in GpioLines, NEW n \in Functions, Bcm!SelectFunction(c, num, n)
    PROVE  GpioInv'
<1> DEFINE others == {d \in Callers \ {c} : gpioCall[d].steps # << >> /\ Head(gpioCall[d].steps) \in {"read", "write"}
                                            /\ Bcm!Select(gpioCall[d].num) = Bcm!Select(num)}
           given == IF others = {} THEN {} ELSE {l \in GpioLines : Bcm!Select(l) = Bcm!Select(num)}
<1>1. /\ gpio' = gpio
      /\ gpioAsked' = [gpioAsked EXCEPT !.fn[num] = n, !.raced = @ \cup given]
      /\ Bcm!GpioEnter(c, <<"read", "write">>, num, n)
  BY DEF Bcm!SelectFunction
<1>2. n \in FnValues /\ <<"read", "write">> \in GpioSteps /\ GpioType
  BY DEF FnValues, GpioSteps, GpioInv
<1>3. /\ At(c) = "idle" /\ At(c)' = Head(<<"read", "write">>)
      /\ \A d \in Callers \ {c} : gpioCall'[d] = gpioCall[d] /\ At(d)' = At(d)
      /\ gpioCall'[c] = [steps |-> <<"read", "write">>, num |-> num, val |-> n, read |-> << >>]
      /\ gpioCall' \in [Callers -> [steps : GpioSteps, num : GpioLines \cup {0}, val : FnValues \cup PullValues,
                                    read : Fields \cup {<< >>}]]
  <2>1. <<"read", "write">> # << >> /\ num \in GpioLines \cup {0} /\ n \in FnValues \cup PullValues
    BY <1>2
  <2>2. QED
    BY <1>1, <1>2, <2>1, Entered
<1>4. At(c)' = "read" /\ gpioCall'[c].num = num /\ gpioCall'[c].val = n
  BY <1>3, SMTT(20)
<1>5. /\ gpioAsked'.fn = [gpioAsked.fn EXCEPT ![num] = n] /\ gpioAsked'.raced = gpioAsked.raced \cup given
      /\ gpioAsked'.level = gpioAsked.level /\ gpioAsked'.pull = gpioAsked.pull
      /\ gpioAsked' \in [fn : [GpioLines -> FnValues], level : [GpioLines -> BOOLEAN],
                         pull : [GpioLines -> PullValues], raced : SUBSET GpioLines]
  <2>1. given \subseteq GpioLines
    BY Zenon
  <2> HIDE DEF given
  <2>2. QED
    BY <1>1, <1>2, <2>1, Zenon DEF GpioType
<1>6. GpioType'
  BY <1>1, <1>2, <1>3, <1>4, <1>5, Zenon DEF GpioType, Selecting, Pulling
<1>7. PullInv'
  <2>1. \A d \in Callers : Pulling(d)' <=> Pulling(d)
    BY <1>3, <1>4, Zenon DEF Pulling
  <2>2. \A d \in Callers : Clocked(d) => Clocked(d)' /\ gpioCall'[d] = gpioCall[d]
    BY <1>3, <1>4, Zenon DEF Clocked
  <2>3. \A d \in Callers : At(d)' = "clock" => At(d) = "clock" /\ gpioCall'[d] = gpioCall[d]
    BY <1>3, <1>4, Zenon
  <2>4. \A b \in Banks : gpio'.clk[b] # {} => \E d \in Callers : Clocked(d)' /\ Bcm!Bank(gpioCall'[d].num) = b
    BY <1>1, <2>2 DEF GpioInv, PullInv
  <2>5. \A d \in Callers : At(d)' = "clock" => gpio'.pud = gpioCall'[d].val
    BY <1>1, <2>3 DEF GpioInv, PullInv
  <2>6. QED
    BY <1>1, <1>5, <2>1, <2>4, <2>5, Zenon DEF GpioInv, PullInv
<1>8. LevelInv'
  BY <1>1, <1>5, Zenon DEF GpioInv, LevelInv, Bcm!Value
<1>9. FnInv'
  <2>1. \A d \in Callers : d \in others <=> d # c /\ Selecting(d) /\ Bcm!Select(gpioCall[d].num) = Bcm!Select(num)
    BY Zenon DEF Selecting, At
  <2>2. ASSUME NEW l \in GpioLines, NEW m \in GpioLines, l \in gpioAsked'.raced, Bcm!Select(l) = Bcm!Select(m)
        PROVE  m \in gpioAsked'.raced
    BY <1>5, <2>2, SMTT(20) DEF GpioInv, FnInv
  <2>3. ASSUME NEW l \in GpioLines \ gpioAsked'.raced
        PROVE  /\ \A d, e \in Callers : /\ Selecting(d)' /\ Bcm!Select(gpioCall'[d].num) = Bcm!Select(l)
                                        /\ Selecting(e)' /\ Bcm!Select(gpioCall'[e].num) = Bcm!Select(l)
                                        => d = e
               /\ \A d \in Callers : Selecting(d)' /\ Bcm!Select(gpioCall'[d].num) = Bcm!Select(l) =>
                     IF gpioCall'[d].num = l THEN gpioAsked'.fn[l] = gpioCall'[d].val
                     ELSE IF At(d)' = "read" THEN Bcm!GetFunction(l)' = gpioAsked'.fn[l]
                     ELSE gpioCall'[d].read[l % PerSelect] = gpioAsked'.fn[l]
               /\ (\A d \in Callers : ~(Selecting(d)' /\ Bcm!Select(gpioCall'[d].num) = Bcm!Select(l))) =>
                     Bcm!GetFunction(l)' = gpioAsked'.fn[l]
    <3>1. l \in GpioLines /\ l \notin gpioAsked.raced /\ l \notin given
      BY <1>5, <2>3, Zenon
    <3>2. Bcm!GetFunction(l)' = Bcm!GetFunction(l)
      BY <1>1, Zenon DEF Bcm!GetFunction
    <3>3. CASE Bcm!Select(l) = Bcm!Select(num)
      <4>1. others = {}
        BY <3>1, <3>3, Zenon
      <4>2. \A d \in Callers : Selecting(d) /\ Bcm!Select(gpioCall[d].num) = Bcm!Select(l) => d = c
        BY <2>1, <3>3, <4>1, Zenon
      <4>3. ~Selecting(c) /\ Selecting(c)'
        BY <1>3, <1>4, Zenon DEF Selecting
      <4>4. Bcm!GetFunction(l) = gpioAsked.fn[l]
        BY <3>1, <4>2, <4>3, Zenon DEF GpioInv, FnInv
      <4>5. \A d \in Callers : Selecting(d)' /\ Bcm!Select(gpioCall'[d].num) = Bcm!Select(l) => d = c
        BY <1>3, <4>2, Zenon DEF Selecting
      <4>6. IF num = l THEN gpioAsked'.fn[l] = n ELSE gpioAsked'.fn[l] = gpioAsked.fn[l]
        BY <1>2, <1>5, <3>1, Zenon DEF GpioType
      <4>7. Bcm!Select(gpioCall'[c].num) = Bcm!Select(l)
        BY <1>4, <3>3, Zenon
      <4>8. QED
        BY <1>4, <3>2, <4>3, <4>4, <4>5, <4>6, <4>7, Zenon
    <3>4. CASE Bcm!Select(l) # Bcm!Select(num)
      <4>1. \A d \in Callers : Selecting(d)' /\ Bcm!Select(gpioCall'[d].num) = Bcm!Select(l) =>
                /\ Selecting(d) /\ Bcm!Select(gpioCall[d].num) = Bcm!Select(l)
                /\ gpioCall'[d] = gpioCall[d] /\ At(d)' = At(d)
        BY <1>3, <1>4, <3>4, Zenon DEF Selecting
      <4>2. \A d \in Callers : Selecting(d) /\ Bcm!Select(gpioCall[d].num) = Bcm!Select(l) =>
                Selecting(d)' /\ Bcm!Select(gpioCall'[d].num) = Bcm!Select(l)
        <5>1. ~Selecting(c)
          BY <1>3, Zenon DEF Selecting
        <5>2. QED
          BY <1>3, <5>1, Zenon DEF Selecting
      <4>3. gpioAsked'.fn[l] = gpioAsked.fn[l]
        BY <1>2, <1>5, <3>1, <3>4, Zenon DEF GpioType
      <4>4. ASSUME NEW d \in Callers, NEW e \in Callers,
                   Selecting(d)', Bcm!Select(gpioCall'[d].num) = Bcm!Select(l),
                   Selecting(e)', Bcm!Select(gpioCall'[e].num) = Bcm!Select(l)
            PROVE  d = e
        BY <3>1, <4>1, <4>4, Zenon DEF GpioInv, FnInv
      <4>5. ASSUME NEW d \in Callers, Selecting(d)', Bcm!Select(gpioCall'[d].num) = Bcm!Select(l)
            PROVE  IF gpioCall'[d].num = l THEN gpioAsked'.fn[l] = gpioCall'[d].val
                   ELSE IF At(d)' = "read" THEN Bcm!GetFunction(l)' = gpioAsked'.fn[l]
                   ELSE gpioCall'[d].read[l % PerSelect] = gpioAsked'.fn[l]
        <5>1. IF gpioCall[d].num = l THEN gpioAsked.fn[l] = gpioCall[d].val
              ELSE IF At(d) = "read" THEN Bcm!GetFunction(l) = gpioAsked.fn[l]
              ELSE gpioCall[d].read[l % PerSelect] = gpioAsked.fn[l]
          BY <3>1, <4>1, <4>5, Zenon DEF GpioInv, FnInv
        <5>2. QED
          BY <3>2, <4>1, <4>3, <4>5, <5>1, Zenon
      <4>6. ASSUME \A d \in Callers : ~(Selecting(d)' /\ Bcm!Select(gpioCall'[d].num) = Bcm!Select(l))
            PROVE  Bcm!GetFunction(l)' = gpioAsked'.fn[l]
        <5>1. Bcm!GetFunction(l) = gpioAsked.fn[l]
          BY <3>1, <4>2, <4>6, Zenon DEF GpioInv, FnInv
        <5>2. QED
          BY <3>2, <4>3, <5>1, Zenon
      <4>7. QED
        BY <4>4, <4>5, <4>6, Zenon
    <3>5. QED
      BY <3>3, <3>4, Zenon
  <2>4. QED
    BY <2>2, <2>3, Zenon DEF FnInv
<1>10. QED
  BY <1>6, <1>7, <1>8, <1>9 DEF GpioInv

\* What PullInv says is kept by steps that leave the pull registers and the goroutines
\* that use them alone.
LEMMA PullKeep ==
    ASSUME PullInv, gpio'.gpmu = gpio.gpmu, gpio'.pud = gpio.pud, gpio'.clk = gpio.clk,
           gpio'.pull = gpio.pull, gpioAsked'.pull = gpioAsked.pull,
           \A d \in Callers : Pulling(d)' <=> Pulling(d),
           \A d \in Callers : Pulling(d) => gpioCall'[d] = gpioCall[d] /\ At(d)' = At(d)
    PROVE  PullInv'
<1>1. \A d \in Callers : Clocked(d) => Clocked(d)' /\ gpioCall'[d] = gpioCall[d]
  BY DEF Clocked, Pulling
<1>2. \A d \in Callers : At(d)' = "clock" => At(d) = "clock" /\ gpioCall'[d] = gpioCall[d]
  BY DEF Pulling
<1>3. \A b \in Banks : gpio'.clk[b] # {} => \E d \in Callers : Clocked(d)' /\ Bcm!Bank(gpioCall'[d].num) = b
  BY <1>1, Zenon DEF PullInv
<1>4. \A d \in Callers : At(d)' = "clock" => gpio'.pud = gpioCall'[d].val
  BY <1>2, Zenon DEF PullInv
<1>5. \A d \in Callers : Pulling(d)' <=> gpio'.gpmu = d
  BY Zenon DEF PullInv
<1>6. \A l \in GpioLines : gpio'.pull[l] = gpioAsked'.pull[l]
  BY Zenon DEF PullInv
<1>7. QED
  BY <1>3, <1>4, <1>5, <1>6, Zenon DEF PullInv

\* What LevelInv says is kept by steps that leave the levels alone.
LEMMA LevelKeep ==
    ASSUME LevelInv, gpio'.level = gpio.level, gpioAsked'.level = gpioAsked.level
    PROVE  LevelInv'
BY Zenon DEF LevelInv, Bcm!Value

\* What FnInv says is kept by steps that leave the registers of functions and the
\* goroutines that update them alone.
LEMMA FnKeep ==
    ASSUME FnInv, gpio'.fsel = gpio.fsel, gpioAsked'.fn = gpioAsked.fn, gpioAsked'.raced = gpioAsked.raced,
           \A d \in Callers : Selecting(d)' <=> Selecting(d),
           \A d \in Callers : Selecting(d) => gpioCall'[d] = gpioCall[d] /\ At(d)' = At(d)
    PROVE  FnInv'
<1>1. \A l \in GpioLines : Bcm!GetFunction(l)' = Bcm!GetFunction(l)
  BY Zenon DEF Bcm!GetFunction
<1>2. \A l, m \in GpioLines : l \in gpioAsked'.raced /\ Bcm!Select(l) = Bcm!Select(m) => m \in gpioAsked'.raced
  BY Zenon DEF FnInv
<1>3. ASSUME NEW l \in GpioLines \ gpioAsked'.raced
      PROVE  /\ \A c, d \in Callers : /\ Selecting(c)' /\ Bcm!Select(gpioCall'[c].num) = Bcm!Select(l)
                                      /\ Selecting(d)' /\ Bcm!Select(gpioCall'[d].num) = Bcm!Select(l)
                                      => c = d
             /\ \A c \in Callers : Selecting(c)' /\ Bcm!Select(gpioCall'[c].num) = Bcm!Select(l) =>
                   IF gpioCall'[c].num = l THEN gpioAsked'.fn[l] = gpioCall'[c].val
                   ELSE IF At(c)' = "read" THEN Bcm!GetFunction(l)' = gpioAsked'.fn[l]
                   ELSE gpioCall'[c].read[l % PerSelect] = gpioAsked'.fn[l]
             /\ (\A c \in Callers : ~(Selecting(c)' /\ Bcm!Select(gpioCall'[c].num) = Bcm!Select(l))) =>
                   Bcm!GetFunction(l)' = gpioAsked'.fn[l]
  <2>1. l \in GpioLines \ gpioAsked.raced
    BY <1>3, Zenon
  <2>2. ASSUME NEW c \in Callers, NEW d \in Callers,
               Selecting(c)', Bcm!Select(gpioCall'[c].num) = Bcm!Select(l),
               Selecting(d)', Bcm!Select(gpioCall'[d].num) = Bcm!Select(l)
        PROVE  c = d
    <3>1. Selecting(c) /\ gpioCall'[c] = gpioCall[c] /\ Selecting(d) /\ gpioCall'[d] = gpioCall[d]
      BY <2>2, Zenon
    <3>2. Bcm!Select(gpioCall[c].num) = Bcm!Select(l) /\ Bcm!Select(gpioCall[d].num) = Bcm!Select(l)
      BY <2>2, <3>1, Zenon
    <3>3. \A e, h \in Callers : /\ Selecting(e) /\ Bcm!Select(gpioCall[e].num) = Bcm!Select(l)
                                /\ Selecting(h) /\ Bcm!Select(gpioCall[h].num) = Bcm!Select(l)
                                => e = h
      BY <2>1, Zenon DEF FnInv
    <3>4. QED
      BY <3>1, <3>2, <3>3, Zenon
  <2>3. ASSUME NEW c \in Callers, Selecting(c)', Bcm!Select(gpioCall'[c].num) = Bcm!Select(l)
        PROVE  IF gpioCall'[c].num = l THEN gpioAsked'.fn[l] = gpioCall'[c].val
               ELSE IF At(c)' = "read" THEN Bcm!GetFunction(l)' = gpioAsked'.fn[l]
               ELSE gpioCall'[c].read[l % PerSelect] = gpioAsked'.fn[l]
    <3>1. gpioCall'[c] = gpioCall[c] /\ At(c)' = At(c) /\ Selecting(c)
      BY <2>3, Zenon
    <3>2. IF gpioCall[c].num = l THEN gpioAsked.fn[l] = gpioCall[c].val
          ELSE IF At(c) = "read" THEN Bcm!GetFunction(l) = gpioAsked.fn[l]
          ELSE gpioCall[c].read[l % PerSelect] = gpioAsked.fn[l]
      <4>1. Bcm!Select(gpioCall[c].num) = Bcm!Select(l)
        BY <2>3, <3>1, Zenon
      <4>2. \A d \in Callers : Selecting(d) /\ Bcm!Select(gpioCall[d].num) = Bcm!Select(l) =>
                IF gpioCall[d].num = l THEN gpioAsked.fn[l] = gpioCall[d].val
                ELSE IF At(d) = "read" THEN Bcm!GetFunction(l) = gpioAsked.fn[l]
                ELSE gpioCall[d].read[l % PerSelect] = gpioAsked.fn[l]
        BY <2>1, Zenon DEF FnInv
      <4>3. QED
        BY <3>1, <4>1, <4>2, Zenon
    <3>3. QED
      BY <1>1, <2>1, <3>1, <3>2, Zenon
  <2>4. ASSUME \A c \in Callers : ~(Selecting(c)' /\ Bcm!Select(gpioCall'[c].num) = Bcm!Select(l))
        PROVE  Bcm!GetFunction(l)' = gpioAsked'.fn[l]
    <3>1. \A c \in Callers : ~(Selecting(c) /\ Bcm!Select(gpioCall[c].num) = Bcm!Select(l))
      BY <2>4, Zenon
    <3>2. Bcm!GetFunction(l) = gpioAsked.fn[l]
      BY <2>1, <3>1, Zenon DEF FnInv
    <3>3. QED
      BY <1>1, <2>1, <3>2, Zenon
  <2>5. QED
    BY <2>2, <2>3, <2>4, Zenon
<1>4. QED
  BY <1>2, <1>3, Zenon DEF FnInv

\* High and Low change the level of their line only.
LEMMA LevelStep ==
    ASSUME GpioInv, NEW c \in Callers, NEW num \in GpioLines, NEW high \in BOOLEAN, Bcm!SetLevel(c, num, high)
    PROVE  GpioInv'
<1> DEFINE b == Bcm!Bank(num)
           new == IF high THEN gpio.level[b] \cup {num % PerBank} ELSE gpio.level[b] \ {num % PerBank}
<1>1. /\ gpio' = [gpio EXCEPT !.level[b] = new]
      /\ gpioAsked' = [gpioAsked EXCEPT !.level[num] = high]
      /\ Bcm!GpioEnter(c, << >>, 0, 0)
  BY DEF Bcm!SetLevel
<1>2. 0 \in FnValues \cup PullValues /\ << >> \in GpioSteps /\ 0 \in GpioLines \cup {0} /\ GpioType
  BY DEF FnValues, GpioSteps, GpioInv
<1>3. /\ At(c) = "idle" /\ At(c)' = "idle"
      /\ \A d \in Callers \ {c} : gpioCall'[d] = gpioCall[d] /\ At(d)' = At(d)
      /\ gpioCall' \in [Callers -> [steps : GpioSteps, num : GpioLines \cup {0}, val : FnValues \cup PullValues,
                                    read : Fields \cup {<< >>}]]
  BY <1>1, <1>2, Entered, Zenon
<1>4. b \in Banks /\ num % PerBank \in Nat
  BY LineWhere
<1>5. /\ gpio'.level = [gpio.level EXCEPT ![b] = new] /\ gpio'.fsel = gpio.fsel /\ gpio'.clk = gpio.clk
      /\ gpio'.pud = gpio.pud /\ gpio'.pull = gpio.pull /\ gpio'.gpmu = gpio.gpmu
      /\ gpio' \in [fsel : [Registers -> Fields], level : [Banks -> SUBSET Nat], clk : [Banks -> SUBSET Nat],
                    pud : PullValues, pull : [GpioLines -> PullValues], gpmu : Callers \cup {Bcm!None}]
  <2>1. gpio.level[b] \in SUBSET Nat
    BY <1>2, <1>4 DEF GpioType
  <2>2. new \in SUBSET Nat
    BY <1>4, <2>1, Zenon
  <2> HIDE DEF new, b
  <2>3. QED
    BY <1>1, <1>2, <1>4, <2>2 DEF GpioType
<1>6. /\ gpioAsked'.level = [gpioAsked.level EXCEPT ![num] = high] /\ gpioAsked'.fn = gpioAsked.fn
      /\ gpioAsked'.pull = gpioAsked.pull /\ gpioAsked'.raced = gpioAsked.raced
      /\ gpioAsked' \in [fn : [GpioLines -> FnValues], level : [GpioLines -> BOOLEAN],
                         pull : [GpioLines -> PullValues], raced : SUBSET GpioLines]
  BY <1>1, <1>2, Zenon DEF GpioType
<1>7. \A d \in Callers : At(d)' = At(d) /\ (At(d) # "idle" => gpioCall'[d] = gpioCall[d])
  BY <1>3, Zenon
<1>8. GpioType'
  BY <1>2, <1>3, <1>5, <1>6, <1>7, Zenon DEF GpioType, Selecting, Pulling
<1>9. PullInv'
  <2>1. \A d \in Callers : Pulling(d)' <=> Pulling(d)
    BY <1>7, Zenon DEF Pulling
  <2>2. \A d \in Callers : Pulling(d) => gpioCall'[d] = gpioCall[d] /\ At(d)' = At(d)
    BY <1>7, Zenon DEF Pulling
  <2>3. QED
    BY <1>5, <1>6, <2>1, <2>2, PullKeep, Zenon DEF GpioInv
<1>10. FnInv'
  <2>1. \A d \in Callers : Selecting(d)' <=> Selecting(d)
    BY <1>7, Zenon DEF Selecting
  <2>2. \A d \in Callers : Selecting(d) => gpioCall'[d] = gpioCall[d] /\ At(d)' = At(d)
    BY <1>7 DEF Selecting
  <2>3. QED
    BY <1>5, <1>6, <2>1, <2>2, FnKeep, Zenon DEF GpioInv
<1>11. LevelInv'
  <2> SUFFICES ASSUME NEW l \in GpioLines PROVE l % PerBank \in gpio'.level[Bcm!Bank(l)] <=> gpioAsked'.level[l]
    BY Zenon DEF LevelInv, Bcm!Value
  <2>1. l % PerBank \in gpio.level[Bcm!Bank(l)] <=> gpioAsked.level[l]
    BY Zenon DEF GpioInv, LevelInv, Bcm!Value
  <2>2. Bcm!Bank(l) \in Banks
    BY LineWhere
  <2>3. gpio'.level[Bcm!Bank(l)] = IF Bcm!Bank(l) = b THEN new ELSE gpio.level[Bcm!Bank(l)]
    <3> HIDE DEF new, b
    <3>1. QED
      BY <1>2, <1>5, <2>2, Zenon DEF GpioType
  <2>4. gpioAsked'.level[l] = IF l = num THEN high ELSE gpioAsked.level[l]
    BY <1>2, <1>6 DEF GpioType
  <2>5. CASE l = num
    BY <2>3, <2>4, <2>5, Zenon
  <2>6. CASE l # num /\ Bcm!Bank(l) = b
    <3>1. l % PerBank # num % PerBank
      BY <2>6, LineWhere
    <3>2. QED
      BY <2>1, <2>3, <2>4, <2>6, <3>1, Zenon
  <2>7. CASE l # num /\ Bcm!Bank(l) # b
    BY <2>1, <2>3, <2>4, <2>7, Zenon
  <2>8. QED
    BY <2>5, <2>6, <2>7, Zenon
<1>12. QED
  BY <1>8, <1>9, <1>10, <1>11 DEF GpioInv

\* PullUpDown is entered, and waits for gpmu.
LEMMA PullEnter ==
    ASSUME GpioInv, NEW c \in Callers, NEW num \in GpioLines, NEW val \in Pulls, Bcm!PullUpDown(c, num, val)
    PROVE  GpioInv'
<1> DEFINE all == <<"lock", "control", "clock", "uncontrol", "unclock">>
<1>1. gpio' = gpio /\ gpioAsked' = gpioAsked /\ Bcm!GpioEnter(c, all, num, val)
  BY DEF Bcm!PullUpDown
<1>2. val \in PullValues /\ all \in GpioSteps /\ all # << >> /\ Head(all) = "lock" /\ GpioType
  BY DEF PullValues, GpioSteps, GpioInv
<1> HIDE DEF all
<1>3. /\ At(c) = "idle" /\ At(c)' = "lock"
      /\ \A d \in Callers \ {c} : gpioCall'[d] = gpioCall[d] /\ At(d)' = At(d)
      /\ gpioCall'[c] = [steps |-> all, num |-> num, val |-> val, read |-> << >>]
      /\ gpioCall' \in [Callers -> [steps : GpioSteps, num : GpioLines \cup {0}, val : FnValues \cup PullValues,
                                    read : Fields \cup {<< >>}]]
  <2>1. num \in GpioLines \cup {0} /\ val \in FnValues \cup PullValues
    BY <1>2
  <2>2. QED
    BY <1>1, <1>2, <2>1, Entered, Zenon
<1>4. gpioCall'[c].num = num /\ gpioCall'[c].val = val
  <2>1. gpioCall'[c] = [steps |-> all, num |-> num, val |-> val, read |-> << >>]
    BY <1>3, Zenon
  <2>2. QED
    BY <2>1, SMTT(20)
<1>5. GpioType'
  BY <1>1, <1>2, <1>3, <1>4, Zenon DEF GpioType, Selecting, Pulling
<1>6. PullInv'
  <2>1. \A d \in Callers : Pulling(d)' <=> Pulling(d)
    BY <1>3, Zenon DEF Pulling
  <2>2. \A d \in Callers : Pulling(d) => gpioCall'[d] = gpioCall[d] /\ At(d)' = At(d)
    BY <1>3, Zenon DEF Pulling
  <2>3. QED
    BY <1>1, <2>1, <2>2, PullKeep, Zenon DEF GpioInv
<1>7. FnInv'
  <2>1. \A d \in Callers : Selecting(d)' <=> Selecting(d)
    BY <1>3, Zenon DEF Selecting
  <2>2. \A d \in Callers : Selecting(d) => gpioCall'[d] = gpioCall[d] /\ At(d)' = At(d)
    BY <1>3, Zenon DEF Selecting
  <2>3. QED
    BY <1>1, <2>1, <2>2, FnKeep, Zenon DEF GpioInv
<1>8. LevelInv'
  BY <1>1, LevelKeep, Zenon DEF GpioInv
<1>9. QED
  BY <1>5, <1>6, <1>7, <1>8 DEF GpioInv

\* The registers with a line clocked and pulled.
LEMMA ClockSet ==
    ASSUME NEW A, NEW B, NEW C, NEW D, NEW E, NEW F, NEW G,
           NEW e \in [fsel : A, level : B, clk : [C -> D], pud : E, pull : F, gpmu : G],
           NEW b \in C, NEW x \in D, NEW p \in F
    PROVE  [e EXCEPT !.clk[b] = x, !.pull = p]
           = [fsel |-> e.fsel, level |-> e.level, clk |-> [e.clk EXCEPT ![b] = x], pud |-> e.pud, pull |-> p,
              gpmu |-> e.gpmu]
<1> DEFINE w == [e EXCEPT !.clk[b] = x, !.pull = p]
<1>1. w \in [fsel : A, level : B, clk : [C -> D], pud : E, pull : F, gpmu : G]
  BY Zenon
<1>2. /\ w.fsel = e.fsel /\ w.level = e.level /\ w.clk = [e.clk EXCEPT ![b] = x] /\ w.pud = e.pud
      /\ w.pull = p /\ w.gpmu = e.gpmu
  OBVIOUS
<1> HIDE DEF w
<1>3. w = [fsel |-> e.fsel, level |-> e.level, clk |-> [e.clk EXCEPT ![b] = x], pud |-> e.pud, pull |-> p,
           gpmu |-> e.gpmu]
  BY <1>1, <1>2
<1>4. QED
  BY <1>3 DEF w

\* The registers with no line of a bank clocked, and gpmu released.
LEMMA ClockCleared ==
    ASSUME NEW A, NEW B, NEW C, NEW D, NEW E, NEW F, NEW G,
           NEW e \in [fsel : A, level : B, clk : [C -> D], pud : E, pull : F, gpmu : G],
           NEW b \in C, NEW x \in D, NEW m \in G
    PROVE  [e EXCEPT !.clk[b] = x, !.gpmu = m]
           = [fsel |-> e.fsel, level |-> e.level, clk |-> [e.clk EXCEPT ![b] = x], pud |-> e.pud, pull |-> e.pull,
              gpmu |-> m]
<1> DEFINE w == [e EXCEPT !.clk[b] = x, !.gpmu = m]
<1>1. w \in [fsel : A, level : B, clk : [C -> D], pud : E, pull : F, gpmu : G]
  BY Zenon
<1>2. /\ w.fsel = e.fsel /\ w.level = e.level /\ w.clk = [e.clk EXCEPT ![b] = x] /\ w.pud = e.pud
      /\ w.pull = e.pull /\ w.gpmu = m
  OBVIOUS
<1> HIDE DEF w
<1>3. w = [fsel |-> e.fsel, level |-> e.level, clk |-> [e.clk EXCEPT ![b] = x], pud |-> e.pud, pull |-> e.pull,
           gpmu |-> m]
  BY <1>1, <1>2
<1>4. QED
  BY <1>3 DEF w

\* A step of a call for a line: the goroutine is at the step after it, or done, and other
\* goroutines stay where they are.
LEMMA Stepped ==
    ASSUME GpioType, NEW c \in Callers, Bcm!GpioStep(c)
    PROVE  /\ At(c) \in {"read", "write", "lock", "control", "clock", "uncontrol", "unclock"}
           /\ At(c) = Head(gpioCall[c].steps)
           /\ At(c) = "read" => At(c)' = "write"
           /\ At(c) = "write" => At(c)' = "idle"
           /\ At(c) = "lock" => At(c)' = "control"
           /\ At(c) = "control" => At(c)' = "clock"
           /\ At(c) = "clock" => At(c)' = "uncontrol"
           /\ At(c) = "uncontrol" => At(c)' = "unclock"
           /\ At(c) = "unclock" => At(c)' = "idle"
           /\ \A d \in Callers \ {c} : gpioCall'[d] = gpioCall[d] /\ At(d)' = At(d)
           /\ At(c)' # "idle" => gpioCall'[c].num = gpioCall[c].num /\ gpioCall'[c].val = gpioCall[c].val
           /\ At(c) = "read" => gpioCall'[c].read = gpio.fsel[Bcm!Select(gpioCall[c].num)]
           /\ gpioCall' \in [Callers -> [steps : GpioSteps, num : GpioLines \cup {0}, val : FnValues \cup PullValues,
                                         read : Fields \cup {<< >>}]]
           /\ gpioCall[c].num \in GpioLines
<1> DEFINE g == gpioCall[c]
           s == g.steps
           o == Head(s)
           read == IF o = "read" THEN gpio.fsel[Bcm!Select(g.num)] ELSE g.read
           more == [steps |-> Tail(s), num |-> g.num, val |-> g.val, read |-> read]
<1>1. s # << >> /\ s \in GpioSteps /\ At(c) = o
  BY DEF Bcm!GpioStep, GpioType, At
<1>2. g \in [steps : GpioSteps, num : GpioLines \cup {0}, val : FnValues \cup PullValues, read : Fields \cup {<< >>}]
  BY DEF GpioType
<1>3. DOMAIN gpioCall = Callers
  BY DEF GpioType
<1>4. /\ Tail(s) \in GpioSteps
      /\ o = "read" => Tail(s) = <<"write">>
      /\ o = "write" => Tail(s) = << >>
      /\ o = "lock" => Tail(s) # << >> /\ Head(Tail(s)) = "control"
      /\ o = "control" => Tail(s) # << >> /\ Head(Tail(s)) = "clock"
      /\ o = "clock" => Tail(s) # << >> /\ Head(Tail(s)) = "uncontrol"
      /\ o = "uncontrol" => Tail(s) # << >> /\ Head(Tail(s)) = "unclock"
      /\ o = "unclock" => Tail(s) = << >>
      /\ o \in {"read", "write", "lock", "control", "clock", "uncontrol", "unclock"}
  BY <1>1, StepOrder, Zenon
<1>5. g.num \in GpioLines
  BY <1>1, <1>4, Zenon DEF GpioType
<1>6. read \in Fields \cup {<< >>}
  BY <1>2, <1>5, LineWhere, Zenon DEF GpioType
<1>7. gpioCall' = [gpioCall EXCEPT ![c] = IF Tail(s) = << >> THEN Bcm!Idle ELSE more]
  <2>1. gpioCall' = [gpioCall EXCEPT ![c] = IF Tail(s) = << >> THEN Bcm!Idle
                                            ELSE [g EXCEPT !.steps = Tail(@),
                                                           !.read = IF o = "read" THEN gpio.fsel[Bcm!Select(g.num)] ELSE @]]
    BY Zenon DEF Bcm!GpioStep
  <2>2. [g EXCEPT !.steps = Tail(@), !.read = IF o = "read" THEN gpio.fsel[Bcm!Select(g.num)] ELSE @] = more
    <3>1. [g EXCEPT !.steps = Tail(s), !.read = read] = more
      <4>1. Tail(s) \in GpioSteps
        BY <1>4, Zenon
      <4>2. PICK x \in GpioSteps, y \in Fields \cup {<< >>} : x = Tail(s) /\ y = read
        BY <1>6, <4>1, Zenon
      <4> HIDE DEF g, read, s
      <4>3. [g EXCEPT !.steps = x, !.read = y] = [steps |-> x, num |-> g.num, val |-> g.val, read |-> y]
        <5> DEFINE A == GpioLines \cup {0}
                   B == FnValues \cup PullValues
                   C == Fields \cup {<< >>}
        <5>1. y \in C
          OBVIOUS
        <5>2. PICK e \in [steps : GpioSteps, num : A, val : B, read : C] : e = g
          BY <1>2, Zenon
        <5> HIDE DEF A, B, C
        <5> DEFINE w == [e EXCEPT !.steps = x, !.read = y]
        <5>3. /\ w \in [steps : GpioSteps, num : A, val : B, read : C]
              /\ w.steps = x /\ w.num = e.num /\ w.val = e.val /\ w.read = y
          BY <5>1, Zenon
        <5> HIDE DEF w
        <5>4. w = [steps |-> x, num |-> e.num, val |-> e.val, read |-> y]
          BY <5>3
        <5>5. QED
          BY <5>2, <5>4, Zenon DEF w
      <4>4. QED
        BY <4>2, <4>3, Zenon
    <3>2. [g EXCEPT !.steps = Tail(@), !.read = IF o = "read" THEN gpio.fsel[Bcm!Select(g.num)] ELSE @]
          = [g EXCEPT !.steps = Tail(s), !.read = read]
      <4> HIDE DEF g
      <4>1. QED
        BY <1>2
    <3>3. QED
      BY <3>1, <3>2, Zenon
  <2>3. QED
    BY <2>1, <2>2, Zenon
<1>8. more \in [steps : GpioSteps, num : GpioLines \cup {0}, val : FnValues \cup PullValues, read : Fields \cup {<< >>}]
  <2> HIDE DEF read
  <2>1. QED
    BY <1>2, <1>4, <1>6, Zenon
<1>9. Bcm!Idle \in [steps : GpioSteps, num : GpioLines \cup {0}, val : FnValues \cup PullValues, read : Fields \cup {<< >>}]
  BY DEF Bcm!Idle, GpioSteps, FnValues
<1>10. gpioCall'[c] = IF Tail(s) = << >> THEN Bcm!Idle ELSE more
  <2> HIDE DEF more, s
  <2>1. QED
    BY <1>7, <1>3
<1>11. \A d \in Callers \ {c} : gpioCall'[d] = gpioCall[d]
  <2> HIDE DEF more, s
  <2>1. QED
    BY <1>7, <1>3
<1>12. gpioCall' \in [Callers -> [steps : GpioSteps, num : GpioLines \cup {0}, val : FnValues \cup PullValues,
                                  read : Fields \cup {<< >>}]]
  <2> HIDE DEF more, s
  <2>1. QED
    BY <1>7, <1>8, <1>9 DEF GpioType
<1>13. ASSUME Tail(s) = << >> PROVE At(c)' = "idle"
  <2>1. gpioCall'[c].steps = << >>
    BY <1>10, <1>13 DEF Bcm!Idle
  <2>2. QED
    BY <2>1, Zenon DEF At
<1>14. ASSUME Tail(s) # << >>
       PROVE  /\ At(c)' = Head(Tail(s)) /\ gpioCall'[c].num = g.num /\ gpioCall'[c].val = g.val
              /\ gpioCall'[c].read = read
  <2> HIDE DEF read
  <2>1. /\ gpioCall'[c].steps = Tail(s) /\ gpioCall'[c].num = g.num /\ gpioCall'[c].val = g.val
        /\ gpioCall'[c].read = read
    BY <1>10, <1>14, SMTT(20)
  <2>2. QED
    BY <1>14, <2>1, Zenon DEF At
<1>15. \A d \in Callers \ {c} : At(d)' = At(d)
  BY <1>11, Zenon DEF At
<1>16. Tail(s) = <<"write">> => Tail(s) # << >> /\ Head(Tail(s)) = "write"
  <2>1. <<"write">> # << >> /\ Head(<<"write">>) = "write"
    OBVIOUS
  <2>2. QED
    BY <2>1, Zenon
<1>17. o = "read" => gpioCall'[c].read = gpio.fsel[Bcm!Select(g.num)]
  BY <1>4, <1>14, <1>16, Zenon
<1>18. At(c)' # "idle" => gpioCall'[c].num = g.num /\ gpioCall'[c].val = g.val
  BY <1>13, <1>14, Zenon
<1>19. /\ o = "read" => At(c)' = "write"
       /\ o = "write" => At(c)' = "idle"
       /\ o = "lock" => At(c)' = "control"
       /\ o = "control" => At(c)' = "clock"
       /\ o = "clock" => At(c)' = "uncontrol"
       /\ o = "uncontrol" => At(c)' = "unclock"
       /\ o = "unclock" => At(c)' = "idle"
  BY <1>4, <1>13, <1>14, <1>16, Zenon
<1>20. QED
  BY <1>1, <1>4, <1>5, <1>11, <1>12, <1>15, <1>17, <1>18, <1>19, Zenon

\* The types of calls after a step.
LEMMA SteppedType ==
    ASSUME GpioType, NEW c \in Callers, Bcm!GpioStep(c)
    PROVE  /\ \A d \in Callers : At(d)' # "idle" => gpioCall'[d].num \in GpioLines
           /\ \A d \in Callers : Selecting(d)' => gpioCall'[d].val \in FnValues
           /\ \A d \in Callers : At(d)' = "write" => gpioCall'[d].read \in Fields
           /\ \A d \in Callers : Pulling(d)' \/ At(d)' = "lock" => gpioCall'[d].val \in PullValues
<1>1. \A d \in Callers \ {c} : gpioCall'[d] = gpioCall[d] /\ At(d)' = At(d)
  BY Stepped, Zenon
<1>2. /\ At(c)' # "idle" => gpioCall'[c].num = gpioCall[c].num /\ gpioCall'[c].val = gpioCall[c].val
      /\ At(c) = "read" => gpioCall'[c].read = gpio.fsel[Bcm!Select(gpioCall[c].num)]
      /\ gpioCall[c].num \in GpioLines
  BY Stepped, Zenon
<1>3. /\ At(c) \in {"read", "write", "lock", "control", "clock", "uncontrol", "unclock"}
      /\ At(c) = "read" => At(c)' = "write"
      /\ At(c) = "write" => At(c)' = "idle"
      /\ At(c) = "lock" => At(c)' = "control"
      /\ At(c) = "control" => At(c)' = "clock"
      /\ At(c) = "clock" => At(c)' = "uncontrol"
      /\ At(c) = "uncontrol" => At(c)' = "unclock"
      /\ At(c) = "unclock" => At(c)' = "idle"
  BY Stepped, Zenon
<1>4. At(c)' # "idle" => gpioCall'[c].num \in GpioLines
  BY <1>2, Zenon
<1>5. Selecting(c)' => gpioCall'[c].val \in FnValues
  BY <1>2, <1>3, Zenon DEF GpioType, Selecting
<1>6. At(c)' = "write" => gpioCall'[c].read \in Fields
  BY <1>2, <1>3, LineWhere, Zenon DEF GpioType
<1>7. Pulling(c)' \/ At(c)' = "lock" => gpioCall'[c].val \in PullValues
  BY <1>2, <1>3, Zenon DEF GpioType, Pulling
<1>8. ASSUME NEW d \in Callers \ {c}
      PROVE  /\ At(d)' # "idle" => gpioCall'[d].num \in GpioLines
             /\ Selecting(d)' => gpioCall'[d].val \in FnValues
             /\ At(d)' = "write" => gpioCall'[d].read \in Fields
             /\ Pulling(d)' \/ At(d)' = "lock" => gpioCall'[d].val \in PullValues
  BY <1>1, Zenon DEF GpioType, Selecting, Pulling
<1>9. QED
  BY <1>4, <1>5, <1>6, <1>7, <1>8, Zenon

\* SelectFunction reads the register, and writes what it read with its own line changed.
LEMMA FnStep ==
    ASSUME GpioInv, NEW c \in Callers, Bcm!GpioStep(c), Selecting(c)
    PROVE  GpioInv'
<1> DEFINE g == gpioCall[c]
           num == gpioCall[c].num
           r == Bcm!Select(num)
           new == [g.read EXCEPT ![num % PerSelect] = g.val]
<1>1. GpioType
  BY DEF GpioInv
<1>2. /\ At(c) = Head(gpioCall[c].steps)
      /\ At(c) = "read" => At(c)' = "write"
      /\ At(c) = "write" => At(c)' = "idle"
      /\ num \in GpioLines
      /\ At(c) = "read" => gpioCall'[c].read = gpio.fsel[r]
      /\ At(c)' # "idle" => gpioCall'[c].num = num /\ gpioCall'[c].val = gpioCall[c].val
      /\ \A d \in Callers \ {c} : gpioCall'[d] = gpioCall[d] /\ At(d)' = At(d)
      /\ gpioCall' \in [Callers -> [steps : GpioSteps, num : GpioLines \cup {0}, val : FnValues \cup PullValues,
                                    read : Fields \cup {<< >>}]]
  BY <1>1, Stepped, Zenon
<1>3. At(c) \in {"read", "write"}
  BY DEF Selecting
<1>4. gpioAsked' = gpioAsked
  BY <1>2, <1>3 DEF Bcm!GpioStep
<1>5. /\ At(c) = "read" => gpio' = gpio
      /\ At(c) = "write" => gpio' = [gpio EXCEPT !.fsel[r] = new]
  BY <1>2, Zenon DEF Bcm!GpioStep
<1>6. r \in Registers /\ num % PerSelect \in 0 .. PerSelect - 1
  BY <1>2, LineWhere, Zenon
<1>7. g.val \in FnValues /\ (At(c) = "write" => g.read \in Fields)
  BY <1>1 DEF GpioType
<1>8. At(c) = "write" => new \in Fields
  BY <1>6, <1>7, Zenon DEF Fields
<1>9. /\ gpio'.level = gpio.level /\ gpio'.clk = gpio.clk
      /\ gpio'.pud = gpio.pud /\ gpio'.pull = gpio.pull /\ gpio'.gpmu = gpio.gpmu
      /\ gpio' \in [fsel : [Registers -> Fields], level : [Banks -> SUBSET Nat], clk : [Banks -> SUBSET Nat],
                    pud : PullValues, pull : [GpioLines -> PullValues], gpmu : Callers \cup {Bcm!None}]
      /\ At(c) = "read" => gpio'.fsel = gpio.fsel
      /\ At(c) = "write" => gpio'.fsel = [gpio.fsel EXCEPT ![r] = new]
  <2> HIDE DEF new, r
  <2>1. QED
    BY <1>1, <1>3, <1>5, <1>6, <1>8 DEF GpioType
<1>10. GpioType'
  BY <1>1, <1>2, <1>4, <1>9, SteppedType, Zenon DEF GpioType
<1>11. PullInv'
  <2>1. ~Pulling(c) /\ ~Pulling(c)'
    BY <1>2, <1>3, Zenon DEF Pulling
  <2>2. \A d \in Callers : Pulling(d)' <=> Pulling(d)
    BY <1>2, <2>1, Zenon DEF Pulling
  <2>3. \A d \in Callers : Pulling(d) => gpioCall'[d] = gpioCall[d] /\ At(d)' = At(d)
    BY <1>2, <2>1, Zenon
  <2>4. QED
    BY <1>4, <1>9, <2>2, <2>3, PullKeep, Zenon DEF GpioInv
<1>12. LevelInv'
  BY <1>4, <1>9, LevelKeep, Zenon DEF GpioInv
<1>13. FnInv'
  <2>1. ASSUME NEW l \in GpioLines \ gpioAsked.raced
        PROVE  /\ \A d, e \in Callers : /\ Selecting(d)' /\ Bcm!Select(gpioCall'[d].num) = Bcm!Select(l)
                                        /\ Selecting(e)' /\ Bcm!Select(gpioCall'[e].num) = Bcm!Select(l)
                                        => d = e
               /\ \A d \in Callers : Selecting(d)' /\ Bcm!Select(gpioCall'[d].num) = Bcm!Select(l) =>
                     IF gpioCall'[d].num = l THEN gpioAsked.fn[l] = gpioCall'[d].val
                     ELSE IF At(d)' = "read" THEN Bcm!GetFunction(l)' = gpioAsked.fn[l]
                     ELSE gpioCall'[d].read[l % PerSelect] = gpioAsked.fn[l]
               /\ (\A d \in Callers : ~(Selecting(d)' /\ Bcm!Select(gpioCall'[d].num) = Bcm!Select(l))) =>
                     Bcm!GetFunction(l)' = gpioAsked.fn[l]
    <3>1. /\ \A d, e \in Callers : /\ Selecting(d) /\ Bcm!Select(gpioCall[d].num) = Bcm!Select(l)
                                   /\ Selecting(e) /\ Bcm!Select(gpioCall[e].num) = Bcm!Select(l)
                                   => d = e
          /\ \A d \in Callers : Selecting(d) /\ Bcm!Select(gpioCall[d].num) = Bcm!Select(l) =>
                IF gpioCall[d].num = l THEN gpioAsked.fn[l] = gpioCall[d].val
                ELSE IF At(d) = "read" THEN Bcm!GetFunction(l) = gpioAsked.fn[l]
                ELSE gpioCall[d].read[l % PerSelect] = gpioAsked.fn[l]
          /\ (\A d \in Callers : ~(Selecting(d) /\ Bcm!Select(gpioCall[d].num) = Bcm!Select(l))) =>
                Bcm!GetFunction(l) = gpioAsked.fn[l]
      BY <2>1, Zenon DEF GpioInv, FnInv
    <3>2. \A d \in Callers \ {c} : (Selecting(d)' <=> Selecting(d)) /\ gpioCall'[d] = gpioCall[d] /\ At(d)' = At(d)
      BY <1>2, Zenon DEF Selecting
    <3>3. Bcm!Select(l) \in Registers /\ l % PerSelect \in 0 .. PerSelect - 1
      BY LineWhere, Zenon
    <3>4. CASE Bcm!Select(l) = r
      <4>1. \A d \in Callers : Selecting(d) /\ Bcm!Select(gpioCall[d].num) = Bcm!Select(l) => d = c
        BY <3>1, <3>4, Zenon
      <4>2. \A d \in Callers : Selecting(d)' /\ Bcm!Select(gpioCall'[d].num) = Bcm!Select(l) => d = c
        BY <3>2, <4>1, Zenon
      <4>3. IF num = l THEN gpioAsked.fn[l] = g.val
            ELSE IF At(c) = "read" THEN Bcm!GetFunction(l) = gpioAsked.fn[l]
            ELSE g.read[l % PerSelect] = gpioAsked.fn[l]
        BY <3>1, <3>4, Zenon
      <4>4. CASE At(c) = "read"
        <5>1. Selecting(c)' /\ At(c)' = "write" /\ gpioCall'[c].num = num /\ gpioCall'[c].val = g.val
          BY <1>2, <4>4, Zenon DEF Selecting
        <5>2. gpioCall'[c].read[l % PerSelect] = Bcm!GetFunction(l)
          BY <1>2, <3>4, <4>4, Zenon DEF Bcm!GetFunction
        <5>3. IF gpioCall'[c].num = l THEN gpioAsked.fn[l] = gpioCall'[c].val
              ELSE gpioCall'[c].read[l % PerSelect] = gpioAsked.fn[l]
          BY <4>3, <4>4, <5>1, <5>2, Zenon
        <5>4. At(c)' # "read" /\ Bcm!Select(gpioCall'[c].num) = Bcm!Select(l)
          BY <3>4, <5>1, Zenon
        <5>5. QED
          BY <4>2, <5>1, <5>3, <5>4, Zenon
      <4>5. CASE At(c) = "write"
        <5>1. ~Selecting(c)'
          BY <1>2, <4>5, Zenon DEF Selecting
        <5>2. Bcm!GetFunction(l)' = new[l % PerSelect]
          <6>1. gpio'.fsel[Bcm!Select(l)] = new
            <7> HIDE DEF new, r
            <7>1. QED
              BY <1>1, <1>6, <1>9, <3>4, <4>5, Zenon DEF GpioType
          <6>2. QED
            BY <6>1, Zenon DEF Bcm!GetFunction
        <5>3. new[l % PerSelect] = IF l = num THEN g.val ELSE g.read[l % PerSelect]
          <6>1. l # num => l % PerSelect # num % PerSelect
            BY <1>2, <3>4, LineWhere, Zenon
          <6>2. DOMAIN g.read = 0 .. PerSelect - 1
            BY <1>7, <4>5 DEF Fields
          <6>3. QED
            BY <1>6, <3>3, <6>1, <6>2, Zenon
        <5>4. new[l % PerSelect] = gpioAsked.fn[l]
          BY <4>3, <4>5, <5>3, Zenon
        <5>5. QED
          BY <4>2, <5>1, <5>2, <5>4, Zenon
      <4>6. QED
        BY <1>3, <4>4, <4>5, Zenon
    <3>5. CASE Bcm!Select(l) # r
      <4>1. Bcm!GetFunction(l)' = Bcm!GetFunction(l)
        <5>1. gpio'.fsel[Bcm!Select(l)] = gpio.fsel[Bcm!Select(l)]
          <6> HIDE DEF new, r
          <6>1. QED
            BY <1>1, <1>3, <1>6, <1>9, <3>3, <3>5, Zenon DEF GpioType
        <5>2. QED
          BY <5>1, Zenon DEF Bcm!GetFunction
      <4>2. ~(Selecting(c)' /\ Bcm!Select(gpioCall'[c].num) = Bcm!Select(l))
        <5>1. Selecting(c)' => gpioCall'[c].num = num
          BY <1>2, Zenon DEF Selecting
        <5>2. QED
          BY <3>5, <5>1, Zenon
      <4>3. ~(Selecting(c) /\ Bcm!Select(gpioCall[c].num) = Bcm!Select(l))
        BY <3>5, Zenon
      <4>4. ASSUME NEW d \in Callers, NEW e \in Callers,
                   Selecting(d)', Bcm!Select(gpioCall'[d].num) = Bcm!Select(l),
                   Selecting(e)', Bcm!Select(gpioCall'[e].num) = Bcm!Select(l)
            PROVE  d = e
        BY <3>1, <3>2, <4>2, <4>4, Zenon
      <4>5. ASSUME NEW d \in Callers, Selecting(d)', Bcm!Select(gpioCall'[d].num) = Bcm!Select(l)
            PROVE  IF gpioCall'[d].num = l THEN gpioAsked.fn[l] = gpioCall'[d].val
                   ELSE IF At(d)' = "read" THEN Bcm!GetFunction(l)' = gpioAsked.fn[l]
                   ELSE gpioCall'[d].read[l % PerSelect] = gpioAsked.fn[l]
        <5>1. d # c /\ Selecting(d) /\ gpioCall'[d] = gpioCall[d] /\ At(d)' = At(d)
          BY <3>2, <4>2, <4>5, Zenon
        <5>2. QED
          BY <3>1, <4>1, <4>5, <5>1, Zenon
      <4>6. ASSUME \A d \in Callers : ~(Selecting(d)' /\ Bcm!Select(gpioCall'[d].num) = Bcm!Select(l))
            PROVE  Bcm!GetFunction(l)' = gpioAsked.fn[l]
        <5>1. \A d \in Callers : ~(Selecting(d) /\ Bcm!Select(gpioCall[d].num) = Bcm!Select(l))
          BY <3>2, <4>3, <4>6, Zenon
        <5>2. QED
          BY <3>1, <4>1, <5>1, Zenon
      <4>7. QED
        BY <4>4, <4>5, <4>6, Zenon
    <3>6. QED
      BY <3>4, <3>5, Zenon
  <2>2. \A l, m \in GpioLines : l \in gpioAsked.raced /\ Bcm!Select(l) = Bcm!Select(m) => m \in gpioAsked.raced
    BY Zenon DEF GpioInv, FnInv
  <2>3. QED
    BY <1>4, <2>1, <2>2, Zenon DEF FnInv
<1>14. QED
  BY <1>10, <1>11, <1>12, <1>13 DEF GpioInv

\* PullUpDown has gpmu from its control signal to the end of its clock.
LEMMA PullStep ==
    ASSUME GpioInv, NEW c \in Callers, Bcm!GpioStep(c), ~Selecting(c)
    PROVE  GpioInv'
<1> DEFINE num == gpioCall[c].num
           val == gpioCall[c].val
           b == Bcm!Bank(num)
           pulled == [l \in GpioLines |-> IF Bcm!Bank(l) = b /\ l % PerBank = num % PerBank
                                             /\ l % PerBank \notin gpio.clk[Bcm!Bank(l)]
                                          THEN gpio.pud ELSE gpio.pull[l]]
<1>1. GpioType /\ PullInv
  BY DEF GpioInv
<1>2. /\ At(c) = Head(gpioCall[c].steps)
      /\ At(c) \in {"read", "write", "lock", "control", "clock", "uncontrol", "unclock"}
      /\ At(c) = "lock" => At(c)' = "control"
      /\ At(c) = "control" => At(c)' = "clock"
      /\ At(c) = "clock" => At(c)' = "uncontrol"
      /\ At(c) = "uncontrol" => At(c)' = "unclock"
      /\ At(c) = "unclock" => At(c)' = "idle"
      /\ num \in GpioLines
      /\ At(c)' # "idle" => gpioCall'[c].num = num /\ gpioCall'[c].val = val
      /\ \A d \in Callers \ {c} : gpioCall'[d] = gpioCall[d] /\ At(d)' = At(d)
      /\ gpioCall' \in [Callers -> [steps : GpioSteps, num : GpioLines \cup {0}, val : FnValues \cup PullValues,
                                    read : Fields \cup {<< >>}]]
  BY <1>1, Stepped, Zenon
<1>3. At(c) \in {"lock", "control", "clock", "uncontrol", "unclock"}
  BY <1>2, Zenon DEF Selecting
<1>4. b \in Banks /\ num % PerBank \in Nat /\ val \in PullValues /\ 0 \in PullValues
  BY <1>1, <1>2, <1>3, LineWhere, Zenon DEF GpioType, Pulling, PullValues
<1>5. /\ gpioAsked' = IF At(c) = "clock" THEN [gpioAsked EXCEPT !.pull[num] = val] ELSE gpioAsked
      /\ At(c) = "lock" => gpio.gpmu = Bcm!None /\ gpio' = [gpio EXCEPT !.gpmu = c]
      /\ At(c) = "control" => gpio' = [gpio EXCEPT !.pud = val]
      /\ At(c) = "clock" => gpio' = [gpio EXCEPT !.clk[b] = {num % PerBank}, !.pull = pulled]
      /\ At(c) = "uncontrol" => gpio' = [gpio EXCEPT !.pud = 0]
      /\ At(c) = "unclock" => gpio' = [gpio EXCEPT !.clk[b] = {}, !.gpmu = Bcm!None]
  BY <1>2, Zenon DEF Bcm!GpioStep
<1>6. pulled \in [GpioLines -> PullValues]
  BY <1>1 DEF GpioType
<1>7. /\ gpio'.fsel = gpio.fsel /\ gpio'.level = gpio.level
      /\ gpio'.gpmu = IF At(c) = "lock" THEN c ELSE IF At(c) = "unclock" THEN Bcm!None ELSE gpio.gpmu
      /\ gpio'.pud = IF At(c) = "control" THEN val ELSE IF At(c) = "uncontrol" THEN 0 ELSE gpio.pud
      /\ gpio'.clk = IF At(c) = "clock" THEN [gpio.clk EXCEPT ![b] = {num % PerBank}]
                     ELSE IF At(c) = "unclock" THEN [gpio.clk EXCEPT ![b] = {}] ELSE gpio.clk
      /\ gpio'.pull = IF At(c) = "clock" THEN pulled ELSE gpio.pull
      /\ gpio' \in [fsel : [Registers -> Fields], level : [Banks -> SUBSET Nat], clk : [Banks -> SUBSET Nat],
                    pud : PullValues, pull : [GpioLines -> PullValues], gpmu : Callers \cup {Bcm!None}]
  <2> HIDE DEF pulled, b, val, num
  <2>1. gpio \in [fsel : [Registers -> Fields], level : [Banks -> SUBSET Nat], clk : [Banks -> SUBSET Nat],
                  pud : PullValues, pull : [GpioLines -> PullValues], gpmu : Callers \cup {Bcm!None}]
    BY <1>1 DEF GpioType
  <2>2. CASE At(c) = "lock"
    BY <1>5, <2>1, <2>2
  <2>3. CASE At(c) = "control"
    BY <1>4, <1>5, <2>1, <2>3
  <2>4. CASE At(c) = "clock"
    <3>1. {num % PerBank} \in SUBSET Nat
      BY <1>4
    <3>2. gpio' = [fsel |-> gpio.fsel, level |-> gpio.level, clk |-> [gpio.clk EXCEPT ![b] = {num % PerBank}],
                   pud |-> gpio.pud, pull |-> pulled, gpmu |-> gpio.gpmu]
      BY <1>4, <1>5, <1>6, <2>1, <2>4, <3>1, ClockSet, Zenon
    <3>3. QED
      BY <1>6, <2>1, <2>4, <3>1, <3>2, Zenon
  <2>5. CASE At(c) = "uncontrol"
    BY <1>4, <1>5, <2>1, <2>5
  <2>6. CASE At(c) = "unclock"
    <3>1. {} \in SUBSET Nat /\ Bcm!None \in Callers \cup {Bcm!None}
      OBVIOUS
    <3>2. gpio' = [fsel |-> gpio.fsel, level |-> gpio.level, clk |-> [gpio.clk EXCEPT ![b] = {}],
                   pud |-> gpio.pud, pull |-> gpio.pull, gpmu |-> Bcm!None]
      <4>1. gpio' = [gpio EXCEPT !.clk[b] = {}, !.gpmu = Bcm!None] /\ b \in Banks
        BY <1>4, <1>5, <2>6, Zenon
      <4>2. QED
        BY <2>1, <3>1, <4>1, ClockCleared, Zenon
    <3>3. QED
      BY <2>1, <2>6, <3>1, <3>2, Zenon
  <2>7. QED
    BY <1>3, <2>2, <2>3, <2>4, <2>5, <2>6, Zenon
<1>8. /\ gpioAsked'.fn = gpioAsked.fn /\ gpioAsked'.raced = gpioAsked.raced /\ gpioAsked'.level = gpioAsked.level
      /\ gpioAsked'.pull = IF At(c) = "clock" THEN [gpioAsked.pull EXCEPT ![num] = val] ELSE gpioAsked.pull
      /\ gpioAsked' \in [fn : [GpioLines -> FnValues], level : [GpioLines -> BOOLEAN],
                         pull : [GpioLines -> PullValues], raced : SUBSET GpioLines]
  <2> HIDE DEF val, num
  <2>1. QED
    BY <1>1, <1>2, <1>4, <1>5, Zenon DEF GpioType
<1>9. GpioType'
  BY <1>1, <1>2, <1>7, <1>8, SteppedType, Zenon DEF GpioType
<1>10. LevelInv'
  BY <1>7, <1>8, LevelKeep, Zenon DEF GpioInv
<1>11. FnInv'
  <2>1. ~Selecting(c)'
    BY <1>2, <1>3, Zenon DEF Selecting
  <2>2. \A d \in Callers : Selecting(d)' <=> Selecting(d)
    BY <1>2, <2>1, Zenon DEF Selecting
  <2>3. \A d \in Callers : Selecting(d) => gpioCall'[d] = gpioCall[d] /\ At(d)' = At(d)
    BY <1>2, Zenon
  <2>4. QED
    BY <1>7, <1>8, <2>2, <2>3, FnKeep, Zenon DEF GpioInv
<1>12. \A d \in Callers \ {c} : ~Pulling(d) /\ ~Pulling(d)'
  <2>1. At(c) # "lock" => gpio.gpmu = c
    BY <1>1, <1>3, Zenon DEF PullInv, Pulling
  <2>2. At(c) = "lock" => gpio.gpmu \notin Callers
    BY <1>5, SomeCaller
  <2>3. \A d \in Callers \ {c} : ~Pulling(d)
    BY <1>1, <2>1, <2>2, Zenon DEF PullInv
  <2>4. QED
    BY <1>2, <2>3, Zenon DEF Pulling
<1>13. \A d \in Callers : Clocked(d) => d = c /\ At(c) \in {"uncontrol", "unclock"}
  BY <1>12 DEF Clocked, Pulling
<1>14. At(c) \in {"lock", "control", "clock"} => \A a \in Banks : gpio.clk[a] = {}
  BY <1>1, <1>13, Zenon DEF PullInv
<1>15. At(c) \in {"uncontrol", "unclock"} => \A a \in Banks : a # b => gpio.clk[a] = {}
  BY <1>1, <1>13, Zenon DEF PullInv
<1>16. \A d \in Callers : Pulling(d)' <=> gpio'.gpmu = d
  <2>1. Pulling(c)' <=> At(c) # "unclock"
    BY <1>2, <1>3, Zenon DEF Pulling
  <2>2. At(c) # "lock" => gpio.gpmu = c
    BY <1>1, <1>3, Zenon DEF PullInv, Pulling
  <2>3. IF At(c) = "unclock" THEN gpio'.gpmu = Bcm!None ELSE gpio'.gpmu = c
    BY <1>7, <2>2, Zenon
  <2>4. QED
    BY <1>12, <2>1, <2>3, SomeCaller
<1>17. \A d \in Callers : At(d)' = "clock" => gpio'.pud = gpioCall'[d].val
  <2>1. \A d \in Callers : At(d)' = "clock" => d = c
    BY <1>12 DEF Pulling
  <2>2. At(c)' = "clock" => At(c) = "control" /\ gpioCall'[c].val = val
    BY <1>2, <1>3, Zenon
  <2>3. QED
    BY <1>7, <2>1, <2>2, Zenon
<1>18. \A a \in Banks : gpio'.clk[a] # {} => \E d \in Callers : Clocked(d)' /\ Bcm!Bank(gpioCall'[d].num) = a
  <2>1. At(c) \in {"clock", "uncontrol"} => Clocked(c)' /\ Bcm!Bank(gpioCall'[c].num) = b
    BY <1>2, Zenon DEF Clocked
  <2>2. ASSUME NEW a \in Banks, gpio'.clk[a] # {} PROVE At(c) \in {"clock", "uncontrol"} /\ a = b
    <3> HIDE DEF b, num
    <3>1. gpio.clk \in [Banks -> SUBSET Nat]
      BY <1>1 DEF GpioType
    <3>2. CASE At(c) \in {"lock", "control"}
      BY <1>7, <1>14, <2>2, <3>2, Zenon
    <3>3. CASE At(c) = "clock"
      BY <1>7, <1>14, <2>2, <3>1, <3>3, Zenon
    <3>4. CASE At(c) = "uncontrol"
      BY <1>7, <1>15, <2>2, <3>4, Zenon
    <3>5. CASE At(c) = "unclock"
      BY <1>7, <1>15, <2>2, <3>1, <3>5, Zenon
    <3>6. QED
      BY <1>3, <3>2, <3>3, <3>4, <3>5
  <2>3. QED
    BY <2>1, <2>2, Zenon
<1>19. \A l \in GpioLines : gpio'.pull[l] = gpioAsked'.pull[l]
  <2>1. \A l \in GpioLines : gpio.pull[l] = gpioAsked.pull[l]
    BY <1>1, Zenon DEF PullInv
  <2>2. CASE At(c) # "clock"
    BY <1>7, <1>8, <2>1, <2>2, Zenon
  <2>3. CASE At(c) = "clock"
    <3>1. SUFFICES ASSUME NEW l \in GpioLines PROVE pulled[l] = [gpioAsked.pull EXCEPT ![num] = val][l]
      BY <1>7, <1>8, <2>3, Zenon
    <3>2. Bcm!Bank(l) \in Banks
      BY LineWhere
    <3>3. gpio.clk[Bcm!Bank(l)] = {}
      BY <1>14, <2>3, <3>2, Zenon
    <3>4. Bcm!Bank(l) = b /\ l % PerBank = num % PerBank <=> l = num
      BY <1>2, LineWhere, Zenon
    <3>5. gpio.pud = val
      BY <1>1, <2>3, Zenon DEF PullInv
    <3>6. pulled[l] = IF l = num THEN val ELSE gpio.pull[l]
      BY <3>3, <3>4, <3>5, Zenon
    <3>7. DOMAIN gpioAsked.pull = GpioLines
      BY <1>1 DEF GpioType
    <3> HIDE DEF pulled, num, val
    <3>8. QED
      BY <2>1, <3>6, <3>7, Zenon
  <2>4. QED
    BY <2>2, <2>3, Zenon
<1>20. PullInv'
  BY <1>16, <1>17, <1>18, <1>19, Zenon DEF PullInv
<1>21. QED
  BY <1>9, <1>10, <1>11, <1>20 DEF GpioInv

\* Each step of a goroutine keeps the invariant of the lines.
LEMMA GpioKept == GpioInv /\ Bcm!GpioNext => GpioInv'
BY SelectStep, LevelStep, PullEnter, FnStep, PullStep, Zenon DEF Bcm!GpioNext

\* The invariant says what calls for lines promise.
LEMMA GpioOwn == GpioInv => Bcm!LinesOwn
<1> SUFFICES ASSUME GpioInv, NEW l \in GpioLines
             PROVE  /\ gpio.pull[l] = gpioAsked.pull[l]
                    /\ Bcm!Value(l) = gpioAsked.level[l]
                    /\ l \notin gpioAsked.raced /\ (\A c \in Callers : gpioCall[c].steps = << >>) =>
                          Bcm!GetFunction(l) = gpioAsked.fn[l]
  BY Zenon DEF Bcm!LinesOwn
<1>1. gpio.pull[l] = gpioAsked.pull[l]
  BY Zenon DEF GpioInv, PullInv
<1>2. Bcm!Value(l) = gpioAsked.level[l]
  <2>1. Bcm!Value(l) <=> gpioAsked.level[l]
    BY Zenon DEF GpioInv, LevelInv
  <2>2. gpioAsked.level[l] \in BOOLEAN
    BY DEF GpioInv, GpioType
  <2>3. QED
    BY <2>1, <2>2 DEF Bcm!Value
<1>3. ASSUME l \notin gpioAsked.raced, \A c \in Callers : gpioCall[c].steps = << >>
      PROVE  Bcm!GetFunction(l) = gpioAsked.fn[l]
  <2>1. \A c \in Callers : At(c) = "idle"
    BY <1>3, Zenon DEF At
  <2>2. \A c \in Callers : ~Selecting(c)
    BY <2>1 DEF Selecting
  <2>3. QED
    BY <1>3, <2>2, Zenon DEF GpioInv, FnInv
<1>4. QED
  BY <1>1, <1>2, <1>3, Zenon

-----------------------------------------------------------------------------
(* The tags of a message.                                                  *)

INSTANCE SequenceTheorems
INSTANCE WellFoundedInduction

\* A set of numbers that is not empty has a least number.
LEMMA LeastNumber ==
    ASSUME NEW T \in SUBSET Nat, T # {}
    PROVE  \E x \in T : \A y \in T : x <= y
<1>1. \E x \in T : \A y \in T : ~(<<y, x>> \in OpToRel(<, Nat))
  BY NatLessThanWellFounded, WFMin, Zenon
<1>2. PICK x \in T : \A y \in T : ~(<<y, x>> \in OpToRel(<, Nat))
  BY <1>1, Zenon
<1>3. ASSUME NEW y \in T PROVE x <= y
  <2>1. ~(<<y, x>> \in OpToRel(<, Nat))
    BY <1>2, Zenon
  <2>2. y < x => <<y, x>> \in OpToRel(<, Nat)
    BY DEF OpToRel
  <2>3. ~(y < x)
    BY <2>1, <2>2, Zenon
  <2>4. QED
    BY <2>3
<1>4. QED
  BY <1>3

\* Induction, for sets of numbers.
LEMMA SetInduction ==
    ASSUME NEW S \in SUBSET Nat, 0 \in S, \A n \in S : n + 1 \in S
    PROVE  S = Nat
<1>1. SUFFICES ASSUME Nat \ S # {} PROVE FALSE
  BY Zenon
<1>2. PICK x \in Nat \ S : \A y \in Nat \ S : x <= y
  BY <1>1, LeastNumber, Zenon
<1>3. x # 0 /\ x - 1 \in Nat /\ x - 1 \notin Nat \ S
  BY <1>2
<1>4. (x - 1) + 1 \in S
  BY <1>3
<1>5. QED
  BY <1>2, <1>4

\* Padding never takes away from the 12 bytes of a tag's header.
LEMMA PaddedPositive == ASSUME NEW n \in Nat PROVE Bcm!Padded(n) \in Nat /\ Bcm!Padded(n) >= 12
BY DEF Bcm!Padded

\* Offsets of tags are defined: a sum over the tags exists.
LEMMA SumExists ==
    ASSUME NEW t \in Seq(Nat)
    PROVE  \E f \in [0 .. Len(t) -> Nat] : /\ f[0] = 8
                                           /\ \A j \in 1 .. Len(t) : f[j] = f[j - 1] + Bcm!Padded(t[j])
<1> DEFINE N == Len(t)
           Good(n, f) == f[0] = 8 /\ \A j \in 1 .. n : f[j] = f[j - 1] + Bcm!Padded(t[j])
           Has(n) == \E f \in [0 .. n -> Nat] : Good(n, f)
           S == {n \in Nat : n <= N => Has(n)}
<1>1. N \in Nat /\ \A j \in 1 .. N : t[j] \in Nat
  OBVIOUS
<1>2. Has(0)
  <2>1. [k \in 0 .. 0 |-> 8] \in [0 .. 0 -> Nat] /\ Good(0, [k \in 0 .. 0 |-> 8])
    OBVIOUS
  <2>2. QED
    BY <2>1, Zenon
<1>3. ASSUME NEW n \in Nat, Has(n), n + 1 <= N PROVE Has(n + 1)
  <2>1. PICK f \in [0 .. n -> Nat] : Good(n, f)
    BY <1>3, Zenon
  <2>2. PICK p \in Nat : p = Bcm!Padded(t[n + 1])
    <3>1. t[n + 1] \in Nat
      BY <1>1, <1>3
    <3>2. QED
      BY <3>1, PaddedPositive, Zenon
  <2> DEFINE h == [k \in 0 .. n + 1 |-> IF k = n + 1 THEN f[n] + p ELSE f[k]]
  <2>3. h \in [0 .. n + 1 -> Nat]
    OBVIOUS
  <2>4. h[0] = 8
    BY <2>1
  <2>5. ASSUME NEW j \in 1 .. n + 1 PROVE h[j] = h[j - 1] + Bcm!Padded(t[j])
    <3>1. CASE j = n + 1
      <4>1. h[n + 1] = f[n] + p /\ h[n] = f[n] /\ (n + 1) - 1 = n
        OBVIOUS
      <4> HIDE DEF h
      <4>2. QED
        BY <2>2, <3>1, <4>1
    <3>2. CASE j # n + 1
      <4>1. j \in 1 .. n /\ j - 1 \in 0 .. n /\ j \in 0 .. n + 1 /\ j - 1 \in 0 .. n + 1 /\ j - 1 # n + 1
        BY <3>2
      <4>2. h[j] = f[j] /\ h[j - 1] = f[j - 1]
        BY <3>2, <4>1
      <4>3. QED
        BY <2>1, <4>1, <4>2, Zenon
    <3>3. QED
      BY <3>1, <3>2
  <2> HIDE DEF h
  <2>6. Good(n + 1, h)
    BY <2>4, <2>5
  <2>7. QED
    BY <2>3, <2>6, Zenon
<1> HIDE DEF Has
<1>4. S \in SUBSET Nat /\ 0 \in S
  BY <1>2
<1>5. ASSUME NEW n \in S PROVE n + 1 \in S
  <2>1. n \in Nat /\ n + 1 \in Nat /\ (n + 1 <= N => n <= N)
    BY <1>1
  <2>2. n + 1 <= N => Has(n + 1)
    BY <1>3, <2>1, Zenon
  <2>3. QED
    BY <2>1, <2>2, Zenon
<1> HIDE DEF S
<1>6. S = Nat
  BY <1>4, <1>5, SetInduction, Zenon
<1>7. N \in S /\ N <= N
  BY <1>1, <1>6
<1>8. Has(N)
  BY <1>7 DEF S
<1>9. QED
  BY <1>8, Zenon DEF Has

\* The offsets of the tags: the first is 8, each next one is the padded length further.
LEMMA Offsets ==
    ASSUME NEW t \in Seq(Nat)
    PROVE  \E f \in [0 .. Len(t) -> Nat] :
               /\ \A k \in 1 .. Len(t) + 1 : Bcm!TagOffset(t, k) = f[k - 1]
               /\ f[0] = 8
               /\ \A j \in 1 .. Len(t) : f[j] = f[j - 1] + Bcm!Padded(t[j])
<1> DEFINE Step(s) == [j \in 0 .. Len(t) |-> IF j = 0 THEN 8 ELSE s[j - 1] + Bcm!Padded(t[j])]
           sum == CHOOSE s : s = Step(s)
<1>1. PICK f \in [0 .. Len(t) -> Nat] : f[0] = 8 /\ \A j \in 1 .. Len(t) : f[j] = f[j - 1] + Bcm!Padded(t[j])
  BY SumExists
<1>2. f = Step(f)
  <2>1. \A j \in 0 .. Len(t) : f[j] = IF j = 0 THEN 8 ELSE f[j - 1] + Bcm!Padded(t[j])
    BY <1>1
  <2>2. QED
    BY <1>1, <2>1
<1>3. sum = Step(sum)
  BY <1>2, Zenon
<1>4. \A k \in 1 .. Len(t) + 1 : Bcm!TagOffset(t, k) = sum[k - 1]
  BY DEF Bcm!TagOffset
<1> HIDE DEF sum
<1>5. Len(t) \in Nat /\ \A j \in 1 .. Len(t) : t[j] \in Nat /\ Bcm!Padded(t[j]) \in Nat
  <2>1. Len(t) \in Nat /\ \A j \in 1 .. Len(t) : t[j] \in Nat
    OBVIOUS
  <2>2. QED
    BY <2>1, PaddedPositive, Zenon
<1>6. DOMAIN sum = 0 .. Len(t) /\ sum[0] = 8 /\ \A j \in 1 .. Len(t) : sum[j] = sum[j - 1] + Bcm!Padded(t[j])
  <2>1. DOMAIN sum = 0 .. Len(t) /\ \A j \in 0 .. Len(t) : sum[j] = IF j = 0 THEN 8 ELSE sum[j - 1] + Bcm!Padded(t[j])
    BY <1>3, Zenon
  <2>2. QED
    BY <1>5, <2>1
<1>7. \A j \in 0 .. Len(t) : sum[j] = f[j]
  <2> DEFINE S == {n \in Nat : n <= Len(t) => sum[n] = f[n]}
  <2>1. 0 \in S
    BY <1>1, <1>6
  <2>2. ASSUME NEW n \in S PROVE n + 1 \in S
    <3>1. SUFFICES ASSUME n + 1 <= Len(t) PROVE sum[n + 1] = f[n + 1]
      OBVIOUS
    <3>2. n + 1 \in 1 .. Len(t) /\ (n + 1) - 1 = n /\ sum[n] = f[n]
      BY <1>5, <3>1
    <3>3. QED
      BY <1>1, <1>6, <3>2
  <2>3. S \in SUBSET Nat
    OBVIOUS
  <2> HIDE DEF S
  <2>4. S = Nat
    BY <2>1, <2>2, <2>3, SetInduction
  <2>5. QED
    BY <1>5, <2>4 DEF S
<1>8. \A k \in 1 .. Len(t) + 1 : Bcm!TagOffset(t, k) = f[k - 1]
  <2>1. \A k \in 1 .. Len(t) + 1 : k - 1 \in 0 .. Len(t)
    BY <1>5
  <2>2. QED
    BY <1>4, <1>7, <2>1, Zenon
<1>9. QED
  BY <1>1, <1>8, Zenon

\* Later tags are at greater offsets.
LEMMA OffsetsGrow ==
    ASSUME NEW t \in Seq(Nat), NEW f \in [0 .. Len(t) -> Nat],
           \A j \in 1 .. Len(t) : f[j] = f[j - 1] + Bcm!Padded(t[j])
    PROVE  \A i, j \in 0 .. Len(t) : i # j => f[i] # f[j]
<1> DEFINE S == {d \in Nat : \A i \in 0 .. Len(t) : d > 0 /\ i + d <= Len(t) => f[i] < f[i + d]}
<1>1. 0 \in S
  OBVIOUS
<1>2. Len(t) \in Nat /\ \A j \in 1 .. Len(t) : f[j] > f[j - 1]
  <2>1. Len(t) \in Nat /\ \A j \in 1 .. Len(t) : t[j] \in Nat
    OBVIOUS
  <2>2. ASSUME NEW j \in 1 .. Len(t) PROVE f[j] > f[j - 1]
    <3>1. PICK p \in Nat : p = Bcm!Padded(t[j]) /\ p >= 12
      BY <2>1, PaddedPositive, Zenon
    <3>2. PICK q \in Nat : q = f[j - 1]
      <4>1. j - 1 \in 0 .. Len(t)
        BY <2>1
      <4>2. QED
        BY <4>1, Zenon
    <3>3. f[j] = q + p
      BY <3>1, <3>2, Zenon
    <3>4. q + p > q
      BY <3>1
    <3>5. QED
      BY <3>2, <3>3, <3>4, Zenon
  <2>3. QED
    BY <2>1, <2>2, Zenon
<1>3. ASSUME NEW d \in S PROVE d + 1 \in S
  <2>1. SUFFICES ASSUME NEW i \in 0 .. Len(t), i + (d + 1) <= Len(t) PROVE f[i] < f[i + (d + 1)]
    OBVIOUS
  <2>2. i + (d + 1) \in 1 .. Len(t) /\ (i + (d + 1)) - 1 = i + d /\ i + d \in 0 .. Len(t)
    BY <1>2, <2>1
  <2>3. f[i + d] < f[i + (d + 1)]
    BY <1>2, <2>2
  <2>4. d > 0 => f[i] < f[i + d]
    BY <2>2
  <2>5. d = 0 => f[i + d] = f[i]
    BY <2>1
  <2>6. i + (d + 1) \in 0 .. Len(t) /\ d \in Nat
    BY <2>2
  <2>7. PICK x \in Nat, y \in Nat, z \in Nat : x = f[i] /\ y = f[i + d] /\ z = f[i + (d + 1)]
    BY <2>2, <2>6, Zenon
  <2>8. y < z /\ (d > 0 => x < y) /\ (d = 0 => y = x)
    BY <2>3, <2>4, <2>5, <2>7, Zenon
  <2>9. x < z
    BY <2>6, <2>8
  <2>10. QED
    BY <2>7, <2>9, Zenon
<1>4. S \in SUBSET Nat
  OBVIOUS
<1> HIDE DEF S
<1>5. S = Nat
  BY <1>1, <1>3, <1>4, SetInduction, Zenon
<1>6. ASSUME NEW i \in 0 .. Len(t), NEW j \in 0 .. Len(t), i < j PROVE f[i] # f[j]
  <2>1. j - i \in Nat /\ j - i > 0 /\ i + (j - i) = j /\ j <= Len(t)
    BY <1>2, <1>6
  <2>2. j - i \in S
    BY <1>5, <2>1
  <2>3. f[i] < f[i + (j - i)]
    BY <2>1, <2>2 DEF S
  <2>4. f[i] < f[j]
    BY <2>1, <2>3, Zenon
  <2>5. f[i] \in Nat
    OBVIOUS
  <2>6. QED
    BY <2>4, <2>5
<1>7. ASSUME NEW i \in 0 .. Len(t), NEW j \in 0 .. Len(t), i # j PROVE f[i] # f[j]
  <2>1. i < j \/ j < i
    BY <1>2, <1>7
  <2>2. QED
    BY <1>6, <2>1, Zenon
<1>8. QED
  BY <1>7, Zenon

\* Call finds in an answer the tags it wrote, whatever their lengths.
LEMMA RoundTrip == ASSUME NEW t \in Seq(Nat) PROVE Bcm!Decode(Bcm!Encode(t)) = t
<1> DEFINE n == Len(t)
           buf == Bcm!Encode(t)
           Step(g) == [o \in Nat |-> IF o \notin DOMAIN buf \/ buf[o] = << >> THEN << >>
                                     ELSE buf[o] \o g[o + Bcm!Padded(buf[o][1])]]
           from == CHOOSE g : g = Step(g)
<1>1. n \in Nat /\ \A k \in 1 .. n : t[k] \in Nat
  OBVIOUS
<1>2. PICK f \in [0 .. n -> Nat] : /\ \A k \in 1 .. n + 1 : Bcm!TagOffset(t, k) = f[k - 1]
                                   /\ f[0] = 8
                                   /\ \A j \in 1 .. n : f[j] = f[j - 1] + Bcm!Padded(t[j])
  BY Offsets
<1>3. \A i, j \in 0 .. n : i # j => f[i] # f[j]
  BY <1>2, OffsetsGrow, Zenon
<1>4. DOMAIN buf = {f[j] : j \in 0 .. n}
  <2>1. DOMAIN buf = {Bcm!TagOffset(t, k) : k \in 1 .. n + 1}
    BY DEF Bcm!Encode
  <2>2. {Bcm!TagOffset(t, k) : k \in 1 .. n + 1} = {f[k - 1] : k \in 1 .. n + 1}
    BY <1>2
  <2>3. {f[k - 1] : k \in 1 .. n + 1} = {f[j] : j \in 0 .. n}
    <3>1. \A j \in 0 .. n : j + 1 \in 1 .. n + 1 /\ (j + 1) - 1 = j
      BY <1>1
    <3>2. \A k \in 1 .. n + 1 : k - 1 \in 0 .. n
      BY <1>1
    <3>3. ASSUME NEW x \in {f[j] : j \in 0 .. n} PROVE x \in {f[k - 1] : k \in 1 .. n + 1}
      <4>1. PICK j \in 0 .. n : x = f[j]
        OBVIOUS
      <4>2. x = f[(j + 1) - 1] /\ j + 1 \in 1 .. n + 1
        BY <3>1, <4>1
      <4>3. QED
        BY <4>2, Zenon
    <3>4. ASSUME NEW x \in {f[k - 1] : k \in 1 .. n + 1} PROVE x \in {f[j] : j \in 0 .. n}
      BY <3>2
    <3>5. QED
      BY <3>3, <3>4, Zenon
  <2>4. QED
    BY <2>1, <2>2, <2>3, Zenon
<1>5. \A o \in DOMAIN buf : buf[o] = IF o = f[n] THEN << >> ELSE << t[CHOOSE k \in DOMAIN t : Bcm!TagOffset(t, k) = o] >>
  <2>1. Bcm!TagOffset(t, n + 1) = f[n]
    <3>1. n + 1 \in 1 .. n + 1 /\ (n + 1) - 1 = n
      BY <1>1
    <3>2. QED
      BY <1>2, <3>1
  <2>3. \A o \in {Bcm!TagOffset(t, k) : k \in 1 .. n + 1} :
            buf[o] = IF o = Bcm!TagOffset(t, n + 1) THEN << >>
                     ELSE << t[CHOOSE k \in DOMAIN t : Bcm!TagOffset(t, k) = o] >>
    BY Zenon DEF Bcm!Encode
  <2>4. DOMAIN buf = {Bcm!TagOffset(t, k) : k \in 1 .. n + 1}
    BY DEF Bcm!Encode
  <2>5. ASSUME NEW o \in DOMAIN buf
        PROVE  buf[o] = IF o = f[n] THEN << >> ELSE << t[CHOOSE k \in DOMAIN t : Bcm!TagOffset(t, k) = o] >>
    <3> HIDE DEF buf
    <3>1. o \in {Bcm!TagOffset(t, k) : k \in 1 .. n + 1}
      BY <2>4, Zenon
    <3>2. buf[o] = IF o = Bcm!TagOffset(t, n + 1) THEN << >>
                   ELSE << t[CHOOSE k \in DOMAIN t : Bcm!TagOffset(t, k) = o] >>
      BY <2>3, <3>1, Zenon
    <3>3. QED
      BY <2>1, <3>2, Zenon
  <2>6. QED
    BY <2>5, Zenon
<1>6. ASSUME NEW k \in 1 .. n PROVE f[k - 1] \in DOMAIN buf /\ buf[f[k - 1]] = << t[k] >>
  <2>1. k - 1 \in 0 .. n /\ n \in 0 .. n /\ k - 1 # n /\ k \in 1 .. n + 1
    BY <1>1
  <2>2. f[k - 1] \in DOMAIN buf /\ f[k - 1] # f[n]
    BY <1>3, <1>4, <2>1, Zenon
  <2>3. k \in DOMAIN t /\ DOMAIN t = 1 .. n /\ Bcm!TagOffset(t, k) = f[k - 1]
    <3>1. DOMAIN t = 1 .. n
      OBVIOUS
    <3>2. QED
      BY <1>2, <2>1, <3>1, Zenon
  <2> DEFINE m == CHOOSE i \in DOMAIN t : Bcm!TagOffset(t, i) = f[k - 1]
  <2>4. m \in 1 .. n /\ Bcm!TagOffset(t, m) = f[k - 1]
    <3>1. m \in DOMAIN t /\ Bcm!TagOffset(t, m) = f[k - 1]
      BY <2>3, Zenon
    <3>2. QED
      BY <2>3, <3>1, Zenon
  <2>9. buf[f[k - 1]] = << t[m] >>
    <3> HIDE DEF buf
    <3>1. QED
      BY <1>5, <2>2, Zenon
  <2> HIDE DEF m
  <2>5. m - 1 \in 0 .. n /\ m \in 1 .. n + 1
    BY <1>1, <2>4
  <2>6. f[m - 1] = f[k - 1]
    BY <1>2, <2>4, <2>5
  <2>7. m = k
    <3>1. m - 1 = k - 1
      BY <1>3, <2>1, <2>5, <2>6, Zenon
    <3>2. QED
      BY <1>1, <2>4, <3>1
  <2>8. QED
    BY <2>2, <2>7, <2>9, Zenon
<1>7. f[n] \in DOMAIN buf /\ buf[f[n]] = << >>
  <2>1. n \in 0 .. n
    BY <1>1
  <2>2. f[n] \in DOMAIN buf
    BY <1>4, <2>1
  <2>3. QED
    BY <1>5, <2>2
<1> HIDE DEF buf, n
<1>8. ASSUME NEW g, NEW k \in 1 .. n PROVE Step(g)[f[k - 1]] = << t[k] >> \o g[f[k]]
  <2>1. k - 1 \in 0 .. n
    BY <1>1
  <2>2. f[k - 1] \in Nat /\ f[k] = f[k - 1] + Bcm!Padded(t[k])
    BY <1>2, <2>1
  <2>3. << t[k] >> # << >> /\ << t[k] >>[1] = t[k]
    OBVIOUS
  <2>4. Step(g)[f[k - 1]] = buf[f[k - 1]] \o g[f[k - 1] + Bcm!Padded(buf[f[k - 1]][1])]
    BY <1>6, <2>2, <2>3, Zenon
  <2>5. QED
    BY <1>6, <2>2, <2>3, <2>4, Zenon
<1>9. ASSUME NEW g PROVE Step(g)[f[n]] = << >>
  <2>1. f[n] \in Nat
    BY <1>1
  <2>2. QED
    BY <1>7, <2>1, Zenon
<1>10. ASSUME NEW k \in 1 .. n PROVE SubSeq(t, k, n) = << t[k] >> \o SubSeq(t, k + 1, n)
  <2>1. k \in 1 .. Len(t) /\ n \in k .. Len(t)
    BY <1>1 DEF n
  <2>2. QED
    BY <2>1, SubSeqRecursiveFirst, Zenon
<1>11. SubSeq(t, n + 1, n) = << >>
  BY <1>1, SubSeqEmpty
<1>12. \E g : g = Step(g)
  <2> DEFINE g == [o \in Nat |-> IF \E k \in 1 .. n : o = f[k - 1]
                                 THEN SubSeq(t, CHOOSE k \in 1 .. n : o = f[k - 1], n) ELSE << >>]
  <2>1. ASSUME NEW k \in 1 .. n PROVE f[k - 1] \in Nat /\ g[f[k - 1]] = SubSeq(t, k, n)
    <3>1. k - 1 \in 0 .. n
      BY <1>1
    <3>2. PICK m \in 1 .. n : m = CHOOSE i \in 1 .. n : f[k - 1] = f[i - 1]
      BY Zenon
    <3>3. f[k - 1] = f[m - 1]
      BY <3>2, Zenon
    <3>4. m - 1 \in 0 .. n
      BY <1>1
    <3>5. m = k
      <4>1. m - 1 = k - 1
        BY <1>3, <3>1, <3>3, <3>4
      <4>2. QED
        BY <1>1, <4>1
    <3>6. f[k - 1] \in Nat
      BY <3>1
    <3>7. QED
      BY <3>2, <3>5, <3>6, Zenon
  <2>2. f[n] \in Nat /\ g[f[n]] = << >>
    <3>1. \A k \in 1 .. n : f[n] # f[k - 1]
      <4>1. \A k \in 1 .. n : k - 1 \in 0 .. n /\ n \in 0 .. n /\ n # k - 1
        BY <1>1
      <4>2. QED
        BY <1>3, <4>1, Zenon
    <3>2. f[n] \in Nat
      BY <1>1
    <3>3. QED
      BY <3>1, <3>2, Zenon
  <2>3. \A k \in 1 .. n : g[f[k]] = SubSeq(t, k + 1, n)
    <3>1. ASSUME NEW k \in 1 .. n, k # n PROVE g[f[k]] = SubSeq(t, k + 1, n)
      <4>1. k + 1 \in 1 .. n /\ (k + 1) - 1 = k
        BY <1>1, <3>1
      <4>2. g[f[(k + 1) - 1]] = SubSeq(t, k + 1, n)
        BY <2>1, <4>1, Zenon
      <4> HIDE DEF g
      <4>3. QED
        BY <4>1, <4>2
    <3> HIDE DEF g
    <3>2. QED
      BY <1>11, <2>2, <3>1, Zenon
  <2>4. \A o \in Nat : ~(\E k \in 1 .. n : o = f[k - 1]) => g[o] = << >>
    OBVIOUS
  <2>5. g = [o \in Nat |-> g[o]]
    OBVIOUS
  <2> HIDE DEF g
  <2>6. ASSUME NEW o \in Nat PROVE g[o] = Step(g)[o]
    <3>1. ASSUME NEW k \in 1 .. n, o = f[k - 1] PROVE g[o] = Step(g)[o]
      <4>1. Step(g)[f[k - 1]] = << t[k] >> \o g[f[k]]
        BY <1>8, Zenon
      <4>2. QED
        BY <1>10, <2>1, <2>3, <3>1, <4>1, Zenon
    <3>2. ASSUME o = f[n] PROVE g[o] = Step(g)[o]
      BY <1>9, <2>2, <3>2, Zenon
    <3>3. ASSUME o \notin DOMAIN buf PROVE g[o] = Step(g)[o]
      <4>1. Step(g)[o] = << >>
        BY <3>3, Zenon
      <4>2. ~(\E k \in 1 .. n : o = f[k - 1])
        BY <1>6, <3>3, Zenon
      <4>3. QED
        BY <2>4, <4>1, <4>2, Zenon
    <3>4. o \in DOMAIN buf => o = f[n] \/ \E k \in 1 .. n : o = f[k - 1]
      <4>1. ASSUME NEW j \in 0 .. n, o = f[j], j # n PROVE \E k \in 1 .. n : o = f[k - 1]
        <5>1. j + 1 \in 1 .. n /\ (j + 1) - 1 = j
          BY <1>1, <4>1
        <5>2. o = f[(j + 1) - 1]
          BY <4>1, <5>1
        <5>3. QED
          BY <5>1, <5>2, Zenon
      <4>2. QED
        BY <1>4, <4>1, Zenon
    <3>5. QED
      BY <3>1, <3>2, <3>3, <3>4, Zenon
  <2>7. Step(g) = [o \in Nat |-> Step(g)[o]]
    BY Zenon
  <2>8. g = Step(g)
    BY <2>5, <2>6, <2>7, Zenon
  <2>9. QED
    BY <2>8, Zenon
<1>13. from = Step(from)
  BY <1>12, Zenon
<1>14. Bcm!Decode(buf) = from[8]
  BY Zenon DEF Bcm!Decode
<1> HIDE DEF from
<1>15. \A k \in 1 .. n : from[f[k - 1]] = << t[k] >> \o from[f[k]]
  BY <1>8, <1>13, Zenon
<1>16. from[f[n]] = << >>
  BY <1>9, <1>13, Zenon
<1> HIDE DEF Step
<1> DEFINE S == {i \in Nat : i <= n => from[f[n - i]] = SubSeq(t, (n - i) + 1, n)}
<1>17. 0 \in S
  <2>1. n - 0 = n
    BY <1>1
  <2>2. from[f[n - 0]] = SubSeq(t, (n - 0) + 1, n)
    BY <1>11, <1>16, <2>1, Zenon
  <2>3. QED
    BY <2>2
<1>18. ASSUME NEW i \in S PROVE i + 1 \in S
  <2>1. SUFFICES ASSUME i + 1 <= n PROVE from[f[n - (i + 1)]] = SubSeq(t, (n - (i + 1)) + 1, n)
    OBVIOUS
  <2>2. from[f[n - i]] = SubSeq(t, (n - i) + 1, n)
    BY <1>1, <2>1
  <2>3. n - i \in 1 .. n /\ (n - i) - 1 = n - (i + 1) /\ (n - (i + 1)) + 1 = n - i
    BY <1>1, <2>1
  <2> DEFINE k == n - i
  <2>4. k \in 1 .. n /\ k - 1 = n - (i + 1) /\ (n - (i + 1)) + 1 = k /\ from[f[k]] = SubSeq(t, k + 1, n)
    BY <2>2, <2>3
  <2> HIDE DEF k, S
  <2>5. from[f[k - 1]] = SubSeq(t, k, n)
    BY <1>10, <1>15, <2>4, Zenon
  <2>6. QED
    BY <2>4, <2>5, Zenon
<1>19. S \in SUBSET Nat
  OBVIOUS
<1> HIDE DEF S
<1>20. S = Nat
  BY <1>17, <1>18, <1>19, SetInduction, Zenon
<1>21. from[f[0]] = SubSeq(t, 1, n)
  <2>1. n \in S /\ n <= n /\ n - n = 0 /\ (n - n) + 1 = 1
    BY <1>1, <1>20
  <2>2. from[f[n - n]] = SubSeq(t, (n - n) + 1, n)
    BY <2>1 DEF S
  <2>3. QED
    BY <2>1, <2>2
<1>22. SubSeq(t, 1, n) = t
  BY SubSeqFull, Zenon DEF n
<1>23. QED
  BY <1>2, <1>14, <1>21, <1>22, Zenon DEF buf

-----------------------------------------------------------------------------

\* Calls of VideoCore and copies by DMA channels return with their own result, and calls for GPIO
\* lines leave other lines alone, the function where updates of its register overlap excepted.
BcmOwn == Bcm!AnswerOwn /\ Bcm!CopyOwn /\ Bcm!LinesOwn

\* Each step of the goroutines, VideoCore, the channels or the lines keeps the three invariants.
LEMMA BcmStep == BoxInv /\ DmaInv /\ GpioInv /\ [Bcm!Next]_(Bcm!vars) => BoxInv' /\ DmaInv' /\ GpioInv'
<1> SUFFICES ASSUME BoxInv, DmaInv, GpioInv, [Bcm!Next]_(Bcm!vars) PROVE BoxInv' /\ DmaInv' /\ GpioInv'
  OBVIOUS
<1>1. ASSUME UNCHANGED <<boxPc, message, buffer, lock, inbox, outbox, response, panicked>> PROVE BoxInv'
  BY <1>1, Zenon DEF BoxInv, Asked, BoxOf, Bcm!AnswerOwn
<1>2. ASSUME UNCHANGED Bcm!dmaVars PROVE DmaInv'
  BY <1>2, Zenon DEF Bcm!dmaVars, DmaInv
<1>3. ASSUME UNCHANGED Bcm!gpioVars PROVE GpioInv'
  <2>1. gpio' = gpio /\ gpioCall' = gpioCall /\ gpioAsked' = gpioAsked
    BY <1>3, Zenon DEF Bcm!gpioVars
  <2>2. \A d \in Callers : At(d)' = At(d)
    BY <2>1, Zenon DEF At
  <2>3. \A d \in Callers : (Pulling(d)' <=> Pulling(d)) /\ (Selecting(d)' <=> Selecting(d))
    BY <2>2, Zenon DEF Pulling, Selecting
  <2>4. GpioType'
    BY <2>1, <2>2, <2>3, Zenon DEF GpioInv, GpioType
  <2>5. PullInv'
    BY <2>1, <2>2, <2>3, PullKeep, Zenon DEF GpioInv
  <2>6. LevelInv'
    BY <2>1, LevelKeep, Zenon DEF GpioInv
  <2>7. FnInv'
    BY <2>1, <2>2, <2>3, FnKeep, Zenon DEF GpioInv
  <2>8. QED
    BY <2>4, <2>5, <2>6, <2>7 DEF GpioInv
<1>4. CASE Bcm!MailboxNext /\ UNCHANGED Bcm!gpioVars
  <2>1. \A t \in Tags : Bcm!Decode(Bcm!Encode(t)) = t
    BY BcmAssumption, RoundTrip DEF BcmConstants
  <2>2. UNCHANGED Bcm!dmaVars
    BY <1>4, Zenon DEF Bcm!MailboxNext, Bcm!Call, Bcm!Lock, Bcm!Send, Bcm!ReadResponse, Bcm!Return, Bcm!HwAnswer
  <2>3. BoxInv'
    BY <1>4, <2>1, BoxStep, Zenon
  <2>4. QED
    BY <1>2, <1>3, <1>4, <2>2, <2>3, Zenon
<1>5. CASE Bcm!DmaNext /\ UNCHANGED Bcm!gpioVars
  <2>1. UNCHANGED <<boxPc, message, buffer, lock, inbox, outbox, response, panicked>>
    BY <1>5, Zenon DEF Bcm!DmaNext, Bcm!AllocChannel, Bcm!FreeChannel, Bcm!Copy, Bcm!Ended, Bcm!CopyReturn,
                       Bcm!HwCopy, Bcm!mailboxVars
  <2>2. DmaInv'
    BY <1>5, DmaStep, Zenon
  <2>3. QED
    BY <1>1, <1>3, <1>5, <2>1, <2>2, Zenon
<1>6. CASE Bcm!GpioNext
  <2>1. UNCHANGED <<boxPc, message, buffer, lock, inbox, outbox, response, panicked>> /\ UNCHANGED Bcm!dmaVars
    BY <1>6, Zenon DEF Bcm!GpioNext
  <2>2. GpioInv'
    BY <1>6, GpioKept, Zenon
  <2>3. QED
    BY <1>1, <1>2, <2>1, <2>2, Zenon
<1>7. CASE UNCHANGED Bcm!vars
  <2>1. /\ UNCHANGED <<boxPc, message, buffer, lock, inbox, outbox, response, panicked>>
        /\ UNCHANGED Bcm!dmaVars /\ UNCHANGED Bcm!gpioVars
    BY <1>7, Zenon DEF Bcm!vars, Bcm!mailboxVars
  <2>2. QED
    BY <1>1, <1>2, <1>3, <2>1, Zenon
<1>8. QED
  BY <1>4, <1>5, <1>6, <1>7, Zenon DEF Bcm!Next

\* Goroutines that share the mailbox, the DMA channels and the GPIO registers of a BCM2835
\* each get the result of their own call, however their steps, VideoCore and the channels
\* take turns, for any number of goroutines and lines, any channels and all lengths of tags.
THEOREM SharedButOwn == Bcm!Spec => []BcmOwn
<1>1. Bcm!Init /\ Bcm!GpioInit => BoxInv /\ DmaInv /\ GpioInv
  BY BoxStart, DmaStart, GpioStart
<1>2. BoxInv /\ DmaInv /\ GpioInv => BcmOwn
  <2>1. BoxInv => Bcm!AnswerOwn
    BY DEF BoxInv
  <2>2. DmaInv => Bcm!CopyOwn
    BY Zenon DEF DmaInv, Bcm!CopyOwn
  <2>3. QED
    BY <2>1, <2>2, GpioOwn DEF BcmOwn
<1>3. QED
  BY <1>1, <1>2, BcmStep, PTL DEF Bcm!Spec
=============================================================================
