------------------------------- MODULE Clocks -------------------------------
(***************************************************************************)
(* The ARM core clock of the i.MX6UL and its supply voltage, which         *)
(* SetARMFreq changes step by step while the core runs; and the clock tree *)
(* of its peripherals: the fractional dividers (PFD) of PLL2 and PLL3, the *)
(* root clocks of the card controllers, and the PLLs of USB and Ethernet,  *)
(* which several drivers enable, each in several steps.  Beside them the   *)
(* clock of the Microchip SDHCI controller, which an earlier firmware may  *)
(* have left running.                                                      *)
(*                                                                         *)
(* Then what counts clock ticks: system time and alarms of the processors, *)
(* the counter of the NUC980, which is extended in software, the search    *)
(* for the frequency of the time stamp counter of an AMD64 processor, and  *)
(* the watchdogs.                                                          *)
(*                                                                         *)
(* Clocks are in MHz, those of the SDHCI in a unit of its own, and voltages*)
(* in mV.  One tick of a counter is one unit of the system time, so that   *)
(* the conversion of ticks to nanoseconds in floating point is left out.   *)
(***************************************************************************)
EXTENDS Integers, Sequences, FiniteSetsExt

CONSTANTS
    Requests,           \* arguments of SetARMFreq
    Divs,               \* arguments of SetPFD
    MaxTreeCalls,       \* bound: calls that change the tree
    Parents, TargetClocks, SdFreqs,     \* ParentClock and TargetClock, arguments of setClockFrequency
    Prescalers, LowerSize,  \* values of the prescaler, and of the lower part of the divider
    MaxSdCalls          \* bound: calls of Init and setClockFrequency

VARIABLES
    fpc, mhz, curMHz,       \* SetARMFreq: step, argument, frequency before
    div, podf, bypass,      \* divisor of the PLL and of the core, PLL bypassed
    targ,                   \* regulator targets of core and SoC
    tree,                   \* the clock tree and the calls that change it
    sdc                     \* the SDHCI clock, and the call that changes it

freqVars == <<fpc, mhz, curMHz, div, podf, bypass, targ>>

-----------------------------------------------------------------------------
(* The core clock.                                                         *)

\* the switch of SetARMFreq
Points ==
    [m \in {900, 792, 528, 396, 198} |->
        CASE m = 900 -> [div |-> 75, podf |-> 0, mV |-> 1275]
          [] m = 792 -> [div |-> 66, podf |-> 0, mV |-> 1225]
          [] m = 528 -> [div |-> 88, podf |-> 1, mV |-> 1175]
          [] m = 396 -> [div |-> 66, podf |-> 1, mV |-> 1025]
          [] m = 198 -> [div |-> 66, podf |-> 3, mV |-> 950]]

\* setOperatingPoint: regulator targets of a voltage
RegTargets(mV) ==
    LET reg0 == IF mV < 725 THEN 0 ELSE IF mV > 1450 THEN 31 ELSE (mV - 700) \div 25
    IN [core |-> reg0, soc |-> Max({reg0, 18})]

\* ARMFreq, and what the core runs at: bypassed, at the oscillator's 24 MHz
ARMFreq == (12 * div) \div (podf + 1)
Core == IF bypass THEN 24 \div (podf + 1) ELSE ARMFreq

\* the fastest clock the core target supports, by the same table
Fastest == Max({0} \cup {m \in DOMAIN Points : RegTargets(Points[m].mV).core <= targ.core})

FreqInit ==
    /\ fpc = "idle" /\ mhz = 0 /\ curMHz = 0 /\ bypass = FALSE
    /\ \E m \in DOMAIN Points :
           div = Points[m].div /\ podf = Points[m].podf /\ targ = RegTargets(Points[m].mV)

SetARMFreq(m) ==
    /\ fpc = "idle" /\ m # ARMFreq /\ m \in DOMAIN Points
    /\ mhz' = m /\ curMHz' = ARMFreq /\ fpc' = "raise"
    /\ UNCHANGED <<div, podf, bypass, targ>>

\* "unsupported", or the frequency is the one there is
SetARMFreqNone(m) ==
    /\ fpc = "idle" /\ (m = ARMFreq \/ m \notin DOMAIN Points)
    /\ UNCHANGED freqVars

\* mutant: the voltage is raised after the frequency, and lowered before it
OperatingPointSwapped(step) ==
    /\ fpc = step
    /\ targ' = IF (step = "lower" /\ mhz > curMHz) \/ (step = "raise" /\ mhz < curMHz)
               THEN RegTargets(Points[mhz].mV) ELSE targ
    /\ fpc' = IF step = "raise" THEN "bypass" ELSE "idle"
    /\ UNCHANGED <<mhz, curMHz, div, podf, bypass>>

\* setOperatingPoint, before the clock goes up and after it went down
OperatingPoint(step) ==
    /\ fpc = step
    /\ targ' = IF (step = "raise" /\ mhz > curMHz) \/ (step = "lower" /\ mhz < curMHz)
               THEN RegTargets(Points[mhz].mV) ELSE targ
    /\ fpc' = IF step = "raise" THEN "bypass" ELSE "idle"
    /\ UNCHANGED <<mhz, curMHz, div, podf, bypass>>

Bypass ==
    /\ fpc = "bypass" /\ bypass' = TRUE /\ fpc' = "pll"
    /\ UNCHANGED <<mhz, curMHz, div, podf, targ>>

\* the PLL divisor, and the wait for lock
SetPLL ==
    /\ fpc = "pll" /\ div' = Points[mhz].div /\ fpc' = "unbypass"
    /\ UNCHANGED <<mhz, curMHz, podf, bypass, targ>>

RemoveBypass ==
    /\ fpc = "unbypass" /\ bypass' = FALSE /\ fpc' = "podf"
    /\ UNCHANGED <<mhz, curMHz, div, podf, targ>>

SetCore ==
    /\ fpc = "podf" /\ podf' = Points[mhz].podf /\ fpc' = "lower"
    /\ UNCHANGED <<mhz, curMHz, div, bypass, targ>>

FreqNext ==
    \/ \E m \in Requests : SetARMFreq(m) \/ SetARMFreqNone(m)
    \/ OperatingPoint("raise") \/ Bypass \/ SetPLL \/ RemoveBypass \/ SetCore
    \/ OperatingPoint("lower")

-----------------------------------------------------------------------------
(* The clock tree.  A call is the sequence of its register writes; the     *)
(* drivers of the card controllers, of USB and of the two Ethernet MACs    *)
(* run in goroutines of their own.                                         *)

Plls == {"usb1", "usb2", "enet"}
Drivers == {"sd1", "sd2", "usb1", "usb2", "enet1", "enet2"}

TreeInit ==
    tree = [frac |-> [p \in {2, 3} |-> [f \in 0 .. 3 |-> 24]],
            gate |-> [p \in {2, 3} |-> [f \in 0 .. 3 |-> f = 3]],
            podf |-> [i \in {1, 2} |-> 1], sel |-> [i \in {1, 2} |-> 0],
            pll |-> [p \in Plls |-> [power |-> FALSE, lock |-> FALSE, bypass |-> TRUE, out |-> FALSE]],
            enet |-> [i \in {1, 2} |-> [ref |-> "pad", div |-> 0, out |-> FALSE]],
            todo |-> [u \in Drivers |-> <<>>], done |-> {}, asked |-> [i \in {1, 2} |-> <<1, 0>>], calls |-> 0]

\* GetPFD: nothing of a gated output; the multiplier is 18
PllFreq == [p \in {2, 3} |-> IF p = 2 THEN 528 ELSE 480]
GetPFD(p, f) == IF tree.gate[p][f] THEN 0 ELSE (PllFreq[p] * 18) \div tree.frac[p][f]

\* GetUSDHCClock: PFD0 or PFD2 of PLL2, divided
GetUSDHCClock(i) == GetPFD(2, IF tree.sel[i] = 1 THEN 0 ELSE 2) \div (tree.podf[i] + 1)

\* mutant: no range for the divider
SetPFDAny(p, f, d) ==
    /\ tree.calls < MaxTreeCalls
    /\ tree' = [tree EXCEPT !.frac[p][f] = d, !.calls = @ + 1]

\* SetPFD; outside of the range it is an error
SetPFD(p, f, d) ==
    /\ tree.calls < MaxTreeCalls
    /\ tree' = IF d < 12 \/ d > 35 THEN tree ELSE [tree EXCEPT !.frac[p][f] = d, !.calls = @ + 1]

Busy(u) == tree.todo[u] # <<>> \/ tree.calls >= MaxTreeCalls

\* SetUSDHCClock: two registers
SetUSDHCClock(i, podf_, clksel) ==
    LET u == IF i = 1 THEN "sd1" ELSE "sd2"
    IN  /\ ~Busy(u) /\ podf_ <= 7 /\ clksel <= 1
        /\ tree' = [tree EXCEPT !.todo[u] = <<<<"podf", i, podf_>>, <<"sel", i, clksel>>>>, !.calls = @ + 1,
                                !.asked[i] = <<podf_, clksel>>]

EnableUSBPLL(u) ==
    /\ u \in {"usb1", "usb2"} /\ ~Busy(u)
    /\ tree' = [tree EXCEPT !.calls = @ + 1, !.todo[u] = <<<<"power", u>>, <<"wait", u>>, <<"bypass", u>>, <<"out", u>>>>]

\* mutant: both MACs with the divider of the first
EnableENETPLLOne(i) ==
    LET u == IF i = 1 THEN "enet1" ELSE "enet2"
    IN  /\ ~Busy(u)
        /\ tree' = [tree EXCEPT !.calls = @ + 1,
               !.todo[u] = <<<<"ref", i>>, <<"div", 1>>, <<"power", "enet">>, <<"wait", "enet">>, <<"enable", i>>,
                             <<"bypass", "enet">>>>]

EnableENETPLL(i) ==
    LET u == IF i = 1 THEN "enet1" ELSE "enet2"
    IN  /\ ~Busy(u)
        /\ tree' = [tree EXCEPT !.calls = @ + 1,
               !.todo[u] = <<<<"ref", i>>, <<"div", i>>, <<"power", "enet">>, <<"wait", "enet">>, <<"enable", i>>,
                             <<"bypass", "enet">>>>]

\* one register write of a call, or the end of its wait for lock
TreeWrite(u) ==
    LET o == Head(tree.todo[u])
        rest == [tree EXCEPT !.todo[u] = Tail(@), !.done = IF Tail(tree.todo[u]) = <<>> THEN @ \cup {u} ELSE @ \ {u}]
    IN  /\ tree.todo[u] # <<>>
        /\ o[1] = "wait" => tree.pll[o[2]].lock
        /\ tree' = CASE o[1] = "podf" -> [rest EXCEPT !.podf[o[2]] = o[3]]
                     [] o[1] = "sel" -> [rest EXCEPT !.sel[o[2]] = o[3]]
                     [] o[1] = "power" -> [rest EXCEPT !.pll[o[2]].power = TRUE]
                     [] o[1] = "wait" -> rest
                     [] o[1] = "bypass" -> [rest EXCEPT !.pll[o[2]].bypass = FALSE]
                     [] o[1] = "out" -> [rest EXCEPT !.pll[o[2]].out = TRUE]
                     [] o[1] = "ref" -> [rest EXCEPT !.enet[o[2]].ref = "pll"]
                     [] o[1] = "div" -> [rest EXCEPT !.enet[o[2]].div = 1]
                     [] o[1] = "enable" -> [rest EXCEPT !.enet[o[2]].out = TRUE]

\* external: a PLL with power locks
HwPll ==
    \E p \in Plls :
        /\ tree.pll[p].power /\ ~tree.pll[p].lock
        /\ tree' = [tree EXCEPT !.pll[p].lock = TRUE]

TreeNext ==
    \/ \E f \in {0, 2}, d \in Divs : SetPFD(2, f, d)
    \/ \E i \in {1, 2} : EnableENETPLL(i) \/ \E p \in {1, 2}, c \in {0, 1} : SetUSDHCClock(i, p, c)
    \/ \E u \in Drivers : EnableUSBPLL(u) \/ TreeWrite(u)
    \/ HwPll

-----------------------------------------------------------------------------
(* The clock of the SDHCI: the functional clock (GCK) is the parent clock, *)
(* divided by the prescaler; the card clock is divided again.  A call is a *)
(* sequence of register writes and waits, each of which may time out.      *)

SdClockInit ==
    \E on, busy \in BOOLEAN, parent \in Parents, target \in TargetClocks, src \in {0, 1}, pre \in {0, 2} :
        sdc = [parent |-> parent, target |-> target, ena |-> on, src |-> src, pre |-> pre, clken |-> on,
               upper |-> 0, lower |-> 1, stable |-> on, busy |-> on /\ busy, todo |-> <<>>, freq |-> 0,
               ready |-> FALSE, ok |-> FALSE, moved |-> FALSE, calls |-> 0]

Up(a, b) == (a + b - 1) \div b

\* mutant: rounded down, the functional clock is too fast
genericClockPrescalerDown == IF sdc.parent < sdc.target THEN 0 ELSE (sdc.parent \div sdc.target) - 1

\* only used when it is in range
genericClockPrescaler == Up(sdc.parent, sdc.target) - 1
InRange == sdc.parent > 0 /\ sdc.target > 0 /\ genericClockPrescaler < Prescalers

gckConfigurationMatches == sdc.ena /\ sdc.src = 0 /\ sdc.pre = genericClockPrescaler

\* mutant: the card clock is left running
enableGenericClockRunning == IF gckConfigurationMatches THEN <<>> ELSE <<"off", "src", "pre", "on">>

enableGenericClock ==
    (IF sdc.ena THEN <<"idle", "stop">> ELSE <<>>)
      \o (IF gckConfigurationMatches THEN <<>> ELSE <<"off", "src", "pre", "on">>)

Divisor(f) == Up(sdc.parent \div (genericClockPrescaler + 1), f)

setClockFrequency(f) ==
    IF f = 0 \/ ~InRange \/ Divisor(f) > 4 * LowerSize THEN <<"fail">>
    ELSE <<"idle", "stop", "divide", "stable", "start">>

SdCall(steps, f, ready) ==
    /\ sdc.todo = <<>> /\ sdc.calls < MaxSdCalls
    /\ sdc' = [sdc EXCEPT !.todo = steps, !.freq = f, !.calls = @ + 1, !.ok = FALSE, !.ready = ready]

\* Init as far as clocks go: initController, which ends with a frequency
initController(f) ==
    SdCall(IF InRange THEN enableGenericClock \o <<"reset">> \o setClockFrequency(f) ELSE <<"fail">>, f, FALSE)

\* the same of Detect, on a controller that is ready
SetClock(f) == sdc.ready /\ SdCall(setClockFrequency(f), f, TRUE)

SdStep ==
    LET o == Head(sdc.todo)
        rest == [sdc EXCEPT !.todo = Tail(@), !.ok = Tail(sdc.todo) = <<>>, !.ready = @ \/ Tail(sdc.todo) = <<>>,
                            !.moved = @ \/ (sdc.clken /\ o \in {"off", "src", "pre", "on"})]
    IN  /\ sdc.todo # <<>>
        /\ o = "idle" => ~sdc.busy
        /\ o = "stable" => sdc.stable
        /\ sdc' = CASE o \in {"idle", "stable"} -> rest
                    [] o = "stop" -> [rest EXCEPT !.clken = FALSE]
                    [] o = "off" -> [rest EXCEPT !.ena = FALSE]
                    [] o = "src" -> [rest EXCEPT !.src = 0]
                    [] o = "pre" -> [rest EXCEPT !.pre = genericClockPrescaler]
                    [] o = "on" -> [rest EXCEPT !.ena = TRUE]
                    [] o = "reset" -> [rest EXCEPT !.clken = FALSE, !.upper = 0, !.lower = 0, !.stable = FALSE, !.busy = FALSE]
                    [] o = "divide" -> [rest EXCEPT !.clken = FALSE, !.stable = FALSE,
                                            !.upper = (Divisor(sdc.freq) - 1) \div LowerSize,
                                            !.lower = (Divisor(sdc.freq) - 1) % LowerSize]
                    [] o = "start" -> [rest EXCEPT !.clken = TRUE]
                    [] o = "fail" -> [rest EXCEPT !.ok = FALSE, !.ready = sdc.ready]

\* a wait is over its time: an error
SdTimeout ==
    /\ sdc.todo # <<>>
    /\ \/ Head(sdc.todo) = "idle" /\ sdc.busy
       \/ Head(sdc.todo) = "stable" /\ ~sdc.stable
       \/ Head(sdc.todo) = "reset"
    /\ \E c \in {sdc.clken, sdc.clken /\ Head(sdc.todo) # "reset"} :
          sdc' = [sdc EXCEPT !.todo = <<>>, !.clken = c]

\* external: transfers end, the internal clock becomes stable
HwSd ==
    \/ sdc.busy /\ sdc' = [sdc EXCEPT !.busy = FALSE]
    \/ sdc.ena /\ ~sdc.stable /\ sdc' = [sdc EXCEPT !.stable = TRUE]

SdClockNext == (\E f \in SdFreqs : initController(f) \/ SetClock(f)) \/ SdStep \/ SdTimeout \/ HwSd

-----------------------------------------------------------------------------

\* The core never runs faster than its voltage supports, while the clock and the
\* voltage change.  Left out: between RemoveBypass and SetCore on the way to 528
\* MHz, where the divisor of the core is still the one of the frequency before.
Supplied == Core <= Fastest \/ (fpc = "podf" /\ mhz = 528)

\* Every PLL that drives something is locked, and a MAC, or a USB controller, whose
\* call has returned has its clock from it, undivided by the calls of the others:
\* 50 MHz for the MAC (the divider is 1), whichever MAC was enabled first.
PllSound ==
    /\ \A p \in Plls : ~tree.pll[p].bypass => tree.pll[p].lock
    /\ \A u \in tree.done \cap {"usb1", "usb2"} : tree.pll[u].out /\ ~tree.pll[u].bypass
    /\ \A i \in {1, 2} : (IF i = 1 THEN "enet1" ELSE "enet2") \in tree.done =>
           tree.enet[i] = [ref |-> "pll", div |-> 1, out |-> TRUE] /\ ~tree.pll["enet"].bypass

\* No clock of a card controller is faster than half the fastest PFD, and its
\* computation never divides by zero, whatever SetPFD and SetUSDHCClock are given; a
\* controller whose call has returned has the divider and the source it asked for.
RootClocks ==
    /\ \A p \in {2, 3}, f \in 0 .. 3 : tree.frac[p][f] \in 12 .. 35
    /\ \A i \in {1, 2} : GetUSDHCClock(i) <= 792 \div 2
    /\ \A i \in {1, 2} : tree.todo[IF i = 1 THEN "sd1" ELSE "sd2"] = <<>> => tree.asked[i] = <<tree.podf[i], tree.sel[i]>>

\* The functional clock of the SDHCI changes only while the card clock stands still,
\* whatever ran before; on a controller that is ready it is the fastest that the
\* target allows.  After a call that succeeds the card clock runs, at the fastest
\* rate, in whole Hertz, that is not above the one asked for.
SdClockRight ==
    LET source == sdc.parent \div (sdc.pre + 1)
        divider == sdc.upper * LowerSize + sdc.lower
    IN  /\ ~sdc.moved
        /\ sdc.ready => /\ sdc.ena /\ sdc.src = 0 /\ sdc.parent <= sdc.target * (sdc.pre + 1)
                        /\ sdc.pre > 0 => sdc.parent > sdc.target * sdc.pre
        /\ sdc.ok => /\ sdc.clken /\ sdc.stable /\ source <= sdc.freq * (divider + 1)
                     /\ divider > 0 => source > sdc.freq * divider

-----------------------------------------------------------------------------
(* Timers.                                                                 *)

CONSTANTS
    MaxInt32,           \* the largest value of the ARM timer
    Delays, Times,      \* from now to the alarm; arguments of SetTime
    MaxTicks,           \* bound: ticks
    Period,             \* of the counter of the NUC980, CMPR_MAX + 1
    Second,             \* nanoseconds in a second
    Frequency,          \* of the time stamp counter
    PmMask, PmLoop,     \* the PM timer's counter is modulo PmMask; ticks waited for
    TscMod              \* 2^64

VARIABLES
    timer,               \* timer: "generic" of ARM, "tsc" of AMD64, "tcfg" of LoongArch
    counter, offset,    \* counter and cpu.TimerOffset
    apc, set, now,      \* SetAlarm: step, ticks of the alarm, counter read
    deadline, delay,    \* of the timer; ticks between reading and setting
    timerLast, timerHigh, started, reads,   \* NUC980; last result, and the time of it
    freq, dpc, pm0, tsc0, clocks            \* detectCoreFrequency

alarmVars == <<timer, counter, offset, apc, set, now, deadline, delay>>
countVars == <<counter, timerLast, timerHigh, started, reads>>
extVars == <<timerLast, timerHigh, started, reads>>
detectVars == <<freq, dpc, pm0, tsc0, clocks>>
timerVars == <<timer, counter, offset, apc, set, now, deadline, delay, extVars, detectVars>>

None == -1

-----------------------------------------------------------------------------
(* Alarms.                                                                 *)

AlarmInit ==
    /\ timer \in {"generic", "tsc", "tcfg"}
    /\ counter = 0 /\ offset = 0 /\ apc = "idle" /\ set = 0 /\ now = 0
    /\ deadline = None /\ delay = 0

GetTime == counter + offset

SetTime(ns) ==
    /\ offset' = ns - counter
    /\ UNCHANGED <<timer, counter, apc, set, now, deadline, delay>>

\* ns = 0 disables the timer, on AMD64 with an interrupt to the other processors
ClearAlarm ==
    /\ apc = "idle" /\ timer # "tcfg" /\ deadline' = None
    /\ UNCHANGED <<timer, counter, offset, apc, set, now, delay>>

\* the ticks of the alarm, then the counter; ns before the counter's own 0 is left out
SetAlarm(ns) ==
    /\ apc = "idle" /\ timer = "generic" /\ ns >= offset
    /\ set' = ns - offset /\ now' = counter /\ apc' = "write"
    /\ UNCHANGED <<timer, counter, offset, deadline, delay>>

\* mutant: an alarm in the past is not told apart
CountUnsigned == IF set # now /\ set - now \in 1 .. MaxInt32 THEN set - now ELSE MaxInt32

\* uint64: the difference of an alarm in the past would be huge
Count ==
    IF set <= now THEN 1
    ELSE IF set - now > MaxInt32 THEN MaxInt32
    ELSE set - now

\* write_cntptval: the timer counts from where the counter is now
WriteTimer ==
    /\ apc = "write"
    /\ deadline' = counter + Count /\ delay' = counter - now /\ apc' = "idle"
    /\ UNCHANGED <<timer, counter, offset, set, now>>

\* AMD64: the deadline itself; one that is in the past goes off at once
SetAlarmTsc(ns) ==
    /\ apc = "idle" /\ timer = "tsc" /\ ns >= offset
    /\ set' = ns - offset /\ now' = counter /\ delay' = 0
    /\ deadline' = Max({ns - offset, counter + 1})
    /\ UNCHANGED <<timer, counter, offset, apc>>

\* LoongArch: from now on, in ticks without the two lowest bits
SetTimer(ns) ==
    /\ apc = "idle" /\ timer = "tcfg"
    /\ set' = counter + ns /\ now' = counter /\ delay' = 0
    /\ deadline' = counter + 4 * (ns \div 4)
    /\ UNCHANGED <<timer, counter, offset, apc>>

Tick == counter < MaxTicks /\ counter' = counter + 1

AlarmNext ==
    /\ \/ \E ns \in Times : SetTime(ns)
       \/ ClearAlarm
       \/ \E d \in Delays : SetAlarm(GetTime + d) \/ SetAlarmTsc(GetTime + d) \/ (d >= 0 /\ SetTimer(d))
       \/ WriteTimer
       \/ Tick /\ UNCHANGED <<timer, offset, apc, set, now, deadline, delay>>
    /\ UNCHANGED extVars /\ UNCHANGED detectVars

-----------------------------------------------------------------------------
(* NUC980.                                                                 *)

ExtInit == timerLast = 0 /\ timerHigh = 0 /\ started = FALSE /\ reads = [got |-> 0, at |-> 0]

\* what the timer counts: modulo its period
TimerCount == IF started THEN counter % Period ELSE 0

\* mutant: called a second time, it starts over
initTimerAgain ==
    /\ started' = TRUE /\ timerLast' = 0 /\ timerHigh' = 0 /\ counter' = 0
    /\ UNCHANGED reads

initTimer ==
    /\ IF started THEN UNCHANGED <<started, timerLast, timerHigh, counter>>
       ELSE started' = TRUE /\ timerLast' = 0 /\ timerHigh' = 0 /\ counter' = 0
    /\ UNCHANGED reads

\* a count below the last one: the counter has wrapped
readTimerExtended ==
    LET n == TimerCount
        high == timerHigh + (IF n < timerLast THEN Period ELSE 0)
    IN  /\ timerHigh' = high /\ timerLast' = n
        /\ reads' = [got |-> high + n, at |-> counter]
        /\ UNCHANGED <<counter, started>>

\* "must be called at least once per counter period"
TickRead == started /\ counter - reads.at < Period - 1 /\ Tick /\ UNCHANGED extVars

ExtNext ==
    /\ initTimer \/ readTimerExtended \/ TickRead
    /\ UNCHANGED <<timer, offset, apc, set, now, deadline, delay>> /\ UNCHANGED detectVars

-----------------------------------------------------------------------------
(* detectCoreFrequency.  The counter is the time in nanoseconds, and the   *)
(* PM timer counts each.                                                   *)

Tsc == Frequency * counter
Pm == counter % PmMask

\* what the processor and the host offer
Platforms ==
    [ccc : BOOLEAN, kvm : BOOLEAN, khz : BOOLEAN, pairing : BOOLEAN,
     pm : BOOLEAN, pstate : BOOLEAN]

DetectInit ==
    /\ freq = 0 /\ dpc = "cpuid" /\ pm0 = 0 /\ tsc0 = 0
    /\ clocks \in Platforms

Detect(f, step) == freq' = f /\ dpc' = step /\ UNCHANGED <<clocks, counter>>

\* CPUID: the crystal clock, directly or from the base frequency; then that of KVM
Cpuid ==
    /\ dpc = "cpuid" /\ UNCHANGED <<pm0, tsc0>>
    /\ LET f == IF clocks.ccc THEN Frequency * Second ELSE freq
       IN  IF ~clocks.kvm THEN Detect(f, "fallback")
           ELSE IF clocks.khz THEN Detect(Frequency * Second, "fallback")
           ELSE Detect(f, "pair1")

\* the first pairing; without the hypercall all is 0
Pair1 ==
    /\ dpc = "pair1" /\ Detect(freq, "pair2")
    /\ pm0' = (IF clocks.pairing THEN counter % Second ELSE 0)
    /\ tsc0' = (IF clocks.pairing THEN Tsc ELSE 0)

\* mutant: a nanosecond of the next second is taken for an earlier one
DifferenceSigned(b, a) == IF b < a THEN a - b ELSE b - a

\* uint64
Difference(b, a) == (b - a) % TscMod

\* the second one: in the next second its nanoseconds may be fewer, and the
\* difference is then so large that the frequency is 0
calibrateByPairing ==
    /\ dpc = "pair2" /\ UNCHANGED <<pm0, tsc0>>
    /\ LET den == Difference(IF clocks.pairing THEN counter % Second ELSE 0, pm0)
           f == IF den = 0 THEN freq ELSE ((Tsc - tsc0) * Second) \div den
       IN  Detect(f, IF f = 0 THEN "timer1" ELSE "fallback")

\* the PM timer, if its port has one
Timer1 ==
    /\ dpc = "timer1" /\ pm0' = Pm /\ tsc0' = Tsc
    /\ Detect(freq, IF clocks.pm THEN "timer2" ELSE "fallback")

calibrateByTimer ==
    /\ dpc = "timer2" /\ UNCHANGED <<pm0, tsc0>>
    /\ LET den == (Pm - pm0) % PmMask
       IN  den > PmLoop /\ Detect(((Tsc - tsc0) \div den) * Second, "fallback")

\* an AMD processor's P-state, or no frequency, for which 1 is taken
Fallback ==
    /\ dpc = "fallback" /\ UNCHANGED <<pm0, tsc0>>
    /\ Detect(IF freq # 0 THEN freq ELSE IF clocks.pstate THEN Frequency * Second ELSE 1, "done")

\* the two pairings are less than a second apart, and the loop polls the PM timer
\* more often than it wraps
DetectTick ==
    /\ dpc \in {"pair1", "pair2", "timer1", "timer2"} /\ Tick
    /\ dpc = "pair2" => Tsc - tsc0 < Frequency * (Second - 1)
    /\ dpc = "timer2" => (Pm - pm0) % PmMask <= PmLoop
    /\ UNCHANGED detectVars

DetectNext ==
    /\ Cpuid \/ Pair1 \/ calibrateByPairing \/ Timer1 \/ calibrateByTimer \/ Fallback \/ DetectTick
    /\ UNCHANGED <<timer, offset, apc, set, now, deadline, delay>> /\ UNCHANGED extVars

-----------------------------------------------------------------------------
\* Alarms are in time: not before the time asked for, but for one further away than
\* the ARM timer reaches and for the ticks that the LoongArch timer cannot tell
\* apart, and after it by no more than SetAlarm was interrupted for; an alarm in
\* the past goes off at once.
InTime ==
    deadline # None /\ apc = "idle" =>
        /\ deadline >= IF timer = "generic" THEN Min({set, now + MaxInt32})
                       ELSE IF timer = "tsc" THEN set ELSE set - 3
        /\ deadline <= Max({set, now + 1}) + delay

\* The time of the NUC980 is the time since its timer was started, across any number
\* of wraps of the counter, and never goes back.
Extended == reads.got = reads.at /\ (started => reads.at <= counter)

\* The frequency found is the frequency, whichever of the sources there are and
\* however the reading of two clocks falls, or the 1 that says that there is none.
FrequencyRight == dpc = "done" => freq \in {Frequency * Second, 1}

-----------------------------------------------------------------------------
(***************************************************************************)
(* The watchdog timers: WDOG of the i.MX, the WDT of the LAN969x and of    *)
(* the FSL91030, and that of the Raspberry Pi.  A call of a driver is the  *)
(* sequence of its register writes, between which time goes on and the     *)
(* counter runs; a tick is the resolution of the timer.                    *)
(*                                                                         *)
(* dog: the timer and the call in progress.  promise: what the application *)
(* was promised, the timeout of the last call that started or serviced the *)
(* watchdog, and how long ago that call began.                             *)
(***************************************************************************)

CONSTANTS Kinds,          \* subset of {"wdog", "wdt", "fsl", "rpi"}
          Timeouts,       \* timeouts in ticks; for wdt and fsl the codes N of 2^N ticks
          DogDelays,      \* arguments of EnableInterrupt, in ticks
          MaxDogCalls,    \* bound: calls
          MaxDogTicks     \* bound: ticks

VARIABLES dog, promise

Never == 100   \* the timeout of a timer that was never loaded: beyond MaxDogTicks

DogInit ==
  /\ dog \in [kind : Kinds, clk : {TRUE}, on : {FALSE}, wt : {Never}, cur : {Never}, count : 0 .. 1, rmod : {FALSE},
              irq : {FALSE}, seq : {FALSE}, wen : {FALSE}, first : {0}, wie : {FALSE}, wict : {0}, reset : {FALSE},
              todo : {<<>>}, timeout : {0}, calls : {0}, ticks : {0}]
  /\ promise = [call |-> "none", arg |-> [t |-> 0, twice |-> FALSE], asked |-> 0, twice |-> FALSE,
                warned |-> FALSE, age |-> 0, run |-> 0, since |-> 0, took |-> 0, made |-> FALSE]

-----------------------------------------------------------------------------
(* The calls, as their register writes.                                    *)

Op(r, v) == [r |-> r, v |-> v]

(* timeout/500-1 in the 8 bit field WT, in units of half a second.         *)
FieldWide(timeout) == timeout % 256
Field(timeout) == (timeout + 255) % 256

EnableTimeout(t) == <<Op("wt", Field(t)), Op("wdt", 0), Op("wde", 0)>>

ServiceGated(t) ==
  <<Op("wt", Field(t))>> \o (IF dog.wie THEN <<Op("wtis", 0)>> ELSE <<>>)
    \o <<Op("seq1", 0), Op("seq2", 0)>>

(* The clock first: with it off the counter goes on but is not serviced.   *)
Service(t) ==
  <<Op("ccgr", 0), Op("wt", Field(t))>> \o (IF dog.wie THEN <<Op("wtis", 0)>> ELSE <<>>)
    \o <<Op("seq1", 0), Op("seq2", 0)>>

EnableInterrupt(before) == <<Op("wicr", before)>>
ClearInterrupt == <<Op("wtis", 0)>>

(* enable of the LAN969x, under the mutex, and Kick.                       *)
enable(top, interrupt) == <<Op("torr", 2 ^ top), Op("rmod", interrupt), Op("en", 0), Op("kick", 0)>>
Kick == <<Op("kick", 0)>>

(* FSL91030: every write is preceded by the unlock.                        *)
unlockAndWrite(r, v) == <<Op("wen", 0), Op(r, v)>>
Off == [on |-> FALSE, int |-> 0, rst |-> 0]

StartStale(i, r) ==
  unlockAndWrite("ctrl", Off) \o unlockAndWrite("ctrl", [on |-> TRUE, int |-> 2 ^ i, rst |-> 2 ^ r])

Start(i, r) ==
  unlockAndWrite("ctrl", Off) \o unlockAndWrite("restart", 0)
    \o unlockAndWrite("ctrl", [on |-> TRUE, int |-> 2 ^ i, rst |-> 2 ^ r])

Stop == unlockAndWrite("ctrl", Off)
Feed == unlockAndWrite("restart", 0)

(* Raspberry Pi: Start stores the timeout and calls Reset, which loads the *)
(* counter and then enables the reset.                                     *)
RpiReset(timeout) == <<Op("load", timeout), Op("rstc", TRUE)>>
RpiStop == <<Op("rstc", FALSE)>>

-----------------------------------------------------------------------------
(* External: what a register write does to the timer.                      *)
Effect(x, o) ==
  CASE o.r = "ccgr" -> [x EXCEPT !.clk = TRUE]
    [] o.r = "wt" -> [x EXCEPT !.wt = o.v + 1]
    [] o.r = "wdt" -> x
    [] o.r = "wde" -> IF x.on THEN x ELSE [x EXCEPT !.on = TRUE, !.cur = x.wt, !.count = 0]
    [] o.r = "wicr" -> [x EXCEPT !.wie = TRUE, !.wict = o.v]
    [] o.r = "wtis" -> [x EXCEPT !.irq = FALSE]
    [] o.r = "seq1" -> [x EXCEPT !.seq = x.clk]
    [] o.r = "seq2" -> IF x.clk /\ x.seq THEN [x EXCEPT !.seq = FALSE, !.cur = x.wt, !.count = 0] ELSE x
    [] o.r = "torr" -> [x EXCEPT !.wt = o.v]
    [] o.r = "rmod" -> [x EXCEPT !.rmod = o.v]
    [] o.r = "en" -> [x EXCEPT !.on = TRUE]
    [] o.r = "kick" -> [x EXCEPT !.cur = x.wt, !.count = 0, !.irq = FALSE]
    [] o.r = "wen" -> [x EXCEPT !.wen = TRUE]
    [] o.r = "restart" -> IF x.wen THEN [x EXCEPT !.wen = FALSE, !.count = 0, !.irq = FALSE] ELSE x
    [] o.r = "ctrl" -> IF x.wen THEN [x EXCEPT !.wen = FALSE, !.on = o.v.on, !.first = o.v.int,
                                               !.cur = o.v.int + o.v.rst] ELSE x
    [] o.r = "load" -> [x EXCEPT !.cur = o.v, !.count = 0]
    [] o.r = "rstc" -> [x EXCEPT !.on = o.v]

(* A call begins, is carried out write by write, and returns with its last *)
(* write, which is when its promise counts.                                *)
Begin(call, arg, twice, ops) ==
  /\ ~dog.reset /\ dog.todo = <<>> /\ dog.calls < MaxDogCalls
  /\ dog' = [dog EXCEPT !.todo = ops, !.calls = @ + 1]
  /\ promise' = [promise EXCEPT !.call = call, !.arg = [t |-> arg, twice |-> twice], !.run = 0]

Promise ==
  CASE promise.call \in {"start", "service"} ->
         [promise EXCEPT !.asked = promise.arg.t, !.twice = promise.arg.twice, !.age = promise.run,
                         !.since = promise.run, !.took = promise.run, !.made = TRUE, !.warned = FALSE]
    [] promise.call = "kick" ->
         [promise EXCEPT !.age = promise.run, !.since = promise.run, !.took = promise.run, !.warned = FALSE]
    [] promise.call = "stop" -> [promise EXCEPT !.made = FALSE]
    [] promise.call = "clear" ->
         IF promise.warned THEN [promise EXCEPT !.since = promise.run, !.took = promise.run, !.warned = FALSE]
         ELSE promise
    [] promise.call = "none" -> promise

Write ==
  /\ ~dog.reset /\ dog.todo # <<>>
  /\ dog' = [Effect(dog, Head(dog.todo)) EXCEPT !.todo = Tail(@)]
  /\ promise' = IF Tail(dog.todo) = <<>> THEN [Promise EXCEPT !.call = "none", !.run = 0] ELSE promise

WdogCall ==
  /\ dog.kind = "wdog"
  /\ \/ \E t \in Timeouts : Begin(IF dog.on THEN "none" ELSE "start", t, FALSE, EnableTimeout(t))
     \/ dog.on /\ \E t \in Timeouts : Begin("service", t, FALSE, Service(t))
     \/ ~dog.wie /\ \E t \in DogDelays : Begin("none", 0, FALSE, EnableInterrupt(t))
     \/ Begin("none", 0, FALSE, ClearInterrupt)

(* EnableReset and EnableInterrupt of the LAN969x.                         *)
WdtCall ==
  /\ dog.kind = "wdt"
  /\ \/ \E t \in Timeouts, i \in BOOLEAN : Begin("start", 2 ^ t, i, enable(t, i))
     \/ dog.on /\ Begin("kick", 0, FALSE, Kick)
     \/ dog.on /\ Begin("clear", 0, FALSE, ClearInterrupt)

FslCall ==
  /\ dog.kind = "fsl"
  /\ \/ \E i, r \in Timeouts : Begin("start", 2 ^ i + 2 ^ r, FALSE, Start(i, r))
     \/ Begin("kick", 0, FALSE, Feed)
     \/ Begin("stop", 0, FALSE, Stop)

RpiCall ==
  /\ dog.kind = "rpi"
  /\ \/ \E t \in Timeouts :
          /\ ~dog.reset /\ dog.todo = <<>> /\ dog.calls < MaxDogCalls
          /\ dog' = [dog EXCEPT !.timeout = t, !.todo = RpiReset(t), !.calls = @ + 1]
          /\ promise' = [promise EXCEPT !.call = "start", !.arg = [t |-> t, twice |-> FALSE], !.run = 0]
     \/ Begin("start", dog.timeout, FALSE, RpiReset(dog.timeout))
     \/ Begin("stop", 0, FALSE, RpiStop)

(* The other world gates the clock of a WDOG.                              *)
ClockOff ==
  /\ dog.kind = "wdog" /\ dog.on /\ dog.clk /\ dog.todo = <<>>
  /\ dog' = [dog EXCEPT !.clk = FALSE]
  /\ UNCHANGED promise

(* External: time, the first timeout (an interrupt) and the reset.         *)
DogTick ==
  LET due == dog.on /\ dog.count + 1 >= dog.cur
      early == \/ dog.kind = "wdt" /\ dog.rmod /\ ~dog.irq /\ due
               \/ dog.kind = "fsl" /\ dog.on /\ dog.count + 1 >= dog.first
               \/ dog.kind = "wdog" /\ dog.on /\ dog.wie /\ dog.count + 1 + dog.wict >= dog.cur
      again == dog.kind = "wdt" /\ dog.rmod /\ ~dog.irq /\ due
  IN  /\ ~dog.reset /\ dog.ticks < MaxDogTicks
      /\ dog' = [dog EXCEPT !.ticks = @ + 1, !.irq = @ \/ early, !.reset = due /\ ~again,
                            !.count = IF again THEN 0 ELSE IF dog.on THEN @ + 1 ELSE @]
      /\ promise' = [promise EXCEPT !.age = @ + 1, !.since = @ + 1,
                                    !.run = IF dog.todo # <<>> THEN @ + 1 ELSE @, !.warned = @ \/ early]

DogNext == WdogCall \/ WdtCall \/ FslCall \/ RpiCall \/ Write \/ ClockOff \/ DogTick

-----------------------------------------------------------------------------
(* A board whose watchdog is serviced in time is not reset: a reset comes  *)
(* no earlier than the timeout after the start, or the last service, began *)
(* (EnableTimeout, Service, enable, Kick, Start, Feed and Reset), and where*)
(* the interrupt comes first it has come.  A call in progress may have     *)
(* loaded its own, shorter timeout already.                                *)
NoEarlyReset ==
  /\ dog.reset /\ promise.made =>
       \/ promise.age >= promise.asked
       \/ dog.todo # <<>> /\ promise.call \in {"start", "service"} /\ promise.run >= promise.arg.t
  /\ dog.reset /\ promise.made /\ dog.todo = <<>> /\ (dog.kind = "fsl" \/ promise.twice) => promise.warned

(* A board that hangs is reset: the time since the last service, or since  *)
(* the interrupt was last acknowledged, is always less than the timeout,   *)
(* or twice the timeout where the first one only interrupts.               *)
HangIsReset ==
  promise.made /\ ~dog.reset /\ dog.todo = <<>> /\ promise.since > promise.took
    => promise.since - promise.took < IF promise.twice THEN 2 * promise.asked ELSE promise.asked

(* What the watchdogs promise.                                             *)
Guarded == NoEarlyReset /\ HangIsReset

\* Time is right, of the clocks, of alarms and of watchdogs.
TimeRight == InTime /\ Extended /\ FrequencyRight /\ Guarded

=============================================================================
