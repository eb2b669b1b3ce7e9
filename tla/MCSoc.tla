-------------------------------- MODULE MCSoc --------------------------------
(***************************************************************************)
(* The packages for the systems on chip and the boards, for TLC: register  *)
(* fields; one time programmable memory; access control, security monitor  *)
(* and bus encryption; random numbers; clocks; timers and watchdogs; the   *)
(* i.MX6UL boards.  Apart from the registers they share no state, so that  *)
(* each is explored while the others stand still.                          *)
(***************************************************************************)
EXTENDS SocProofs, TLC

CONSTANTS Requests, Divs, MaxTreeCalls, Parents, TargetClocks, SdFreqs, Prescalers, LowerSize, MaxSdCalls
CONSTANTS MaxInt32, Delays, Times, MaxTicks, Period, Second, Frequency, PmMask, PmLoop, TscMod
CONSTANTS Kinds, Timeouts, DogDelays, MaxDogCalls, MaxDogTicks
CONSTANTS Boards, MaxBoardCalls, MaxPolls

VARIABLES fpc, mhz, curMHz, div, podf, bypass, targ, tree, sdc
VARIABLES timer, counter, offset, apc, set, now, deadline, delay, timerLast, timerHigh, started,
          reads, freq, dpc, pm0, tsc0, clocks
VARIABLES dog, promise
VARIABLES pins, phy, ble, accessory

VARIABLE part       \* the part that is explored

freqVars == <<fpc, mhz, curMHz, div, podf, bypass, targ>>
timerVars == <<timer, counter, offset, apc, set, now, deadline, delay, timerLast, timerHigh,
               started, reads, freq, dpc, pm0, tsc0, clocks>>
dogVars == <<dog, promise>>
boardVars == <<pins, phy, ble, accessory>>
regVars == <<updateVars, waitVars>>
secureVars == <<fuseVars, accessVars, rngVars>>
timeVars == <<freqVars, tree, sdc, timerVars, dogVars>>

Clock == INSTANCE Clocks
Boot == INSTANCE Board

MCInit ==
    /\ part \in {"update", "wait", "ocotp", "otpc", "units", "guard", "source", "drbg", "freq",
             "tree", "sdclk", "alarm", "count", "detect", "watchdog", "board"}
    /\ UpdateInit /\ WaitInit /\ (part \notin {"update", "wait"} => mem = {})
    /\ FusesInit /\ UnitsInit /\ SnvsInit /\ BeeInit
    /\ SourceInit /\ (part # "source" => gen.kind = CHOOSE k \in Sources : TRUE)
    /\ DrbgInit /\ Clock!TreeInit
    /\ Clock!SdClockInit /\ (part # "sdclk" => sdc.parent = (CHOOSE c \in Parents : TRUE) /\ ~sdc.ena /\ sdc.pre = 0
                                  /\ sdc.src = 0 /\ sdc.target = CHOOSE c \in TargetClocks : TRUE)
    /\ Clock!FreqInit /\ (part # "freq" => podf = 3)
    /\ Clock!AlarmInit /\ (part # "alarm" => timer = "tsc")
    /\ Clock!DetectInit /\ (part # "detect" => \A c \in DOMAIN clocks : ~clocks[c])
    /\ Clock!DogInit
    /\ part # "watchdog" => dog.count = 0 /\ dog.kind = CHOOSE k \in Kinds : TRUE
    /\ Clock!ExtInit
    /\ Boot!BoardInit /\ (part # "board" => pins.board = CHOOSE b \in Boards : TRUE)

MCNext ==
    \/ part = "update" /\ UpdateNext
       /\ UNCHANGED <<part, waitVars, secureVars, timeVars, boardVars>>
    \/ part = "wait" /\ WaitNext /\ UNCHANGED <<part, secureVars, timeVars, boardVars>>
    \/ part = "ocotp" /\ OcotpNext
       /\ UNCHANGED <<part, regVars, otpc, accessVars, rngVars, timeVars, boardVars>>
    \/ part = "otpc" /\ OtpcNext
       /\ UNCHANGED <<part, regVars, ocotp, accessVars, rngVars, timeVars, boardVars>>
    \/ part = "units" /\ UnitsNext
       /\ UNCHANGED <<part, regVars, fuseVars, rngVars, timeVars, boardVars>>
    \/ part = "guard" /\ GuardNext
       /\ UNCHANGED <<part, regVars, fuseVars, rngVars, timeVars, boardVars>>
    \/ part = "source" /\ SourceNext
       /\ UNCHANGED <<part, regVars, fuseVars, accessVars, timeVars, boardVars>>
    \/ part = "drbg" /\ DrbgNext
       /\ UNCHANGED <<part, regVars, fuseVars, accessVars, timeVars, boardVars>>
    \/ part = "freq" /\ Clock!FreqNext
       /\ UNCHANGED <<part, regVars, secureVars, tree, sdc, timerVars, dogVars, boardVars>>
    \/ part = "tree" /\ Clock!TreeNext
       /\ UNCHANGED <<part, regVars, secureVars, freqVars, sdc, timerVars, dogVars, boardVars>>
    \/ part = "sdclk" /\ Clock!SdClockNext
       /\ UNCHANGED <<part, regVars, secureVars, freqVars, tree, timerVars, dogVars, boardVars>>
    \/ part = "alarm" /\ Clock!AlarmNext
       /\ UNCHANGED <<part, regVars, secureVars, freqVars, tree, sdc, dogVars, boardVars>>
    \/ part = "count" /\ Clock!ExtNext
       /\ UNCHANGED <<part, regVars, secureVars, freqVars, tree, sdc, dogVars, boardVars>>
    \/ part = "detect" /\ Clock!DetectNext
       /\ UNCHANGED <<part, regVars, secureVars, freqVars, tree, sdc, dogVars, boardVars>>
    \/ part = "watchdog" /\ Clock!DogNext
       /\ UNCHANGED <<part, regVars, secureVars, freqVars, tree, sdc, timerVars, boardVars>>
    \/ part = "board" /\ Boot!BoardNext
       /\ UNCHANGED <<part, regVars, secureVars, timeVars>>

Asleep == UNCHANGED <<part, updateVars, secureVars, timeVars, boardVars>>
Still == UNCHANGED <<part, regVars, secureVars, timeVars>>

MCSpec ==
    /\ MCInit /\ [][MCNext]_<<part, regVars, secureVars, timeVars, boardVars>>
    /\ WF_waitVars(part = "wait" /\ WaitRead /\ Asleep)
    /\ WF_waitVars(part = "wait" /\ WaitSched /\ Asleep)
    /\ WF_boardVars(part = "board" /\ Boot!WaitGivesUp /\ Still)

\* with goroutines that also run on in calls of the Bluetooth module
MCBleSpec == MCSpec /\ \A c \in Callers : WF_boardVars(part = "board" /\ Boot!BleStep(c) /\ Still)

MCPos == "a" :> 0 @@ "b" :> 2
MCMask == "a" :> {0, 1} @@ "b" :> {0, 1}
MCHwMask == {0}
MCDelays == {-2, 0, 2, 5}

\* The ARM core is never faster than its voltage supports; a PLL is in use only when it
\* is locked, and the root clocks of the peripherals are those that were asked for, as
\* is the clock of the SDHCI, which does not change under a running card.
ClocksRight ==
    /\ part = "freq" => Clock!Supplied
    /\ part = "tree" => Clock!PllSound /\ Clock!RootClocks
    /\ part = "sdclk" => Clock!SdClockRight

\* Alarms and watchdogs go off in time, the time of the NUC980 survives its counter,
\* and the frequency found for the time stamp counter is its frequency.
TimeRight == part \in {"alarm", "count", "detect", "watchdog"} => Clock!TimeRight

\* Pads, LEDs, Ethernet transceiver, Bluetooth module and debug accessory of the boards
\* are in the state that their drivers report.
BoardsUp == part = "board" => Boot!BoardsUp

\* A wait for a register field ends when its time or its signal has come, and a caller
\* of DetectDebugAccessory is answered.
CallsEnd == (part = "wait" => WaitEnds) /\ (part = "board" => Boot!Answered)

\* "Enter bootloader mode by driving low SWITCH_1 and SWITCH_2 during a module reset
\* cycle.": a call for a mode ends, with the module in that mode.
ModeEntered == part = "board" => Boot!ModeEntered

=============================================================================
