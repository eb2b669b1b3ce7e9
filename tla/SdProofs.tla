------------------------------ MODULE SdProofs ------------------------------
(***************************************************************************)
(* The SD and eMMC drivers: what they promise, and the proofs.  Each of    *)
(* the five components has an inductive invariant, which says for every    *)
(* step of a call where the controller, the card and the driver can be,    *)
(* and a lemma that no step of the component leaves it.                    *)
(***************************************************************************)
EXTENDS SdhciBlocks, ModFacts

-----------------------------------------------------------------------------
(* UsdhcDetect: detection of cards.                                        *)

CONSTANTS LowVoltage, Width, Slots, DetMaxFaults, MaxSwaps

VARIABLES slot, cst, crm, detInfo, detHost, detPc, ret, full, same, detFaults, swaps

Detection == INSTANCE UsdhcDetect

\* Fields of the records, and a number of failures.
DetType ==
    /\ DOMAIN cst = {"st", "width", "mode", "data", "io"}
    /\ DOMAIN detInfo = {"flags", "Rate", "BlockSize"}
    /\ DOMAIN detHost = {"clk", "io"}
    /\ detFaults \in Nat

\* A card that is not selected is at the settings it powers up with; the steps of
\* Detect see a card that was exchanged as idle.
Fresh ==
    /\ cst.st # "tran" => cst.width = 1 /\ cst.mode = "none" /\ cst.data = "sdr"
    /\ ~Detection!IsSD => cst.io = "3.3V"
    /\ cst.st = "ready" /\ detPc = "voltageMMC" => slot # "MMC"
    /\ detPc = "voltageSD" => cst.st = "idle"
    /\ detPc \in {"voltageMMC", "voltageSwitchSD", "selectSD", "selectMMC"} =>
          cst.st \in {"idle", "ready"}
    /\ detPc \in {"widthSD", "modeSD", "clockSD", "widthMMC", "capabilitiesMMC", "timingMMC",
                "ddrMMC", "blocklen"} =>
          cst.st \in {"idle", "tran"}

\* The flags of the driver are those of the kind of card that answered, if it is still
\* there.
Kind ==
    /\ detPc \in {"voltageSD", "voltageMMC"} =>
          "SD" \notin detInfo.flags /\ "MMC" \notin detInfo.flags /\ "DDR" \notin detInfo.flags
    /\ detPc \in {"voltageSwitchSD", "selectSD", "widthSD", "modeSD", "clockSD"} =>
          /\ "SD" \in detInfo.flags /\ "MMC" \notin detInfo.flags /\ "DDR" \notin detInfo.flags
          /\ cst.st # "idle" => Detection!IsSD
    /\ detPc \in {"selectMMC", "widthMMC", "capabilitiesMMC", "timingMMC", "ddrMMC"} =>
          /\ "SD" \notin detInfo.flags /\ "MMC" \in detInfo.flags /\ "DDR" \notin detInfo.flags
          /\ cst.st # "idle" => slot = "MMC"
          /\ detHost.io = "3.3V"
    /\ detPc = "voltageMMC" => detHost.io = "3.3V"

\* The rates that need 1.8 V are kept only if both sides were switched; a card that
\* was selected hears the controller.
AtVoltage ==
    /\ detPc \in {"selectSD", "widthSD", "modeSD", "clockSD"} /\ detInfo.Rate # "HS" =>
          LowVoltage /\ detHost.io = "1.8V" /\ (cst.st # "idle" => cst.io = "1.8V")
    /\ detPc \in {"widthSD", "modeSD", "clockSD"} =>
          detInfo.BlockSize # 0 /\ detHost.clk = "op" /\ (cst.st = "tran" => cst.io = detHost.io)
    /\ detPc \in {"widthSD", "modeSD", "clockSD", "widthMMC", "capabilitiesMMC",
                "timingMMC", "ddrMMC"} =>
          cst.data = "sdr"
    /\ detPc \in {"modeSD", "clockSD"} /\ cst.st = "tran" => cst.width = Width
    /\ detPc = "clockSD" /\ cst.st = "tran" => cst.mode = detInfo.Rate

\* The settings of the controller and of an eMMC card at each step, and those of any
\* card before the last.
Timed ==
    /\ detPc \in {"widthMMC", "capabilitiesMMC", "timingMMC", "ddrMMC"} => detHost.clk = "op"
    /\ detPc \in {"capabilitiesMMC", "timingMMC", "ddrMMC"} /\ cst.st = "tran" =>
          cst.width = Width
    /\ detPc \in {"timingMMC", "ddrMMC"} => detInfo.BlockSize # 0
    /\ detPc = "ddrMMC" /\ cst.st = "tran" => cst.mode = detInfo.Rate
    /\ detPc = "blocklen" /\ cst.st = "tran" => Detection!Usable

\* The inductive invariant of detection, with what it is for.
DetInv == DetType /\ Fresh /\ Kind /\ AtVoltage /\ Timed /\ Detection!FreshTruth

\* No step of Detect, whether its commands succeed or fail, no other operation and no
\* exchange of the card leaves the invariant.
LEMMA DetStep == DetInv /\ [Detection!Next]_(Detection!vars) => DetInv'
<1> SUFFICES ASSUME DetInv, [Detection!Next]_(Detection!vars) PROVE DetInv'
  OBVIOUS
<1> USE DEF DetInv, DetType, Fresh, Kind, AtVoltage, Timed, Detection!FreshTruth,
            Detection!IsSD, Detection!DDR,
            Detection!result, Detection!PowerUp
<1>0. ASSUME NEW after, Detection!Fault(after) PROVE cst' \in {cst, after} /\ detFaults' \in Nat
  BY <1>0 DEF Detection!Fault
<1> USE <1>0
<1>1. CASE Detection!DetectAgain
  BY <1>1 DEF Detection!DetectAgain, Detection!NoInfo, Detection!ResetHost
<1>2. CASE Detection!DetectShort
  BY <1>2 DEF Detection!DetectShort
<1>3. CASE Detection!voltageValidationSD
  <2>1. CASE detPc' = "voltageSwitchSD"
    <3>1. Detection!IsSD /\ cst' = [cst EXCEPT !.st = "ready"] /\ cst.st = "idle"
          /\ detInfo' = Detection!SDInfo
      BY <1>3, <2>1 DEF Detection!voltageValidationSD, Detection!Takes
    <3>2. DOMAIN detInfo' = DOMAIN detInfo /\ detInfo'.flags = detInfo.flags \cup {"SD", "HC"}
      BY <3>1 DEF Detection!SDInfo
    <3>3. detFaults' = detFaults
      BY <1>3, <2>1 DEF Detection!voltageValidationSD, Detection!Takes
    <3>4. QED
      BY <1>3, <2>1, <3>1, <3>2, <3>3 DEF Detection!voltageValidationSD
  <2>2. CASE detPc' = "voltageMMC"
    <3>1. cst' = cst \/ (Detection!IsSD /\ cst' = [cst EXCEPT !.st = "ready"])
      <4>1. (Detection!IsSD /\ Detection!Fault([cst EXCEPT !.st = "ready"]))
            \/ Detection!Takes(cst)
        BY <1>3, <2>2 DEF Detection!voltageValidationSD
      <4>2. CASE Detection!Fault([cst EXCEPT !.st = "ready"])
        BY <1>0, <4>1, <4>2 DEF Detection!Takes
      <4>3. CASE Detection!Takes(cst)
        BY <4>3 DEF Detection!Takes
      <4>4. QED
        BY <4>1, <4>2, <4>3
    <3>2. \A f \in {"SD", "MMC", "DDR"} : f \notin detInfo'.flags
      BY <1>3, <2>2 DEF Detection!voltageValidationSD
    <3>3. DOMAIN detInfo' = DOMAIN detInfo /\ detFaults' \in Nat
      BY <1>3, <2>2 DEF Detection!voltageValidationSD, Detection!Takes
    <3>4. QED
      BY <1>3, <2>2, <3>1, <3>2, <3>3 DEF Detection!voltageValidationSD
  <2>3. QED
    BY <1>3, <2>1, <2>2 DEF Detection!voltageValidationSD
<1>4. CASE Detection!voltageSwitchSD
  BY <1>4 DEF Detection!voltageSwitchSD, Detection!Takes
<1>5. CASE Detection!selectSD
  BY <1>5 DEF Detection!selectSD, Detection!Takes, Detection!Fail, Detection!Refuse,
         Detection!setFreq, Detection!Hears
<1>6. CASE Detection!widthSD
  BY <1>6 DEF Detection!widthSD, Detection!Takes, Detection!Fail, Detection!Refuse,
         Detection!Hears
<1>7. CASE Detection!modeSD
  BY <1>7 DEF Detection!modeSD, Detection!Takes, Detection!Fail, Detection!Refuse,
         Detection!Hears
<1>8. CASE Detection!clockSD
  BY <1>8 DEF Detection!clockSD, Detection!Takes, Detection!Fail, Detection!Refuse,
         Detection!setFreq, Detection!TuningFails, Detection!Usable
<1>9. CASE Detection!voltageValidationMMC
  BY <1>9 DEF Detection!voltageValidationMMC, Detection!Takes, Detection!Fail, Detection!Refuse
<1>10. CASE Detection!selectMMC
  BY <1>10 DEF Detection!selectMMC, Detection!Takes, Detection!Fail, Detection!Refuse,
         Detection!setFreq
<1>11. CASE Detection!widthMMC
  BY <1>11 DEF Detection!widthMMC, Detection!Takes, Detection!Fail, Detection!Refuse
<1>12. CASE Detection!capabilitiesMMC
  <2>1. CASE detPc' = "idle"
    BY <1>12, <2>1 DEF Detection!capabilitiesMMC, Detection!Takes, Detection!Fail,
           Detection!Refuse
  <2>2. CASE detPc' # "idle"
    <3>1. detInfo'.BlockSize = 512 /\ detInfo'.flags = detInfo.flags
          /\ DOMAIN detInfo' = DOMAIN detInfo
      BY <1>12, <2>2, ZenonT(30) DEF Detection!capabilitiesMMC, Detection!Fail, Detection!Refuse
    <3>2. detPc' \in {"timingMMC", "blocklen"} /\ cst' = cst
      BY <1>12, <2>2, Zenon DEF Detection!capabilitiesMMC, Detection!Takes, Detection!Fail,
             Detection!Refuse
    <3>3. QED
      <4>1. cst.st = "tran" /\ detHost' = detHost /\ slot' = slot /\ detFaults' = detFaults
        BY <1>12, <2>2, Zenon DEF Detection!capabilitiesMMC, Detection!Takes, Detection!Fail,
               Detection!Refuse
      <4>2. Detection!Usable'
        <5>1. slot = "MMC" /\ ~Detection!IsSD /\ cst.io = detHost.io
              /\ cst.width = Width /\ cst.data = "sdr"
              /\ detHost.clk = "op" /\ "SD" \notin detInfo.flags
              /\ "MMC" \in detInfo.flags /\ ~Detection!DDR
          BY <1>12, <4>1, Zenon DEF Detection!capabilitiesMMC
        <5>2. QED
          BY <3>1, <3>2, <4>1, <5>1 DEF Detection!Usable
      <4>3. QED
        <5>1. detPc = "capabilitiesMMC"
          BY <1>12, Zenon DEF Detection!capabilitiesMMC
        <5>2. (DetType /\ Fresh /\ Detection!FreshTruth)'
          BY <3>1, <3>2, <4>1, <5>1
        <5>3. (Kind /\ AtVoltage)'
          BY <3>1, <3>2, <4>1, <5>1, Zenon
        <5>4. Timed'
          BY <3>1, <3>2, <4>1, <4>2, <5>1
        <5>5. QED
          BY <5>2, <5>3, <5>4, Zenon
  <2>3. QED
    BY <2>1, <2>2, Zenon
<1>13. CASE Detection!timingMMC
  BY <1>13 DEF Detection!timingMMC, Detection!Takes, Detection!Fail, Detection!Refuse
<1>14. CASE Detection!ddrMMC
  BY <1>14 DEF Detection!ddrMMC, Detection!Takes, Detection!Fail, Detection!Refuse,
         Detection!setFreq, Detection!DataRate, Detection!Usable
<1>15. CASE Detection!Finish
  <2>1. CASE ret' = "nil"
    <3>1. UNCHANGED <<slot, cst, detInfo, detHost, detFaults>> /\ detPc' = "idle"
      BY <1>15, <2>1 DEF Detection!Finish, Detection!Fail, Detection!Refuse
    <3>2. same' => cst.st = "tran"
      BY <1>15, <2>1 DEF Detection!Finish, Detection!Fail, Detection!Refuse
    <3>3. Detection!Usable => Detection!Usable'
      BY <3>1 DEF Detection!Usable
    <3>4. QED
      BY <1>15, <3>1, <3>2, <3>3 DEF Detection!Finish
  <2>2. CASE ret' # "nil"
    <3>1. UNCHANGED <<slot, cst, detInfo, detHost>> /\ detPc' = "idle" /\ detFaults' \in Nat
      BY <1>15, <2>2, Zenon DEF Detection!Finish, Detection!Fail, Detection!Refuse
    <3>2. QED
      BY <2>2, <3>1
  <2>3. QED
    BY <2>1, <2>2, Zenon
<1>16. CASE Detection!Use
  BY <1>16, Zenon DEF Detection!Use, Detection!Usable
<1>17. CASE Detection!Swap
  BY <1>17, Zenon DEF Detection!Swap
<1>18. CASE UNCHANGED Detection!vars
  BY <1>18 DEF Detection!vars, Detection!Usable
<1> HIDE DEF DetInv
<1>19. QED
  BY <1>1, <1>2, <1>3, <1>4, <1>5, <1>6, <1>7, <1>8, <1>9, <1>10, <1>11, <1>12,
     <1>13, <1>14, <1>15, <1>16, <1>17, <1>18 DEF Detection!Next

\* The invariant holds in every state.
LEMMA DetAlways == Detection!Spec => []DetInv
<1>1. Detection!Init => DetInv
  BY DEF Detection!Init, DetInv, DetType, Fresh, Kind, AtVoltage, Timed, Detection!FreshTruth,
         Detection!PowerUp, Detection!NoInfo, Detection!ResetHost
<1>2. QED
  BY <1>1, DetStep, PTL DEF Detection!Spec

-----------------------------------------------------------------------------
(* SdhciTransfer: block transfers and their recovery.                      *)

CONSTANTS MaxTransfers, MaxChunks

VARIABLES xferReady, xferPc, cmd, dir, multi, chunks, first, id, held, failed, ignored, r1, late,
          xferResult, cmdline, datline, aborted, busy, cmdc, trfc, errs, hung, cardState, done

Transfer == INSTANCE SdhciTransfer

\* the steps of the three commands of a transfer: its data command, CMD12, CMD13
XferSteps == {"clear", "inhibit", "poll", "response", "data"}
StopSteps == {"clear", "inhibit", "poll", "busy", "resetdat"}
StatusSteps == {"clear", "inhibit", "poll", "state", "released"}

\* Types of the counters of a call, of its direction and of the card.
TransferType ==
    /\ id \in Nat /\ first \in Nat
    /\ dir \in {"read", "write"} /\ cardState \in {"tran", "data", "prg"}

\* the command that is run goes with the step
Placed ==
    \/ xferPc \in {"idle", "chunk", "invalidate"} /\ cmd \in {"xfer", "stop", "status"}
    \/ cmd = "xfer" /\ xferPc \in XferSteps
    \/ cmd = "stop" /\ xferPc \in StopSteps
    \/ cmd = "status" /\ xferPc \in StatusSteps

\* the call is at rest, or between two of its commands
Quiescent == xferPc = "chunk" \/ (xferPc = "idle" /\ xferReady)

\* the command in progress
InXfer == cmd = "xfer" /\ xferPc \in XferSteps
InStop == cmd = "stop" /\ xferPc \in StopSteps
InStatus == cmd = "status" /\ xferPc \in StatusSteps

\* No data is on the line, and the controller signals no busy, when nothing is in
\* flight: between commands, during CMD13, before the data command is issued.
Quiet ==
    Quiescent \/ InStatus \/ (InXfer /\ xferPc \in {"clear", "inhibit"}) =>
        datline = Transfer!None /\ ~busy

\* The data line is only ever used by the chunk of the call, whose buffer is then
\* held; the one exception is a controller that hangs, which is no longer ready.
Held ==
    /\ held \in {Transfer!None, id}
    /\ datline \in {Transfer!None, id}
    /\ xferPc \in {"idle", "chunk"} => held = Transfer!None
    /\ InXfer => held = id /\ ~failed
    /\ InStop => held = id /\ failed
    /\ InStatus => held = IF failed THEN id ELSE Transfer!None
    /\ xferPc = "released" => failed
    /\ xferPc = "invalidate" /\ datline # Transfer!None => held = id
    /\ xferPc = "idle" /\ datline # Transfer!None => hung

\* Where the card is in its transfer state, and where the command line is free.
Settled ==
    /\ Quiescent \/ xferPc = "released" \/ (InXfer /\ xferPc \in {"clear", "inhibit"}) =>
          cardState = "tran"
    /\ Quiescent \/ xferPc \in {"response", "data", "busy", "resetdat", "state", "released"} =>
          ~cmdline
    /\ (InXfer /\ xferPc = "clear") => ~cmdline
    /\ cmdc /\ xferPc \in {"inhibit", "poll"} => ~cmdline
    /\ xferPc = "inhibit" => ~cmdc

\* A completion that the controller reports during a data command is of that
\* command: its blocks have been moved and the card is past its data state.
Moved ==
    /\ InXfer => ~busy
    /\ InXfer /\ xferPc = "inhibit" => trfc = Transfer!None
    /\ InXfer /\ xferPc # "clear" => trfc \in {Transfer!None, id}
    /\ InXfer /\ xferPc = "poll" /\ cmdline => trfc = Transfer!None /\ cardState = "tran"
    /\ InXfer /\ xferPc # "clear" /\ trfc # Transfer!None =>
          datline = Transfer!None /\ id \in done /\ cardState # "data"
          /\ (dir = "read" => cardState = "tran")

\* The chunks before the current one have been moved, and all of them have when the
\* call reports success.
AllMoved ==
    /\ xferPc # "idle" => id > 0 /\ first > 0 /\ first <= id /\ (first .. (id - 1)) \subseteq done
    /\ xferPc = "chunk" \/ (InStatus /\ ~failed) => id \in done
    /\ xferResult = "ok" => xferPc = "idle" /\ (first .. id) \subseteq done /\ cardState = "tran"

\* The inductive invariant: the steps of one call never meet what an earlier one left.
TransferInv == TransferType /\ Placed /\ Quiet /\ Held /\ Settled /\ Moved /\ AllMoved

\* No step of the driver, of the controller or of the card leaves the invariant.
LEMMA TransferStep == TransferInv /\ [Transfer!Next]_(Transfer!vars) => TransferInv'
<1> SUFFICES ASSUME TransferInv, [Transfer!Next]_(Transfer!vars) PROVE TransferInv'
  OBVIOUS
<1> USE DEF TransferInv, TransferType, Placed, Quiet, Held, Settled, Moved, AllMoved,
        InXfer, InStop, InStatus, Quiescent, XferSteps, StopSteps, StatusSteps,
        Transfer!None, Transfer!Stop, Transfer!call, Transfer!flags, Transfer!host
<1>1. ASSUME NEW x \in {"read", "write"}, NEW k \in 1 .. MaxChunks, Transfer!TransferBlocks(x,
k) PROVE TransferInv'
  BY <1>1 DEF Transfer!TransferBlocks, Transfer!Begin
<1>2. CASE Transfer!NextChunk
  BY <1>2 DEF Transfer!NextChunk, Transfer!Begin, Transfer!Return
<1>3. CASE Transfer!Invalidate
  BY <1>3, Zenon DEF Transfer!Invalidate, Transfer!Reset, Transfer!Return
<1>4. CASE Transfer!RunCommand
  BY <1>4 DEF Transfer!RunCommand
<1>5. CASE Transfer!Issue
  BY <1>5, Zenon DEF Transfer!Issue, Transfer!Inhibited
<1>6. CASE Transfer!InhibitTimeout
  BY <1>6, Zenon DEF Transfer!InhibitTimeout, Transfer!Inhibited, Transfer!Reset, Transfer!Fail,
         Transfer!Lines
<1>7. CASE Transfer!PollIgnore
  BY <1>7 DEF Transfer!PollIgnore, Transfer!Ignorable
<1>8. CASE Transfer!PollFail
  BY <1>8, Zenon DEF Transfer!PollFail, Transfer!Ignorable, Transfer!Reset, Transfer!Fail,
         Transfer!Lines
<1>9. CASE Transfer!PollDone
  BY <1>9 DEF Transfer!PollDone
<1>10. CASE Transfer!Response
  BY <1>10 DEF Transfer!Response, Transfer!Fail
<1>11. CASE Transfer!DataDone
  BY <1>11 DEF Transfer!DataDone
<1>12. CASE Transfer!DataFail
  BY <1>12 DEF Transfer!DataFail, Transfer!Fail
<1>13. CASE Transfer!WaitBusy
  <2>1. ~cmdline'
    BY <1>13, Zenon DEF Transfer!WaitBusy, Transfer!Reset
  <2>2. datline' \in {Transfer!None, datline}
    BY <1>13, Zenon DEF Transfer!WaitBusy, Transfer!Reset
  <2>3. QED
    BY <1>13, <2>1, <2>2 DEF Transfer!WaitBusy
<1>14. CASE Transfer!ResetData
  BY <1>14, Zenon DEF Transfer!ResetData, Transfer!Reset
<1>15. CASE Transfer!WaitState
  BY <1>15 DEF Transfer!WaitState
<1>16. CASE Transfer!Stopped
  BY <1>16 DEF Transfer!Stopped, Transfer!Return
<1>17. CASE Transfer!Reject
  BY <1>17 DEF Transfer!Reject
<1>18. CASE Transfer!Reinit
  BY <1>18 DEF Transfer!Reinit
<1>19. CASE Transfer!Deadline
  BY <1>19 DEF Transfer!Deadline
<1>20. CASE Transfer!HwCommand
  BY <1>20 DEF Transfer!HwCommand, Transfer!Answers, Transfer!CardTakes
<1>21. CASE Transfer!HwNoResponse
  BY <1>21 DEF Transfer!HwNoResponse
<1>22. CASE Transfer!HwData
  BY <1>22 DEF Transfer!HwData
<1>23. CASE Transfer!HwDataError
  BY <1>23 DEF Transfer!HwDataError
<1>24. CASE Transfer!HwBusyEnd
  BY <1>24 DEF Transfer!HwBusyEnd
<1>25. CASE Transfer!CardProgrammed
  BY <1>25 DEF Transfer!CardProgrammed
<1>26. CASE UNCHANGED Transfer!vars
  BY <1>26 DEF Transfer!vars
<1> HIDE DEF TransferInv
<1>27. QED
  BY <1>1, <1>2, <1>3, <1>4, <1>5, <1>6, <1>7, <1>8, <1>9, <1>10, <1>11, <1>12, <1>13, <1>14,
         <1>15, <1>16, <1>17, <1>18, <1>19, <1>20, <1>21, <1>22, <1>23, <1>24, <1>25, <1>26
            DEF Transfer!Next, Transfer!Driver, Transfer!Hardware

\* The invariant holds in every state of a controller and a card that start at rest.
LEMMA TransferAlways == Transfer!Spec => []TransferInv
<1>1. Transfer!Init => TransferInv
  BY DEF Transfer!Init, TransferInv, TransferType, Placed, Quiet, Held, Settled, Moved,
         AllMoved,
         InXfer, InStop, InStatus, Quiescent, XferSteps, StopSteps, StatusSteps, Transfer!None
<1>2. QED
  BY <1>1, TransferStep, PTL DEF Transfer!Spec

-----------------------------------------------------------------------------
(* UsdhcTransfer: transfers of the uSDHC driver.                           *)

CONSTANTS MovMaxTransfers, MovMaxFaults

VARIABLES rpmb, want, n, movPc, result, issued, active, ended, card, partition, tc, movFaults

Moves == INSTANCE UsdhcTransfer

\* Types of the numbers of transfers and of failures.
MovesType == n \in Nat /\ movFaults \in Nat

\* The rpmb flag of the driver is set during the calls for the RPMB, and only then.
Flagged ==
    /\ rpmb => want
    /\ movPc = "idle" => ~rpmb
    /\ movPc # "idle" /\ want => rpmb
    /\ movPc \in {"access", "count", "restore"} => want

\* A transfer that ended was started; none is active when the next one is issued;
\* while nothing failed the card is back in its transfer state with the DMA at rest.
Dma ==
    /\ tc \subseteq ended
    /\ movPc = "issue" => active = {}
    /\ movPc = "complete" => active \cup tc \subseteq {n}
    /\ movFaults = 0 =>
          /\ movPc # "complete" => active = {} /\ card = "tran"
          /\ movPc = "complete" /\ tc # {} => card = "tran" /\ active = {}

\* Success is reported for a transfer that has ended.
Reported == result = "ok" => movPc \in {"idle", "restore"} /\ n \in ended

\* The partition that the card is switched to.
Partitioned ==
    /\ movPc = "access" => card = "tran"
    /\ want /\ movPc \in {"count", "clear", "inhibit", "issue"} => partition = "rpmb"
    /\ movFaults = 0 => /\ movPc \in {"idle", "wait"} => partition = "user"
                        /\ ~want => partition = "user"

\* The inductive invariant of the transfers of the uSDHC driver.
MovesInv == MovesType /\ Flagged /\ Dma /\ Reported /\ Partitioned

\* No step of a transfer leaves the invariant.
LEMMA MovesStep == MovesInv /\ [Moves!Next]_(Moves!vars) => MovesInv'
<1> SUFFICES ASSUME MovesInv, [Moves!Next]_(Moves!vars) PROVE MovesInv'
  OBVIOUS
<1> USE DEF MovesInv, MovesType, Flagged, Dma, Reported, Partitioned, Moves!hw, Moves!Return,
            Moves!Leave
<1>0. Moves!Fault => movFaults' \in Nat /\ movFaults' # 0
  BY DEF Moves!Fault
<1> USE <1>0
<1>1. ASSUME NEW access \in BOOLEAN, Moves!Begin(access)
      PROVE  MovesInv'
  BY <1>1 DEF Moves!Begin
<1>2. CASE Moves!WaitState
  BY <1>2 DEF Moves!WaitState
<1>3. CASE Moves!Access
  BY <1>3, Zenon DEF Moves!Access, Moves!Switches
<1>4. CASE Moves!SetBlockCount
  BY <1>4, Zenon DEF Moves!SetBlockCount
<1>5. CASE Moves!Clear
  BY <1>5 DEF Moves!Clear
<1>6. CASE Moves!Inhibit
  BY <1>6 DEF Moves!Inhibit
<1>7. CASE Moves!Issue
  BY <1>7 DEF Moves!Issue
<1>8. CASE Moves!Complete
  BY <1>8 DEF Moves!Complete
<1>9. CASE Moves!Timeout
  BY <1>9 DEF Moves!Timeout
<1>10. CASE Moves!Restore
  BY <1>10 DEF Moves!Restore, Moves!Switches
<1>11. CASE Moves!CardEnds
  BY <1>11 DEF Moves!CardEnds
<1>12. CASE Moves!DmaEnds
  BY <1>12 DEF Moves!DmaEnds
<1>13. CASE UNCHANGED Moves!vars
  BY <1>13 DEF Moves!vars
<1> HIDE DEF MovesInv
<1>14. QED
  BY <1>1, <1>2, <1>3, <1>4, <1>5, <1>6, <1>7, <1>8, <1>9, <1>10, <1>11, <1>12, <1>13
     DEF Moves!Next

\* The invariant holds in every state.
LEMMA MovesAlways == Moves!Spec => []MovesInv
<1>1. Moves!Init => MovesInv
  BY DEF Moves!Init, MovesInv, MovesType, Flagged, Dma, Reported, Partitioned
<1>2. QED
  BY <1>1, MovesStep, PTL DEF Moves!Spec

-----------------------------------------------------------------------------
(* SdhciCard: modes and cache of the eMMC card.                            *)

CONSTANTS SupportsHS, SupportsDDR, CacheSize

VARIABLES controllerReady, cardReady, info, host, emmc, cache, cardPc, promised, dropped

Card == INSTANCE SdhciCard

\* Fields of the settings of controller and card, states of the cache.
CardType ==
    /\ DOMAIN host = {"clk", "width", "mode"}
    /\ DOMAIN emmc = {"st", "width", "mode"}
    /\ host.clk \in Nat
    /\ cache \in {"off", "clean", "dirty"}

\* What Detect has reached at each of its steps.  The card is not in a high speed
\* mode between CMD0 and the switch to it, and the flags of the driver follow the card.
Detecting ==
    /\ cardPc \in Card!DetectStates => controllerReady /\ ~cardReady
    /\ cardPc \in {"CMD0", "CMD1", "CMD2", "CMD3", "CMD7", "width", "EXT_CSD"} => info = {}
    /\ cardPc \in {"CMD1", "CMD2", "CMD3", "CMD7", "width", "EXT_CSD"} => emmc.mode = {}
    /\ cardPc \in {"HS", "DDR"} =>
          Card!Agree /\ emmc.st = "tran" /\ \A m \in {"HS",
          "DDR"} : m \in info <=> m \in emmc.mode
    /\ cardPc = "verify" =>
          emmc.st = "tran" /\ "DDR" \in emmc.mode /\ ("HS" \in info <=> "HS" \in emmc.mode)

\* The driver knows whether the cache is on, and turns it off only once it is flushed.
Caching ==
    /\ cardPc \in {"flush", "cacheOn", "cacheOff"} => cardReady
    /\ cardReady \/ cardPc \in {"HS", "DDR", "verify"} =>
          ("CacheEnabled" \in info <=> cache # "off")
    /\ cardPc = "cacheOff" => cache # "dirty"

\* The inductive invariant of the modes and of the cache of the card.
CardInv == CardType /\ Detecting /\ Caching /\ Card!TimingAgree /\ Card!Durable

\* Whichever command the card takes, its cache is as before or, after CMD0, off.
LEMMA CardTook ==
    ASSUME CardType, NEW c, Card!CardTakes(c)
    PROVE  cache' \in {cache, "off"} /\ DOMAIN emmc' = {"st", "width", "mode"}
BY Zenon DEF Card!CardTakes, CardType, Card!ResetCard, Card!ResetCache

\* A step of another part of the system leaves the card and its driver as they were.
LEMMA CardStill == CardInv /\ UNCHANGED Card!vars => CardInv'
<1> SUFFICES ASSUME CardInv, UNCHANGED Card!vars PROVE CardInv'
  OBVIOUS
<1>1. /\ controllerReady' = controllerReady /\ cardReady' = cardReady /\ info' = info /\ host' = host
      /\ emmc' = emmc /\ cache' = cache /\ cardPc' = cardPc /\ promised' = promised /\ dropped' = dropped
  BY Zenon DEF Card!vars, Card!driver, Card!ghosts
<1>2. CardType'
  BY <1>1, Zenon DEF CardInv, CardType
<1>3. Card!Agree' <=> Card!Agree
  <2>1. host' = host /\ emmc' = emmc
    BY <1>1, Zenon
  <2>2. QED
    BY <2>1 DEF Card!Agree
<1>4. Detecting'
  BY <1>1, <1>3, Zenon DEF CardInv, Detecting
<1>5. Caching'
  BY <1>1, Zenon DEF CardInv, Caching
<1>6. Card!TimingAgree'
  BY <1>1, <1>3, Zenon DEF CardInv, Card!TimingAgree
<1>7. Card!Durable'
  BY <1>1, Zenon DEF CardInv, Card!Durable
<1>8. QED
  BY <1>2, <1>4, <1>5, <1>6, <1>7, Zenon DEF CardInv

\* No step of Init, Detect, Sync, EnableCache or a transfer leaves the invariant,
\* neither when its command fails nor when power is lost.
LEMMA CardStep == CardInv /\ [Card!Next]_(Card!vars) => CardInv'
<1> SUFFICES ASSUME CardInv, [Card!Next]_(Card!vars) PROVE CardInv'
  OBVIOUS
<1> USE DEF CardInv, CardType, Detecting, Caching, Card!TimingAgree, Card!Durable, Card!Agree,
            Card!DetectStates, Card!driver, Card!ghosts, Card!NoInfo, Card!ResetHost,
            Card!ResetCard, Card!ResetCache
<1>1. CASE Card!initController
  BY <1>1, SMTT(30) DEF Card!initController
<1>2. CASE Card!InitFails
  BY <1>2, SMTT(30) DEF Card!InitFails
<1>3. CASE Card!DetectUnready
  BY <1>3 DEF Card!DetectUnready
<1>4. CASE Card!Detect
  BY <1>4 DEF Card!Detect
<1>5. CASE Card!DetectFault
  <2>1. cache' \in {cache, "off"} /\ DOMAIN emmc' = {"st", "width", "mode"}
    BY <1>5, CardTook DEF Card!DetectFault
  <2>2. DOMAIN host' = {"clk", "width", "mode"} /\ host'.clk = host.clk
    BY <1>5 DEF Card!DetectFault, Card!HostChange
  <2>3. QED
    BY <1>5, <2>1, <2>2, SMTT(30) DEF Card!DetectFault, Card!DetectFails
<1>6. CASE Card!DetectRefused
  BY <1>6 DEF Card!DetectRefused, Card!DetectFails
<1>7. CASE Card!Identify
  BY <1>7 DEF Card!Identify, Card!CardTakes, Card!Expects
<1>8. CASE Card!BusWidth
  <2>1. emmc' = [emmc EXCEPT !.width = 8, !.mode = emmc.mode \ {"DDR"}] /\ cache' = cache
    BY <1>8 DEF Card!BusWidth, Card!CardTakes
  <2>2. host' = [host EXCEPT !.width = 8, !.clk = 25000]
    BY <1>8 DEF Card!BusWidth, Card!HostChange
  <2>3. QED
    BY <1>8, <2>1, <2>2 DEF Card!BusWidth
<1>9. CASE Card!detectCapabilitiesMMC
  <2>1. Card!Agree /\ emmc.st = "tran"
    BY <1>9 DEF Card!detectCapabilitiesMMC, Card!Expects
  <2>2. "HS" \notin info' /\ "DDR" \notin info' /\ ("CacheEnabled" \in info' <=> cache' # "off")
    BY <1>9 DEF Card!detectCapabilitiesMMC
  <2>3. host' = host /\ emmc' = emmc
        /\ cache' = cache /\ promised' = promised /\ dropped' = dropped
    BY <1>9 DEF Card!detectCapabilitiesMMC
  <2>4. CASE SupportsHS
    <3>1. cardPc' = "HS" /\ cardReady' = FALSE /\ controllerReady'
      BY <1>9, <2>4 DEF Card!detectCapabilitiesMMC
    <3>2. QED
      BY <1>9, <2>1, <2>2, <2>3, <3>1 DEF Card!detectCapabilitiesMMC
  <2>5. CASE ~SupportsHS
    <3>1. cardPc' = "idle" /\ cardReady' /\ controllerReady'
      BY <1>9, <2>5 DEF Card!detectCapabilitiesMMC, Card!DetectDone
    <3>2. QED
      BY <1>9, <2>1, <2>2, <2>3, <3>1, SMTT(30) DEF Card!detectCapabilitiesMMC
  <2>6. QED
    <3> HIDE DEF CardInv
    <3> QED
      BY <2>4, <2>5, Zenon
<1>10. CASE Card!enableHighSpeedMMC
  <2>1. emmc' = [emmc EXCEPT !.mode = emmc.mode \cup {"HS"}] /\ cache' = cache
    BY <1>10 DEF Card!enableHighSpeedMMC, Card!CardTakes
  <2>2. host' = [host EXCEPT !.mode = host.mode \cup {"HS"}, !.clk = 50000]
    BY <1>10 DEF Card!enableHighSpeedMMC, Card!HostChange
  <2>3. Card!Agree' /\ emmc'.st = "tran"
        /\ \A m \in {"HS", "DDR"} : m \in info' <=> m \in emmc'.mode
    <3>1. Card!Agree /\ emmc.st = "tran"
          /\ \A m \in {"HS", "DDR"} : m \in info <=> m \in emmc.mode
      BY <1>10 DEF Card!enableHighSpeedMMC
    <3>2. host'.width = host.width /\ host'.mode = host.mode \cup {"HS"}
      BY <2>2
    <3>3. emmc'.st = emmc.st /\ emmc'.width = emmc.width /\ emmc'.mode = emmc.mode \cup {"HS"}
      BY <2>1
    <3>4. info' = info \cup {"HS"}
      BY <1>10 DEF Card!enableHighSpeedMMC
    <3>5. Card!Agree'
      BY <3>1, <3>2, <3>3
    <3>6. QED
      BY <3>1, <3>3, <3>4, <3>5
  <2>4. CardType'
    BY <1>10, <2>1, <2>2
  <2>5. "CacheEnabled" \in info' <=> cache' # "off"
    BY <1>10, <2>1 DEF Card!enableHighSpeedMMC
  <2>6. CASE SupportsDDR
    <3>1. cardPc' = "DDR" /\ cardReady' = FALSE /\ controllerReady'
      BY <1>10, <2>6 DEF Card!enableHighSpeedMMC
    <3>2. QED
      BY <1>10, <2>1, <2>3, <2>4, <2>5, <3>1 DEF Card!enableHighSpeedMMC
  <2>7. CASE ~SupportsDDR
    <3>1. cardPc' = "idle" /\ cardReady' /\ controllerReady'
      BY <1>10, <2>7 DEF Card!enableHighSpeedMMC, Card!DetectDone
    <3>2. QED
      BY <1>10, <2>1, <2>3, <2>4, <2>5, <3>1 DEF Card!enableHighSpeedMMC
  <2>8. QED
    <3> HIDE DEF CardInv
    <3> QED
      BY <2>6, <2>7, Zenon
<1>11. CASE Card!enableDDRMMC
  <2>1. emmc' = [emmc EXCEPT !.width = 8, !.mode = emmc.mode \cup {"DDR"}] /\ cache' = cache
    BY <1>11 DEF Card!enableDDRMMC, Card!CardTakes
  <2>2. host' = [host EXCEPT !.mode = host.mode \cup {"DDR"}]
    BY <1>11 DEF Card!enableDDRMMC, Card!HostChange
  <2>3. QED
    BY <1>11, <2>1, <2>2 DEF Card!enableDDRMMC
<1>12. CASE Card!VerifyDDR
  BY <1>12 DEF Card!VerifyDDR, Card!DetectDone, Card!Expects
<1>13. CASE Card!WriteBlocks
  BY <1>13, SMTT(30) DEF Card!WriteBlocks, Card!Filled, Card!Flushed
<1>14. CASE Card!Sync
  BY <1>14, SMTT(30) DEF Card!Sync, Card!Filled, Card!Flushed
<1>15. CASE Card!FlushCache
  BY <1>15 DEF Card!FlushCache, Card!Filled, Card!Flushed
<1>16. CASE Card!CacheCtrl
  BY <1>16, SMTT(30) DEF Card!CacheCtrl, Card!Switched
<1>17. CASE Card!TransferFault
  BY <1>17, SMTT(30) DEF Card!TransferFault, Card!Filled, Card!Flushed, Card!invalidateTransfer
<1>18. CASE Card!CacheFault
  BY <1>18, SMTT(30) DEF Card!CacheFault, Card!Flushed, Card!Switched, Card!invalidateTransfer
<1>19. ASSUME NEW enable \in BOOLEAN, Card!EnableCache(enable)
      PROVE  CardInv'
  BY <1>19, SMTT(30) DEF Card!EnableCache
<1>20. CASE Card!PowerLoss
  BY <1>20, SMTT(30) DEF Card!PowerLoss
<1>21. CASE UNCHANGED Card!vars
  <2> HIDE DEF CardInv
  <2> QED
    BY <1>21, CardStill, Zenon
<1> HIDE DEF CardInv
<1>22. QED
  BY <1>1, <1>2, <1>3, <1>4, <1>5, <1>6, <1>7, <1>8, <1>9, <1>10, <1>11, <1>12,
     <1>13, <1>14, <1>15, <1>16, <1>17, <1>18, <1>19, <1>20, <1>21 DEF Card!Next

\* The invariant holds in every state.
LEMMA CardAlways == Card!Spec => []CardInv
<1>1. Card!Init => CardInv
  BY DEF Card!Init, CardInv, CardType, Detecting, Caching, Card!TimingAgree, Card!Durable,
         Card!Agree,
         Card!DetectStates, Card!NoInfo, Card!ResetHost, Card!ResetCard, Card!ResetCache
<1>2. QED
  BY <1>1, CardStep, PTL DEF Card!Spec

-----------------------------------------------------------------------------
(* SdhciBlocks: the commands of a request.                                 *)

\* The inductive invariant of the splitting of requests.
BlocksInv == TypeOK /\ Covered /\ EndsOnBoundary

\* limit is a multiple of the boundary, at least one boundary if the region
\* holds one, and no more than the region.
LEMMA LimitFacts ==
    ASSUME writeAlignment <= maxBlocks
    PROVE  /\ limit \in Nat /\ limit <= maxBlocks /\ limit >= writeAlignment
           /\ \E k \in Int : limit = writeAlignment * k
<1>1. /\ maxBlocks \in Int /\ maxBlocks \in Nat
      /\ writeAlignment \in Nat \ {0}
  BY BlocksAssumption
<1>2. PICK x \in Int, t \in 0 .. writeAlignment - 1 :
        maxBlocks = writeAlignment * x + t /\ maxBlocks % writeAlignment = t
  BY <1>1, DivModPick, Zenon
<1>3. PICK p \in Int : p = writeAlignment * x
  BY <1>1
<1>4. limit = p
  BY <1>1, <1>2, <1>3 DEF limit
<1>5. x >= 1
  <2>1. ASSUME x <= 0 PROVE FALSE
    <3>1. writeAlignment * x <= 0
      BY <1>1, <2>1
    <3>2. QED BY <1>1, <1>2, <3>1
  <2>2. QED BY <2>1
<1>6. p >= writeAlignment
  BY <1>1, <1>3, <1>5
<1>7. QED BY <1>1, <1>2, <1>3, <1>4, <1>6

\* A command has at least one block, no more than are left and no more than
\* the region holds.
LEMMA ChunkBounds ==
    ASSUME TypeOK, left > 0
    PROVE  chunk \in Nat /\ chunk >= 1 /\ chunk <= left /\ chunk <= maxBlocks
<1>1. /\ maxBlocks \in Nat /\ maxBlocks >= 1 /\ left \in Nat /\ lba \in Int
      /\ writeAlignment \in Nat \ {0}
  BY BlocksAssumption DEF TypeOK
<1>2. CASE dtd = "write" /\ writeAlignment <= maxBlocks
  <2>1. limit \in Nat /\ limit <= maxBlocks /\ limit >= writeAlignment
    BY <1>2, LimitFacts
  <2>2. lba % writeAlignment \in 0 .. writeAlignment - 1
    BY <1>1, DivMod
  <2>3. PICK r \in 0 .. writeAlignment - 1 : r = lba % writeAlignment
    BY <2>2
  <2>4. chunk = Lesser(left, limit - r)
    BY <1>2, <2>3 DEF chunk
  <2>5. QED BY <1>1, <2>1, <2>4 DEF Lesser
<1>3. CASE ~(dtd = "write" /\ writeAlignment <= maxBlocks)
  <2>1. chunk = Lesser(left, maxBlocks)
    BY <1>3 DEF chunk
  <2>2. QED BY <1>1, <2>1 DEF Lesser
<1>4. QED BY <1>2, <1>3

\* A write command that is not the last one ends on a boundary.
LEMMA ChunkBoundary ==
    ASSUME TypeOK, left > 0, dtd = "write", writeAlignment <= maxBlocks, chunk < left
    PROVE  (lba + chunk) % writeAlignment = 0
<1>1. /\ left \in Nat /\ lba \in Int /\ writeAlignment \in Nat \ {0}
  BY BlocksAssumption DEF TypeOK
<1>2. PICK k \in Int : limit = writeAlignment * k
  BY LimitFacts
<1>3. PICK x \in Int, t \in 0 .. writeAlignment - 1 :
        lba = writeAlignment * x + t /\ lba % writeAlignment = t
  BY <1>1, DivModPick, Zenon
<1>4. limit \in Int
  BY LimitFacts
<1>5. chunk = limit - t
  <2>1. chunk = Lesser(left, limit - t)
    BY <1>3 DEF chunk
  <2>2. QED BY <1>1, <1>4, <2>1 DEF Lesser
<1>6. PICK p \in Int : p = writeAlignment * x
  BY <1>1
<1>7. lba + chunk = p + limit
  BY <1>1, <1>3, <1>4, <1>5, <1>6
<1>8. PICK q \in Int : q = x + k
  OBVIOUS
<1>9. p + limit = writeAlignment * q
  BY <1>1, <1>2, <1>6, <1>8
<1>10. (0 + writeAlignment * q) % writeAlignment = 0 % writeAlignment
  <2>1. 0 \in Int
    OBVIOUS
  <2>2. QED BY <1>1, <2>1, ModShift, Zenon
<1>11. 0 % writeAlignment = 0
  BY <1>1
<1>12. PICK w \in Int : w = writeAlignment * q
  BY <1>1
<1>13. 0 + w = w /\ lba + chunk = w
  BY <1>7, <1>9, <1>12
<1>14. QED BY <1>10, <1>11, <1>12, <1>13

\* The invariant holds before the first request.
LEMMA BlocksInit == Init => BlocksInv
BY BlocksAssumption DEF Init, BlocksInv, TypeOK, Covered, EndsOnBoundary

\* Every step keeps it.
LEMMA BlocksStep == BlocksInv /\ [Next]_vars => BlocksInv'
<1> SUFFICES ASSUME BlocksInv, [Next]_vars PROVE BlocksInv'
  OBVIOUS
<1>1. ASSUME NEW d \in {"read", "write"}, NEW from \in 0 .. Blocks, NEW k \in 0 .. MaxRequest,
             TransferBlocks(d, from, k)
      PROVE  BlocksInv'
  BY <1>1, BlocksAssumption
     DEF TransferBlocks, validateTransfer, BlocksInv, TypeOK, Covered, EndsOnBoundary
<1>2. CASE TransferDMA
  <2>1. TypeOK /\ left > 0
    BY <1>2 DEF TransferDMA, BlocksInv
  <2>2. chunk \in Nat /\ chunk >= 1 /\ chunk <= left /\ chunk <= maxBlocks
    BY <2>1, ChunkBounds
  <2>3. /\ last' = chunk /\ left' = left - chunk /\ lba' = lba + chunk
        /\ UNCHANGED <<dtd, start, total, reqPc>>
    BY <1>2 DEF TransferDMA
  <2>4. TypeOK'
    BY <2>1, <2>2, <2>3 DEF TypeOK
  <2>5. Covered'
    BY <2>1, <2>2, <2>3, BlocksAssumption DEF BlocksInv, Covered, TypeOK
  <2>6. EndsOnBoundary'
    <3> SUFFICES ASSUME dtd = "write", writeAlignment <= maxBlocks, chunk < left
                 PROVE  (lba + chunk) % writeAlignment = 0
      BY <2>1, <2>2, <2>3 DEF EndsOnBoundary, TypeOK
    <3>1. QED BY <2>1, ChunkBoundary
  <2>7. QED BY <2>4, <2>5, <2>6 DEF BlocksInv
<1>3. CASE Done
  BY <1>3 DEF Done, BlocksInv, TypeOK, Covered, EndsOnBoundary
<1>4. CASE UNCHANGED vars
  BY <1>4 DEF vars, BlocksInv, TypeOK, Covered, EndsOnBoundary
<1>5. QED BY <1>1, <1>2, <1>3, <1>4 DEF Next

\* The commands cover the request, in order, within the card and the region.
THEOREM RequestCovered == Spec => []Covered
<1>1. BlocksInv => Covered
  BY DEF BlocksInv
<1>2. QED BY <1>1, BlocksInit, BlocksStep, PTL DEF Spec

\* Every write command but the last of a request ends on a boundary.
THEOREM WritesEndOnBoundary == Spec => []EndsOnBoundary
<1>1. BlocksInv => EndsOnBoundary
  BY DEF BlocksInv
<1>2. QED BY <1>1, BlocksInit, BlocksStep, PTL DEF Spec

-----------------------------------------------------------------------------
(* What the drivers promise together.                                      *)

\* Whichever step of a transfer fails, a DMA buffer goes back to the region only when
\* the controller no longer uses it, and a call that leaves the controller ready has
\* brought controller and card back to where the next transfer can start.
ReadyClean == Transfer!DmaQuiet /\ Transfer!ReadyClean

\* ReadyClean of transferBlocks with its recovery: no buffer is released under a
\* running DMA, and a controller that stays ready is at rest, as is its card.
THEOREM ReadyStaysClean == Transfer!Spec => []ReadyClean
<1>1. TransferInv => ReadyClean
  BY DEF TransferInv, Placed, Quiet, Held, Settled, Transfer!DmaQuiet, Transfer!ReadyClean,
         ReadyClean,
         InXfer, InStop, InStatus, Quiescent
<1>2. QED
  BY <1>1, TransferAlways, PTL

\* A call that returns no error has moved its own data, all of it, and the card
\* has finished programming.
OkMeansDone == Transfer!OkMeansDone /\ Moves!OwnCompletion

\* OkMeansDone of both drivers: a call that returns no error has moved all of its
\* own data, whatever was left behind by calls that failed.
THEOREM SuccessMeansDone == Transfer!Spec /\ Moves!Spec => []OkMeansDone
<1>1. TransferInv /\ MovesInv => OkMeansDone
  BY DEF OkMeansDone, TransferInv, AllMoved, Transfer!OkMeansDone, MovesInv, Reported,
         Moves!OwnCompletion
<1>2. QED
  BY <1>1, TransferAlways, MovesAlways, PTL

\* While the driver is ready the controller and the card use the same bus mode,
\* whichever mode switch failed before; UHS rates are only used once both are at
\* 1.8 V.  What a caller may rely on is not in the volatile cache of the card when
\* power is lost.
CardAgrees == Card!TimingAgree /\ Card!Durable /\ Detection!UhsAtLowVoltage

\* CardAgrees: the bus modes agree, the cache holds nothing that was promised, and UHS
\* rates go with 1.8 V on both sides.
THEOREM ModesAgree == Card!Spec /\ Detection!Spec => []CardAgrees
<1>1. CardInv => Card!TimingAgree /\ Card!Durable
  BY DEF CardInv
<1>2. DetInv => Detection!UhsAtLowVoltage
  BY Zenon DEF DetInv, Kind, AtVoltage, Detection!UhsAtLowVoltage
<1>3. CardInv /\ DetInv => CardAgrees
  BY <1>1, <1>2 DEF CardAgrees
<1>4. QED
  BY <1>3, CardAlways, DetAlways, PTL

\* A Detect that runs to its end reports success only for a card that can be
\* used, whichever command failed.  Frames for the RPMB go there and, while nothing
\* has failed, nothing else does.
FreshTruth == Detection!FreshTruth /\ Moves!RightPartition

\* FreshTruth: Detect that ran to its end reports only cards that can be used, and
\* frames for the RPMB go there.
THEOREM DetectedIsUsable == Detection!Spec /\ Moves!Spec => []FreshTruth
<1>1. DetInv => Detection!FreshTruth
  BY DEF DetInv
<1>2. MovesInv => Moves!RightPartition
  BY DEF MovesInv, Partitioned, Moves!RightPartition
<1>3. DetInv /\ MovesInv => FreshTruth
  BY <1>1, <1>2 DEF FreshTruth
<1>4. QED
  BY <1>3, DetAlways, MovesAlways, PTL

=============================================================================
