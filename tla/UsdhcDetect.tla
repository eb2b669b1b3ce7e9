----------------------------- MODULE UsdhcDetect -----------------------------
(***************************************************************************)
(* Detection of SD and eMMC cards by the NXP uSDHC driver.  Detect sends a *)
(* sequence of commands; each can fail before or after the card has acted, *)
(* and the card can be exchanged at any time.  A card that is exchanged    *)
(* sets the CRM status bit, which every command clears.                    *)
(***************************************************************************)
EXTENDS Naturals

CONSTANTS
    LowVoltage,     \* the board defines LowVoltage
    Width,          \* bus width of the controller
    Slots,          \* cards that can be inserted
    DetMaxFaults,   \* bound: commands that fail
    MaxSwaps        \* bound: exchanges of the card

VARIABLES
    slot, cst,      \* the card and its state
    crm,            \* card removal bit of INT_STATUS
    detInfo,        \* hw.card: its flags that are set, its rate and block size
    detHost,        \* clock and I/O voltage of the controller
    detPc,          \* next step of Detect
    ret, full,      \* result of the last Detect, and whether it ran to its end
    same,           \* the card was not exchanged since
    detFaults, swaps

vars == <<slot, cst, crm, detInfo, detHost, detPc, ret, full, same, detFaults, swaps>>
result == <<ret, full, same>>

NoInfo == [flags |-> {}, Rate |-> "none", BlockSize |-> 0]
PowerUp == [st |-> "idle", width |-> 1, mode |-> "none", data |-> "sdr", io |-> "3.3V"]
ResetHost == [clk |-> "id", io |-> "3.3V"]

setFreq(clk) == [detHost EXCEPT !.clk = clk]

Init ==
    /\ slot \in Slots /\ cst = PowerUp /\ crm = FALSE
    /\ detInfo = NoInfo /\ detHost = ResetHost
    /\ detPc = "idle" /\ ret = "none" /\ full = FALSE /\ same = FALSE
    /\ detFaults = 0 /\ swaps = 0

-----------------------------------------------------------------------------

Fail ==
    /\ ret' = "error" /\ full' = TRUE /\ same' = TRUE
    /\ detPc' = "idle"

\* a command of this step fails, with the card as it was or as it would be
Fault(after) ==
    /\ detFaults < DetMaxFaults /\ detFaults' = detFaults + 1
    /\ cst' \in {cst, after}
    /\ crm' = FALSE

\* the card takes the commands of this step
Takes(after) ==
    /\ cst' = after /\ crm' = FALSE
    /\ UNCHANGED detFaults

\* the card is not there, or not in the state the step expects
Refuse ==
    /\ crm' = FALSE
    /\ Fail
    /\ UNCHANGED <<slot, cst, detInfo, detHost, detFaults, swaps>>

Detected == detInfo.flags \cap {"MMC", "SD"} # {}

\* no card was detected, or it was removed: reset the controller, then CMD0,
\* which does not reset the voltage of an SD card
DetectAgain ==
    /\ detPc = "idle"
    /\ crm \/ ~Detected
    /\ detInfo' = NoInfo /\ detHost' = ResetHost
    /\ cst' = [PowerUp EXCEPT !.io = cst.io] /\ crm' = FALSE
    /\ detPc' = "voltageSD"
    /\ UNCHANGED <<slot, result, detFaults, swaps>>

\* "check if a card has already been detected and not removed since"
DetectShort ==
    /\ detPc = "idle"
    /\ ~crm /\ Detected
    /\ ret' = "nil" /\ full' = FALSE /\ same' = TRUE
    /\ UNCHANGED <<slot, cst, crm, detInfo, detHost, detPc, detFaults, swaps>>

-----------------------------------------------------------------------------
(* SD cards.                                                               *)

IsSD == slot \in {"SDSC", "SDHC"}

\* What voltageValidationSD learns: a card that answers CMD8 is taken for a high
\* capacity card, 1.8 V is accepted by UHS cards.
SDInfo == [detInfo EXCEPT !.flags = @ \cup {"SD", "HC"},
                       !.Rate = IF slot = "SDHC" THEN "SDR50" ELSE "HS"]

\* an SD card at 3.3 V that was not exchanged
voltageValidationSD ==
    /\ detPc = "voltageSD"
    /\ detHost' = [detHost EXCEPT !.io = "3.3V"]
    /\ \/ /\ IsSD /\ cst.st = "idle" /\ cst.io = "3.3V"
          /\ Takes([cst EXCEPT !.st = "ready"])
          /\ detInfo' = SDInfo
          /\ detPc' = "voltageSwitchSD"
       \/ /\ IsSD
          /\ Fault([cst EXCEPT !.st = "ready"])
          /\ detInfo' \in {detInfo, [detInfo EXCEPT !.flags = @ \cup {"HC"}]}
          /\ detPc' = "voltageMMC"
       \/ /\ ~IsSD \/ cst.st # "idle" \/ cst.io # "3.3V"
          /\ Takes(cst)
          /\ detPc' = "voltageMMC"
          /\ UNCHANGED detInfo
    /\ UNCHANGED <<slot, result, swaps>>

\* mutant: the rate is kept when the voltage is not switched
voltageSwitchKeep ==
    /\ detPc = "voltageSwitchSD"
    /\ \/ /\ LowVoltage /\ detInfo.Rate = "SDR50" /\ cst.st = "ready"
          /\ Takes([cst EXCEPT !.io = "1.8V"])
          /\ detHost' = [clk |-> "op", io |-> "1.8V"]
          /\ UNCHANGED detInfo
       \/ /\ LowVoltage /\ detInfo.Rate = "SDR50"
          /\ Fault([cst EXCEPT !.io = IF cst.st = "ready" THEN "1.8V" ELSE @])
          /\ detHost' \in {detHost, [detHost EXCEPT !.io = "1.8V"]}
          /\ UNCHANGED detInfo
       \/ /\ ~LowVoltage \/ detInfo.Rate # "SDR50" \/ cst.st # "ready"
          /\ detInfo' = [detInfo EXCEPT !.Rate = "HS"]
          /\ UNCHANGED <<cst, crm, detHost, detFaults>>
    /\ detPc' = "selectSD"
    /\ UNCHANGED <<slot, result, swaps>>

\* Without LowVoltage, or if the switch to 1.8 V fails, the rate is the one of
\* cards at 3.3 V; what was switched stays switched.
voltageSwitchSD ==
    /\ detPc = "voltageSwitchSD"
    /\ \/ /\ LowVoltage /\ detInfo.Rate = "SDR50" /\ cst.st = "ready"
          /\ Takes([cst EXCEPT !.io = "1.8V"])
          /\ detHost' = [clk |-> "op", io |-> "1.8V"]
          /\ UNCHANGED detInfo
       \/ /\ LowVoltage /\ detInfo.Rate = "SDR50"
          /\ Fault([cst EXCEPT !.io = IF cst.st = "ready" THEN "1.8V" ELSE @])
          /\ detHost' \in {detHost, [detHost EXCEPT !.io = "1.8V"]}
          /\ detInfo' = [detInfo EXCEPT !.Rate = "HS"]
       \/ /\ ~LowVoltage \/ detInfo.Rate # "SDR50" \/ cst.st # "ready"
          /\ detInfo' = [detInfo EXCEPT !.Rate = "HS"]
          /\ UNCHANGED <<cst, crm, detHost, detFaults>>
    /\ detPc' = "selectSD"
    /\ UNCHANGED <<slot, result, swaps>>

\* the card understands commands at the voltage of the controller
Hears == slot # "none" /\ cst.io = detHost.io

\* CMD2, CMD3, detectCapabilitiesSD, CMD7
selectSD ==
    /\ detPc = "selectSD"
    /\ \/ /\ Hears /\ cst.st = "ready"
          /\ Takes([cst EXCEPT !.st = "tran"])
          /\ detInfo' = [detInfo EXCEPT !.BlockSize = 512]
          /\ detHost' = setFreq("op")
          /\ detPc' = "widthSD"
          /\ UNCHANGED <<slot, result, swaps>>
       \/ /\ Fault([cst EXCEPT !.st = IF @ = "ready" THEN "tran" ELSE @])
          /\ detInfo' \in {detInfo, [detInfo EXCEPT !.BlockSize = 512]}
          /\ Fail
          /\ UNCHANGED <<slot, detHost, swaps>>
       \/ ~(Hears /\ cst.st = "ready") /\ Refuse

\* CMD55 and ACMD6
widthSD ==
    /\ detPc = "widthSD"
    /\ \/ /\ Hears /\ cst.st = "tran" /\ Width \in {1, 4}
          /\ Takes([cst EXCEPT !.width = Width])
          /\ detPc' = "modeSD"
          /\ UNCHANGED <<slot, detInfo, detHost, result, swaps>>
       \/ /\ Fault([cst EXCEPT !.width = IF cst.st = "tran" THEN Width ELSE 1])
          /\ Fail
          /\ UNCHANGED <<slot, detInfo, detHost, swaps>>
       \/ ~(Hears /\ cst.st = "tran" /\ Width \in {1, 4}) /\ Refuse

\* the SDR104 check and the switch of power limit and access mode
modeSD ==
    /\ detPc = "modeSD"
    /\ \E rate \in IF detInfo.Rate = "HS" THEN {"HS"} ELSE {"SDR50", "SDR104"} :
          /\ detInfo' = [detInfo EXCEPT !.Rate = rate]
          /\ \/ /\ Hears /\ cst.st = "tran"
                /\ Takes([cst EXCEPT !.mode = rate])
                /\ detPc' = "clockSD"
                /\ UNCHANGED result
             \/ /\ Fault([cst EXCEPT !.mode = IF cst.st = "tran" THEN rate ELSE @])
                /\ Fail
             \/ /\ ~(Hears /\ cst.st = "tran")
                /\ crm' = FALSE
                /\ Fail
                /\ UNCHANGED <<cst, detFaults>>
    /\ UNCHANGED <<slot, detHost, swaps>>

\* executeTuning fails, whatever the responses to its commands were
TuningFails == detInfo.Rate # "HS" /\ Fault(cst) /\ Fail

\* the clock and, at 1.8 V, the tuning
clockSD ==
    /\ detPc = "clockSD"
    /\ detHost' = setFreq(detInfo.Rate)
    /\ detInfo' = [detInfo EXCEPT !.flags = @ \cup {"HS"}]
    /\ \/ detPc' = "blocklen" /\ UNCHANGED <<cst, crm, result, detFaults>>
       \/ TuningFails
    /\ UNCHANGED <<slot, swaps>>

-----------------------------------------------------------------------------
(* eMMC cards.                                                             *)

voltageValidationMMC ==
    /\ detPc = "voltageMMC"
    /\ \/ /\ slot = "MMC" /\ cst.st = "idle"
          /\ Takes([cst EXCEPT !.st = "ready"])
          /\ detInfo' = [detInfo EXCEPT !.flags = @ \cup {"HC", "MMC"}]
          /\ detPc' = "selectMMC"
          /\ UNCHANGED <<slot, detHost, result, swaps>>
       \/ /\ slot = "MMC"
          /\ Fault([cst EXCEPT !.st = "ready"])
          /\ Fail
          /\ UNCHANGED <<slot, detInfo, detHost, swaps>>
       \/ ~(slot = "MMC" /\ cst.st = "idle") /\ Refuse

\* CMD2, CMD3, CMD9, CMD7 at the operating clock
selectMMC ==
    /\ detPc = "selectMMC"
    /\ \/ /\ cst.st = "ready"
          /\ Takes([cst EXCEPT !.st = "tran"])
          /\ detHost' = setFreq("op")
          /\ detPc' = "widthMMC"
          /\ UNCHANGED <<slot, detInfo, result, swaps>>
       \/ /\ Fault([cst EXCEPT !.st = IF @ = "ready" THEN "tran" ELSE @])
          /\ Fail
          /\ UNCHANGED <<slot, detInfo, detHost, swaps>>
       \/ cst.st # "ready" /\ Refuse

widthMMC ==
    /\ detPc = "widthMMC"
    /\ \/ /\ cst.st = "tran" /\ Width \in {4, 8}
          /\ Takes([cst EXCEPT !.width = Width])
          /\ detPc' = "capabilitiesMMC"
          /\ UNCHANGED <<slot, detInfo, detHost, result, swaps>>
       \/ /\ Fault([cst EXCEPT !.width = IF cst.st = "tran" THEN Width ELSE 1])
          /\ Fail
          /\ UNCHANGED <<slot, detInfo, detHost, swaps>>
       \/ ~(cst.st = "tran" /\ Width \in {4, 8}) /\ Refuse

\* detectCapabilitiesMMC: HS200 if the board says that I/O is at 1.8 V
Rates == {"HSDDR", "HSSDR"} \cup (IF LowVoltage THEN {"HS200"} ELSE {})

\* EXT_CSD; cards before version 4 and slow ones stay in the mode they are in
capabilitiesMMC ==
    /\ detPc = "capabilitiesMMC"
    /\ \/ /\ cst.st = "tran"
          /\ Takes(cst)
          /\ \E rate \in Rates :
                /\ detInfo' = [detInfo EXCEPT !.Rate = rate, !.BlockSize = 512]
                /\ detPc' \in IF rate = "HSSDR" THEN {"blocklen"} ELSE {"timingMMC", "blocklen"}
          /\ UNCHANGED <<slot, detHost, result, swaps>>
       \/ Fault(cst) /\ Fail /\ UNCHANGED <<slot, detInfo, detHost, swaps>>
       \/ cst.st # "tran" /\ Refuse

\* HS_TIMING
timingMMC ==
    /\ detPc = "timingMMC"
    /\ \/ /\ cst.st = "tran"
          /\ Takes([cst EXCEPT !.mode = detInfo.Rate])
          /\ detPc' = "ddrMMC"
          /\ UNCHANGED <<slot, detInfo, detHost, result, swaps>>
       \/ /\ Fault([cst EXCEPT !.mode = IF cst.st = "tran" THEN detInfo.Rate ELSE @])
          /\ Fail
          /\ UNCHANGED <<slot, detInfo, detHost, swaps>>
       \/ cst.st # "tran" /\ Refuse

DataRate == IF detInfo.Rate = "HSDDR" THEN "ddr" ELSE "sdr"

\* mutant: the driver does not record the data rate
ddrMMCUnrecorded ==
    /\ detPc = "ddrMMC"
    /\ cst.st = "tran"
    /\ Takes([cst EXCEPT !.data = DataRate])
    /\ detHost' = setFreq(detInfo.Rate)
    /\ detInfo' = [detInfo EXCEPT !.flags = @ \cup {"HS"}]
    /\ detPc' = "blocklen"
    /\ UNCHANGED <<slot, result, swaps>>

\* BUS_WIDTH again, with the data rate, then the clock
ddrMMC ==
    /\ detPc = "ddrMMC"
    /\ \/ /\ cst.st = "tran"
          /\ Takes([cst EXCEPT !.data = DataRate])
          /\ detHost' = setFreq(detInfo.Rate)
          /\ detInfo' = [detInfo EXCEPT !.flags = @ \cup {"HS"} \cup (IF detInfo.Rate = "HSDDR" THEN {"DDR"} ELSE {})]
          /\ detPc' = "blocklen"
          /\ UNCHANGED <<slot, result, swaps>>
       \/ /\ Fault([cst EXCEPT !.data = IF cst.st = "tran" THEN DataRate ELSE @])
          /\ Fail
          /\ UNCHANGED <<slot, detInfo, detHost, swaps>>
       \/ cst.st # "tran" /\ Refuse

-----------------------------------------------------------------------------

DDR == "DDR" \in detInfo.flags

\* CMD16 at single data rate
Finish ==
    /\ detPc = "blocklen"
    /\ \/ /\ DDR \/ (Hears /\ cst.st = "tran")
          /\ ret' = "nil" /\ full' = TRUE /\ same' = IF cst.st = "tran" THEN TRUE ELSE FALSE
          /\ detPc' = "idle"
          /\ crm' = IF DDR THEN crm ELSE FALSE
          /\ UNCHANGED <<slot, cst, detInfo, detHost, detFaults, swaps>>
       \/ ~DDR /\ Fault(cst) /\ Fail /\ UNCHANGED <<slot, detInfo, detHost, swaps>>
       \/ ~DDR /\ ~(Hears /\ cst.st = "tran") /\ Refuse

\* another operation sends commands, whether the card is there or not
Use ==
    /\ detPc = "idle" /\ detInfo.BlockSize # 0
    /\ crm' = FALSE
    /\ UNCHANGED <<slot, cst, detInfo, detHost, detPc, result, detFaults, swaps>>

Swap ==
    /\ swaps < MaxSwaps /\ swaps' = swaps + 1
    /\ slot' \in Slots /\ cst' = PowerUp /\ crm' = TRUE /\ same' = FALSE
    /\ UNCHANGED <<detInfo, detHost, detPc, ret, full, detFaults>>

Next ==
    \/ DetectAgain \/ DetectShort
    \/ voltageValidationSD \/ voltageSwitchSD \/ selectSD \/ widthSD \/ modeSD \/ clockSD
    \/ voltageValidationMMC \/ selectMMC \/ widthMMC \/ capabilitiesMMC \/ timingMMC \/ ddrMMC
    \/ Finish \/ Use \/ Swap

Spec == Init /\ [][Next]_vars

-----------------------------------------------------------------------------

\* The card can be used: it is selected, and both sides agree on width, data
\* rate, voltage and speed.
Usable ==
    /\ cst.st = "tran" /\ cst.width = Width /\ (cst.data = "ddr" <=> DDR) /\ cst.io = detHost.io
    /\ detHost.clk \in {"op", cst.mode}
    /\ ("SD" \in detInfo.flags <=> IsSD) /\ ("MMC" \in detInfo.flags <=> slot = "MMC")
    /\ detInfo.BlockSize # 0

\* A Detect that runs to its end reports success only for a card that can be
\* used.
FreshTruth == ret = "nil" /\ full /\ same /\ detPc = "idle" => Usable

\* "speed modes SDR50/SDR104 require the target board to switch SD I/O signaling
\* to 1.8V": no card is run at these rates if one of the steps of the switch
\* failed.
UhsAtLowVoltage ==
    detPc \in {"modeSD", "clockSD"} /\ cst.st = "tran" /\ detInfo.Rate \in {"SDR50", "SDR104"} =>
        LowVoltage /\ detHost.io = "1.8V" /\ cst.io = "1.8V"

\* "Detect initializes an SD/MMC card", "check if a card has already been detected
\* and not removed since": success is for a card that can be used.
DetectTruth == ret = "nil" /\ same /\ detPc = "idle" => Usable

=============================================================================
