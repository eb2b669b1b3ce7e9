----------------------------- MODULE SdhciCard -----------------------------
(***************************************************************************)
(* Initialisation of the Microchip SDHCI controller and of its eMMC card,  *)
(* and the card's volatile cache.  Every command to the card can fail      *)
(* before or after the card has acted on it.  The controller and the card  *)
(* keep their own bus settings, which must agree when data is transferred. *)
(* A data transfer is one step here (SdhciTransfer has its steps).         *)
(***************************************************************************)
EXTENDS Naturals

CONSTANTS
    SupportsHS,     \* DEVICE_TYPE_HS52 and CAPR_HSSUP
    SupportsDDR,    \* DEVICE_TYPE_HS_DDR52 and CA1R_DDR50SUP
    CacheSize       \* EXT_CSD_CACHE_SIZE

VARIABLES
    controllerReady, cardReady,
    info,           \* the flags of the driver's CardInfo that are set
    host,           \* bus settings of the controller
    emmc,           \* state and bus settings of the card
    cache,          \* the card's cache: off, or on with or without data
    cardPc,         \* next command of the call in progress
    promised,       \* what was written is to survive a loss of power
    dropped         \* data was in the cache when it was turned off

driver == <<controllerReady, cardReady, info>>
ghosts == <<promised, dropped>>
vars == <<driver, host, emmc, cache, cardPc, ghosts>>

NoInfo == {}
ResetHost == [clk |-> 400, width |-> 1, mode |-> {}]
ResetCard == [st |-> "idle", width |-> 1, mode |-> {}]
ResetCache == "off"

Init ==
    /\ controllerReady = FALSE /\ cardReady = FALSE /\ info = NoInfo
    /\ host = ResetHost /\ emmc = ResetCard /\ cache = ResetCache
    /\ cardPc = "idle"
    /\ promised = FALSE /\ dropped = FALSE

\* The two sides of the bus use the same width and edges, and the card takes
\* the clock.
Agree ==
    /\ host.width = emmc.width /\ ("DDR" \in host.mode <=> "DDR" \in emmc.mode)
    /\ host.clk > 25000 => "HS" \in emmc.mode

-----------------------------------------------------------------------------
(* Init: the registers of the controller are reset, the card is not.       *)

initController ==
    /\ cardPc = "idle"
    /\ host' = ResetHost
    /\ controllerReady' = TRUE /\ cardReady' = FALSE /\ info' = NoInfo
    /\ UNCHANGED <<emmc, cache, cardPc, ghosts>>

\* invalid configuration, no ADMA2, a busy controller, a reset or a clock that
\* does not complete
InitFails ==
    /\ cardPc = "idle"
    /\ host' \in {host, ResetHost}
    /\ controllerReady' = FALSE /\ cardReady' = FALSE /\ info' = NoInfo
    /\ UNCHANGED <<emmc, cache, cardPc, ghosts>>

-----------------------------------------------------------------------------
(* Detect.                                                                 *)

\* Detect of a controller that is not initialised only resets the driver
DetectUnready ==
    /\ cardPc = "idle" /\ ~controllerReady
    /\ cardReady' = FALSE /\ info' = NoInfo
    /\ UNCHANGED <<controllerReady, host, emmc, cache, cardPc, ghosts>>

\* mutant: the driver is not marked as not ready
DetectStillReady ==
    /\ cardPc = "idle" /\ controllerReady
    /\ info' = NoInfo /\ cardPc' = "CMD0"
    /\ UNCHANGED <<controllerReady, cardReady, host, emmc, cache, promised, dropped>>

Detect ==
    /\ cardPc = "idle" /\ controllerReady
    /\ cardReady' = FALSE /\ info' = NoInfo /\ cardPc' = "CMD0"
    /\ UNCHANGED <<controllerReady, host, emmc, cache, promised, dropped>>

DetectStates == {"CMD0", "CMD1", "CMD2", "CMD3", "CMD7", "width", "EXT_CSD",
                 "HS", "DDR", "verify"}

\* the deferred function of Detect, on an error
DetectFails ==
    /\ controllerReady' = FALSE /\ info' = NoInfo /\ cardPc' = "idle"
    /\ UNCHANGED <<cardReady, promised, dropped>>

\* and without one
DetectDone ==
    /\ cardReady' = TRUE /\ cardPc' = "idle" /\ UNCHANGED controllerReady

\* What the card does with a command: CMD0 resets it, its cache included; the
\* others are taken in the state they are for.
CardTakes(c) ==
    CASE c = "CMD0" -> emmc' = ResetCard /\ cache' = ResetCache
      [] c = "CMD1" -> emmc' = [emmc EXCEPT !.st = "ready"] /\ UNCHANGED cache
      [] c = "CMD2" -> emmc' = [emmc EXCEPT !.st = "ident"] /\ UNCHANGED cache
      [] c = "CMD3" -> emmc' = [emmc EXCEPT !.st = "stby"] /\ UNCHANGED cache
      [] c = "CMD7" -> emmc' = [emmc EXCEPT !.st = "tran"] /\ UNCHANGED cache
      [] c = "width" -> emmc' = [emmc EXCEPT !.width = 8, !.mode = @ \ {"DDR"}] /\ UNCHANGED cache
      [] c = "HS" -> emmc' = [emmc EXCEPT !.mode = @ \cup {"HS"}] /\ UNCHANGED cache
      [] c = "DDR" -> emmc' = [emmc EXCEPT !.width = 8, !.mode = @ \cup {"DDR"}] /\ UNCHANGED cache
      [] OTHER -> UNCHANGED <<emmc, cache>>

\* What the controller is set to after a command, before its clock.
HostChange(c) ==
    CASE c = "width" -> [host EXCEPT !.width = 8]
      [] c = "HS" -> [host EXCEPT !.mode = @ \cup {"HS"}]
      [] c = "DDR" -> [host EXCEPT !.mode = @ \cup {"DDR"}]
      [] OTHER -> host

Expects(c) ==
    CASE c = "CMD0" -> TRUE
      [] c = "CMD1" -> emmc.st = "idle"
      [] c = "CMD2" -> emmc.st = "ready"
      [] c = "CMD3" -> emmc.st = "ident"
      [] c = "CMD7" -> emmc.st = "stby"
      [] c \in {"EXT_CSD", "verify"} -> emmc.st = "tran" /\ Agree
      [] OTHER -> emmc.st = "tran"

\* the hardware fails, before or after the card has acted
DetectFault ==
    /\ cardPc \in DetectStates
    /\ \/ CardTakes(cardPc)
       \/ UNCHANGED <<emmc, cache>>
    /\ host' \in {host, HostChange(cardPc)}
    /\ DetectFails

\* the card cannot take the command
DetectRefused ==
    /\ cardPc \in DetectStates /\ ~Expects(cardPc)
    /\ DetectFails
    /\ UNCHANGED <<host, emmc, cache>>

\* CMD0, voltageValidationMMC and the start of initMMC
Identify ==
    /\ cardPc \in {"CMD0", "CMD1", "CMD2", "CMD3", "CMD7"} /\ Expects(cardPc)
    /\ CardTakes(cardPc)
    /\ cardPc' = CASE cardPc = "CMD0" -> "CMD1" [] cardPc = "CMD1" -> "CMD2" [] cardPc = "CMD2" -> "CMD3"
               [] cardPc = "CMD3" -> "CMD7" [] cardPc = "CMD7" -> "width"
    /\ UNCHANGED <<driver, host, ghosts>>

\* initMMC: bus width of the card, then of the controller, then its clock
BusWidth ==
    /\ cardPc = "width" /\ Expects(cardPc)
    /\ CardTakes(cardPc)
    /\ host' = [HostChange(cardPc) EXCEPT !.clk = 25000]
    /\ cardPc' = "EXT_CSD"
    /\ UNCHANGED <<driver, ghosts>>

detectCapabilitiesMMC ==
    /\ cardPc = "EXT_CSD" /\ Expects(cardPc)
    /\ info' = IF cache = "off" THEN info \ {"CacheEnabled"} ELSE info \cup {"CacheEnabled"}
    /\ IF SupportsHS THEN cardPc' = "HS" /\ UNCHANGED <<controllerReady, cardReady>> ELSE DetectDone
    /\ UNCHANGED <<host, emmc, cache, ghosts>>

\* the timing of the card, then of the controller, then the clock
enableHighSpeedMMC ==
    /\ cardPc = "HS" /\ Expects(cardPc)
    /\ CardTakes(cardPc)
    /\ host' = [HostChange(cardPc) EXCEPT !.clk = 50000]
    /\ info' = info \cup {"HS"}
    /\ IF SupportsDDR THEN cardPc' = "DDR" /\ UNCHANGED <<controllerReady, cardReady>> ELSE DetectDone
    /\ UNCHANGED ghosts

enableDDRMMC ==
    /\ cardPc = "DDR" /\ Expects(cardPc)
    /\ CardTakes(cardPc)
    /\ host' = HostChange(cardPc)
    /\ cardPc' = "verify"
    /\ UNCHANGED <<driver, ghosts>>

\* an EXT_CSD read in the new mode
VerifyDDR ==
    /\ cardPc = "verify" /\ Expects(cardPc)
    /\ info' = info \cup {"DDR"}
    /\ DetectDone
    /\ UNCHANGED <<host, emmc, cache, ghosts>>

-----------------------------------------------------------------------------
(* Writes, Sync and EnableCache of a card that is ready.                   *)

invalidateTransfer ==
    /\ controllerReady' = FALSE /\ cardReady' = FALSE
    /\ UNCHANGED info

\* the cache after a write, and after a flush
Filled == IF cache = "off" THEN "off" ELSE "dirty"
Flushed == IF cache = "off" THEN "off" ELSE "clean"

WriteBlocks ==
    /\ cardPc = "idle" /\ cardReady /\ Agree
    /\ cache' = Filled
    /\ promised' = IF "CacheEnabled" \in info THEN FALSE ELSE promised
    /\ UNCHANGED <<driver, host, emmc, cardPc, dropped>>

Sync ==
    /\ cardPc = "idle" /\ cardReady
    /\ cache' = IF "CacheEnabled" \in info THEN Flushed ELSE cache
    /\ promised' = TRUE
    /\ UNCHANGED <<driver, host, emmc, cardPc, dropped>>

\* mutant: turning the cache off does not flush it
EnableCacheNoFlush(enable) ==
    /\ cardPc = "idle" /\ cardReady /\ CacheSize # 0 /\ ~("CacheEnabled" \in info <=> enable)
    /\ cardPc' = IF enable THEN "cacheOn" ELSE "cacheOff"
    /\ UNCHANGED <<driver, host, emmc, cache, ghosts>>

\* refused without a cache, nothing to do if it is as asked
EnableCache(enable) ==
    /\ cardPc = "idle" /\ cardReady /\ CacheSize # 0 /\ ~("CacheEnabled" \in info <=> enable)
    /\ cardPc' = IF enable THEN "cacheOn" ELSE "flush"
    /\ UNCHANGED <<driver, host, emmc, cache, ghosts>>

FlushCache ==
    /\ cardPc = "flush"
    /\ cache' = Flushed
    /\ cardPc' = "cacheOff"
    /\ UNCHANGED <<driver, host, emmc, ghosts>>

\* the cache after it was turned on, and after it was turned off
Switched == IF cardPc = "cacheOff" THEN "off" ELSE IF cache = "off" THEN "clean" ELSE cache

CacheCtrl ==
    /\ cardPc \in {"cacheOn", "cacheOff"}
    /\ cache' = Switched
    /\ dropped' = IF cardPc = "cacheOff" /\ cache = "dirty" THEN TRUE ELSE dropped
    /\ info' = IF cardPc = "cacheOn" THEN info \cup {"CacheEnabled"} ELSE info \ {"CacheEnabled"}
    /\ cardPc' = "idle"
    /\ UNCHANGED <<controllerReady, cardReady, host, emmc, promised>>

\* a write, a flush or a switch that fails, before or after the card has acted
TransferFault ==
    /\ cardPc = "idle" /\ cardReady
    /\ cache' \in {cache, Filled, Flushed}
    /\ promised' = FALSE
    /\ invalidateTransfer
    /\ UNCHANGED <<host, emmc, cardPc, dropped>>

CacheFault ==
    /\ cardPc \in {"flush", "cacheOn", "cacheOff"}
    /\ cache' \in {cache, IF cardPc = "flush" THEN Flushed ELSE Switched}
    /\ invalidateTransfer
    /\ cardPc' = "idle"
    /\ UNCHANGED <<host, emmc, ghosts>>

\* power is lost and the program starts again
PowerLoss ==
    /\ controllerReady' = FALSE /\ cardReady' = FALSE /\ info' = NoInfo
    /\ host' = ResetHost /\ emmc' = ResetCard /\ cache' = ResetCache
    /\ cardPc' = "idle"
    /\ dropped' = IF promised /\ cache = "dirty" THEN TRUE ELSE dropped
    /\ UNCHANGED promised

Next ==
    \/ initController \/ InitFails
    \/ DetectUnready \/ Detect \/ DetectFault \/ DetectRefused
    \/ Identify \/ BusWidth \/ detectCapabilitiesMMC \/ enableHighSpeedMMC
    \/ enableDDRMMC \/ VerifyDDR
    \/ WriteBlocks \/ Sync \/ FlushCache \/ CacheCtrl \/ TransferFault \/ CacheFault
    \/ \E enable \in BOOLEAN : EnableCache(enable)
    \/ PowerLoss

Spec == Init /\ [][Next]_vars

-----------------------------------------------------------------------------

\* While the driver is ready the controller and the card use the same bus mode
\* and the card is selected, whatever failed before.
TimingAgree ==
    cardReady => /\ Agree /\ emmc.st = "tran" /\ controllerReady
             /\ \A m \in {"HS", "DDR"} : m \in info <=> m \in emmc.mode

\* "callers must Sync before relying on it surviving power loss. Turning the
\* cache off flushes it first": nothing a caller may rely on is in the cache when
\* power is lost, and nothing at all is in it when it is turned off.
Durable == ~dropped /\ (promised => cache # "dirty")

=============================================================================
