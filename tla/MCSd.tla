-------------------------------- MODULE MCSd --------------------------------
(***************************************************************************)
(* The SD/MMC drivers for TLC.  Microchip SDHCI: the splitting of          *)
(* requests, block transfers with their recovery, the card's modes and     *)
(* cache, the wait for interrupts.  NXP uSDHC: card detection, transfers.  *)
(* Both: the computations.  Beside them the other drivers of the LAN969x   *)
(* board, those of its management port and of the CPU port of the switch.  *)
(* The models share no state, so that each is explored while the others    *)
(* stand still.                                                            *)
(***************************************************************************)
EXTENDS SdProofs

CONSTANT MaxWaits
CONSTANTS HeaderWords, BufferLength, MaxWords, MinimumFrameSize, TxLengths, MaxPortFrames
CONSTANTS Macs, MaxMacCalls
CONSTANTS Local, Partners, Extended, MaxOps, MaxPulls

VARIABLES status, nisier, eisier, event, wpc, seen, hpc, expired, irqResult, waits
VARIABLES kind, op, todo, got, at, linkSeen, fresh, phyRet, pending, current, data, job, mac, ops,
          link, latched, resetting, partner, pulls, ext
VARIABLES fifo, frames, rpc, header, padded, extracted, bytes, received, rxTimeout,
          tpc, length, written, valid, injecting, words, eof, accepted, returned, txAborts
VARIABLES ana, learn, portMac

VARIABLE part       \* the part that is explored

xferVars == <<xferReady, xferPc, cmd, dir, multi, chunks, first, id, held, failed, ignored, r1,
              late, xferResult, cmdline, datline, aborted, busy, cmdc, trfc, errs, hung,
              cardState, done>>
cardVars == <<controllerReady, cardReady, info, host, emmc, cache, cardPc, promised, dropped>>
irqVars == <<status, nisier, eisier, event, wpc, seen, hpc, expired, irqResult, waits>>
detVars == <<slot, cst, crm, detInfo, detHost, detPc, ret, full, same, detFaults, swaps>>
movVars == <<rpmb, want, n, movPc, result, issued, active, ended, card, partition, tc, movFaults>>
phyVars == <<kind, op, todo, got, at, linkSeen, fresh, phyRet, pending, current, data, job, mac,
             ops, link, latched, resetting, partner, pulls, ext>>
portVars == <<fifo, frames, rpc, header, padded, extracted, bytes, received, rxTimeout, tpc, length,
              written, valid, injecting, words, eof, accepted, returned, txAborts>>
macVars == <<ana, learn, portMac>>
ethVars == <<phyVars, portVars, macVars>>
mcVars == <<part, vars, xferVars, cardVars, irqVars, detVars, movVars, mathVars, ethVars>>

Irq == INSTANCE SdhciIrq
Phy == INSTANCE EthPhy WITH seen <- linkSeen, ret <- phyRet
Port == INSTANCE DevcpuPort WITH got <- extracted, n <- bytes

MCInit ==
    /\ part \in {"blocks", "transfer", "card", "irq", "detect", "moves", "math", "phy", "portRx",
             "portTx", "mac"}
    /\ Init /\ Transfer!Init /\ Card!Init /\ Irq!Init
    /\ Detection!Init /\ Moves!Init /\ MathInit /\ Phy!Init /\ Port!Init /\ Port!MacInit
    /\ part # "detect" => slot = "none"
    /\ part # "mac" => portMac.mac = <<>>
    /\ part # "phy" => kind = "lan8840" /\ partner = CHOOSE p \in Partners : TRUE

Sdhci == <<vars, xferVars, cardVars, irqVars>>
Usdhc == <<detVars, movVars, mathVars, ethVars>>

MCNext ==
    \/ part = "blocks" /\ Next /\ UNCHANGED <<part, xferVars, cardVars, irqVars, Usdhc>>
    \/ part = "transfer" /\ Transfer!Next /\ UNCHANGED <<part, vars, cardVars, irqVars, Usdhc>>
    \/ part = "card" /\ Card!Next /\ UNCHANGED <<part, vars, xferVars, irqVars, Usdhc>>
    \/ part = "irq" /\ Irq!Next /\ UNCHANGED <<part, vars, xferVars, cardVars, Usdhc>>
    \/ part = "detect" /\ Detection!Next /\ UNCHANGED <<part, Sdhci, movVars, mathVars, ethVars>>
    \/ part = "moves" /\ Moves!Next /\ UNCHANGED <<part, Sdhci, detVars, mathVars, ethVars>>
    \/ part = "math" /\ MathNext /\ UNCHANGED <<part, Sdhci, detVars, movVars, ethVars>>
    \/ part = "phy" /\ Phy!Next
       /\ UNCHANGED <<part, Sdhci, detVars, movVars, mathVars, portVars, macVars>>
    \/ part = "portRx" /\ Port!RxNext
       /\ UNCHANGED <<part, Sdhci, detVars, movVars, mathVars, phyVars, macVars>>
    \/ part = "portTx" /\ Port!TxNext
       /\ UNCHANGED <<part, Sdhci, detVars, movVars, mathVars, phyVars, macVars>>
    \/ part = "mac" /\ Port!MacNext
       /\ UNCHANGED <<part, Sdhci, detVars, movVars, mathVars, phyVars, portVars>>

Still == UNCHANGED <<part, vars, xferVars, cardVars, Usdhc>>

MCSpec ==
    /\ MCInit /\ [][MCNext]_mcVars
    /\ WF_irqVars(part = "irq" /\ Irq!Handler /\ Still)
    /\ WF_irqVars(part = "irq" /\ Irq!Awake /\ Still)

MCMacs == {<<"a", "a">>, <<"a", "b">>, <<"b", "b">>}
MCModes(speeds) == speeds \X BOOLEAN
MCLocal == MCModes({1000, 100, 10}) \ {<<1000, FALSE>>}
MCPartners == {{<<1000, TRUE>>, <<100, TRUE>>}, MCModes({100}) \cup {<<10, TRUE>>},
               {<<100, FALSE>>, <<10, FALSE>>}}

\* The management port: what Link and Status report is true of the link, the MAC is
\* set to the speed in use, extended registers are those asked for.  Frames of the
\* switch port are taken off its word stream, and put on it, whole, and its MAC table
\* has the address of the port and no former one.
PortTruth ==
    /\ Phy!LinkTrue /\ Phy!ModeTrue /\ Phy!ExtendedOwn
    /\ Port!ExtractedExact /\ Port!InjectedExact /\ Port!TableRight

\* The interrupt alone, without the poll timer, wakes a caller whose transfer
\* has ended.
WokenByInterrupt == Irq!WokenByInterrupt

\* Descriptor tables cover their buffer and fit the DMA region with it, and Read
\* of both drivers returns the bytes asked for.
ReadExact == TablesFit /\ BytesExact

\* "check if a card has already been detected and not removed since": a Detect
\* that returns no error is for a card that can be used.
DetectTruth == Detection!DetectTruth

=============================================================================
