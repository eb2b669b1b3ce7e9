-------------------------------- MODULE MCIo --------------------------------
(***************************************************************************)
(* Drivers of input and output for TLC: Ethernet, USB, I2C and SPI of NXP, *)
(* TWI of Microchip, mailbox, DMA channels and GPIO of the BCM2835, and    *)
(* serial ports.  The models share no state, so that each is explored      *)
(* while the others stand still.                                           *)
(***************************************************************************)
EXTENDS IoProofs, BcmProofs, TLC

CONSTANTS Outs, Ins, EpOf, DescOf, MaxRequests
CONSTANTS DtdLength, TransferSizes, MaxTransfers
CONSTANTS MaxConfigurations, MaxInterfaces, MaxStrings, StringLengths, ReadLengths, MaxSetups
CONSTANTS AddressLengths, ReadSizes, WriteSizes, MaxTransactions
CONSTANTS TwiLengths, TwiAddresses, MaxTwiCalls, SpiLengths, FifoWords, Selects, Modes, MaxSpiCalls
CONSTANTS Ports, FifoDepth, WriteLengths, SerialReads, MaxSent, MaxReceived

VARIABLES polling, uri, ui, setup, mpc, changed, conf, exit, event, wg, epc, primed, active,
          complete, stalled, ctrl, qh, desc, requests
VARIABLES upc, dir, total, done, dtds, checked, dtdSize, transferred, cancelled, prime, stat,
          dtdComplete, next, current, wire, transfers
VARIABLES confs, strings, num, configured, alt, address, cpc, request, answers, broken, hostConf,
          hostAddress, setups
VARIABLES ipc, op, alen, len, queue, buf, outcome, msta, mtx, txak, ibb, iif, rxak, dr, shift,
          onBus, sentBytes, transactions
VARIABLES port, wpc, left, put, txFifo, lineOut, readPc, room, blocking, rxFifo,
          lineIn, enabled, ier, line, spc, token
VARIABLES tpc, twi, ti, tbuf, cwgr, ctl, twiHolding, twiWire, twiCalls
VARIABLES spiPc, spiLen, sbuf, tried, spiPort, pol, pha, burst, xch, tc, txWords, rxWords, mosi, dirty

VARIABLE part       \* the part that is explored

rxVars == <<rx, rxIndex, rxPc, rxHw, arrived, seen>>
ringVars == <<rx, rxIndex, rxPc, rxHw, arrived, seen, tx, txIndex, txPc, txHw, pushed, sent>>
eventVars == <<eir, mmfr, busy, pc, loaded, calls, result, hpc, hloaded, lost>>
usbVars == <<polling, uri, ui, setup, mpc, changed, conf, exit, event, wg, epc, primed, active,
             complete, stalled, ctrl, qh, desc, requests>>
dtdVars == <<upc, dir, total, done, dtds, checked, dtdSize, transferred, cancelled, prime, stat,
             dtdComplete, next, current, wire, transfers>>
controlVars == <<confs, strings, num, configured, alt, address, cpc, request, answers, broken,
                 hostConf, hostAddress, setups>>
i2cVars == <<ipc, op, alen, len, queue, buf, outcome, msta, mtx, txak, ibb, iif, rxak, dr, shift,
             onBus, sentBytes, transactions>>
bcmVars == <<boxPc, message, bcmCalls, buffer, lock, inbox, outbox, response, panicked,
             allocated, holding, copyPc, block, running, end, copied, used>>
gpioVars == <<gpio, gpioCall, gpioAsked>>
uartVars == <<port, wpc, left, put, txFifo, lineOut, readPc, room, blocking, rxFifo,
              lineIn, enabled, ier, line, spc, token>>
twiVars == <<tpc, twi, ti, tbuf, cwgr, ctl, twiHolding, twiWire, twiCalls>>
spiVars == <<spiPc, spiLen, sbuf, tried, spiPort, pol, pha, burst, xch, tc, txWords, rxWords, mosi,
             dirty>>

Usb == INSTANCE UsbDevice
Dtd == INSTANCE UsbTransfer
Serial == INSTANCE Uart WITH ReadLengths <- SerialReads, sent <- lineOut, rpc <- readPc,
              block <- blocking, received <- lineIn, rx <- token
Bus == INSTANCE SerialBus WITH Channels <- Selects, holding <- twiHolding, wire <- twiWire,
           spc <- spiPc, port <- spiPort

MCInit ==
    /\ part \in {"ring", "mii", "usb", "dtd", "control", "i2c", "twi", "spi", "mailbox", "dma", "gpio",
                "uart"}
    /\ Ring!Init /\ Ring!EventInit /\ Usb!Init /\ Dtd!Init /\ Dtd!ControlInit /\ Bus!I2cInit
    /\ Bus!TwiInit /\ Bus!SpiInit /\ Bcm!Init /\ Bcm!GpioInit /\ Serial!Init
    /\ part # "usb" => polling
    /\ part # "uart" => port = "nxp"

Enet == <<ringVars, eventVars>>
UsbAll == <<usbVars, dtdVars, controlVars>>
Buses == <<i2cVars, twiVars, spiVars>>
Others == <<Buses, bcmVars, gpioVars, uartVars>>

MCNext ==
    \/ part = "ring" /\ Ring!Next /\ UNCHANGED <<part, eventVars, UsbAll, Others>>
    \/ part = "mii" /\ Ring!EventNext /\ UNCHANGED <<part, ringVars, UsbAll, Others>>
    \/ part = "usb" /\ Usb!Next /\ UNCHANGED <<part, Enet, dtdVars, controlVars, Others>>
    \/ part = "dtd" /\ Dtd!Next /\ UNCHANGED <<part, Enet, usbVars, controlVars, Others>>
    \/ part = "control" /\ Dtd!ControlNext /\ UNCHANGED <<part, Enet, usbVars, dtdVars, Others>>
    \/ part = "i2c" /\ Bus!I2cNext /\ UNCHANGED <<part, Enet, UsbAll, twiVars, spiVars, bcmVars, gpioVars, uartVars>>
    \/ part = "twi" /\ Bus!TwiNext
       /\ UNCHANGED <<part, Enet, UsbAll, i2cVars, spiVars, bcmVars, gpioVars, uartVars>>
    \/ part = "spi" /\ Bus!SpiNext
       /\ UNCHANGED <<part, Enet, UsbAll, i2cVars, twiVars, bcmVars, gpioVars, uartVars>>
    \/ part = "mailbox" /\ Bcm!MailboxNext /\ UNCHANGED <<part, Enet, UsbAll, Buses, gpioVars, uartVars>>
    \/ part = "dma" /\ Bcm!DmaNext /\ UNCHANGED <<part, Enet, UsbAll, Buses, gpioVars, uartVars>>
    \/ part = "gpio" /\ Bcm!GpioNext /\ UNCHANGED <<part, Enet, UsbAll, Buses, uartVars>>
    \/ part = "uart" /\ Serial!Next /\ UNCHANGED <<part, Enet, UsbAll, Buses, bcmVars, gpioVars>>

MCSpec ==
    /\ MCInit /\ [][MCNext]_<<part, Enet, UsbAll, Others>>
    /\ WF_rxVars(part = "ring" /\ (Ring!Receive \/ Ring!Copy \/ Ring!Release))
    /\ WF_usbVars(part = "usb" /\ Usb!Main)
    /\ \A e \in Outs \cup Ins : WF_usbVars(part = "usb" /\ Usb!Endpoint(e))
    /\ WF_uartVars(part = "uart" /\ Serial!RxWoken) /\ WF_uartVars(part = "uart" /\ Serial!Interrupt)
    /\ WF_uartVars(part = "uart" /\ Serial!ServiceInterrupt)

MCEpOf == 1 :> {"out", "in"} @@ 2 :> {"out"}
MCDescOf ==
    1 :> ("out" :> [type |-> "bulk", max |-> 2] @@ "in" :> [type |-> "interrupt", max |-> 1])
    @@ 2 :> ("out" :> [type |-> "interrupt", max |-> 1])
MCTags == {<< 4 >>, << 5, 0 >>, << 8, 3, 4 >>}

\* A good frame is delivered, whatever frames came before it, and a reader of a
\* serial port that waits is woken for a character.
Delivered == (part = "ring" => Ring!Delivered) /\ (part = "uart" => Serial!Woken)

\* OUT endpoints of the active configuration are given buffers again and again.
Receives == part = "usb" => Usb!Receives

\* USB endpoints are started when nothing of the last configuration is left, and
\* those that run are those of the active configuration, as it describes them.  A transfer that succeeds
\* has moved its buffer, once and in order.  Control requests are answered once, with
\* descriptors that describe the device, and the host knows the configuration and
\* address the device uses.
UsbExact ==
    /\ Usb!StoppedBeforeStart /\ Usb!ConfiguredRuns /\ Usb!EndpointsTyped
    /\ Dtd!TransferExact
    /\ Dtd!AnsweredOnce /\ Dtd!DescriptorsRight /\ Dtd!HostAgrees

\* An I2C or TWI transaction that succeeds was on the bus as it was asked for, and
\* leaves the bus free when it ends, and an SPI transfer has sent and received its
\* bytes.  Characters are sent in the order of the writes, none lost to a full FIFO,
\* whichever status bit the driver of the serial port waits for.
BusExact == Bus!BusExact /\ Bus!BusReleased /\ Bus!TransfersExact /\ Serial!TxWhole

\* "EP1-N cancellation signal": cancelled USB endpoints end.
Cancelled == Usb!Cancelled

=============================================================================
