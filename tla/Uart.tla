-------------------------------- MODULE Uart --------------------------------
(***************************************************************************)
(* Serial ports: drivers of nine controllers, one goroutine that writes    *)
(* and one that reads.  Most are polled; those of Intel and of Microchip   *)
(* (FLEXCOM) also wait for a receive interrupt, whose service runs beside  *)
(* the reader.                                                             *)
(*                                                                         *)
(* The drivers differ in how they find room to send and what they take for *)
(* a received character.  Sent characters are numbered, of those received  *)
(* it is known what may be wrong with them.                                *)
(***************************************************************************)
EXTENDS Naturals, Sequences

CONSTANTS
    Ports,          \* the drivers: "nxp", "intel", "usart", "sifive", "synopsys", ...
    FifoDepth,      \* characters a FIFO holds
    WriteLengths, ReadLengths,      \* len(buf) of Write and Read
    MaxSent, MaxReceived    \* bounds: characters

VARIABLES
    port,               \* the driver
    wpc, left, put,     \* Write: step, characters left; characters put in the FIFO
    txFifo, sent,       \* characters in the FIFO, and on the line
    rpc, room, block,   \* Read: step, room left in the buffer, Rx(block)
    rxFifo, received,   \* characters in the FIFO, number of all that came
    enabled, ier,       \* hw.rx is not nil; the interrupt is enabled
    line, spc, rx       \* an interrupt is pending; ServiceInterrupt; hw.rx holds a token

txVars == <<wpc, left, put, txFifo, sent>>
rxVars == <<rpc, room, block, rxFifo, received, enabled, ier, line, spc, rx>>
vars == <<port, txVars, rxVars>>

\* a character may have an error flag (NXP), and be zero (Synopsys, which cannot tell)
Kinds == {"good"} \cup {k \in {"error"} : port = "nxp"} \cup {k \in {"null"} : port = "synopsys"}

Full == Len(txFifo) = FifoDepth
Empty == txFifo = << >>

Init ==
    /\ port \in Ports
    /\ wpc = "idle" /\ left = 0 /\ put = 0 /\ txFifo = << >> /\ sent = << >>
    /\ rpc = "idle" /\ room = 0 /\ block = FALSE
    /\ rxFifo = << >> /\ received = 0
    /\ enabled = FALSE /\ ier = FALSE /\ line = FALSE /\ spc = "idle" /\ rx = FALSE

-----------------------------------------------------------------------------
(* Sending.                                                                *)

Write(n) ==
    /\ wpc = "idle" /\ put + n <= MaxSent
    /\ left' = n /\ wpc' = IF n = 0 THEN "idle" ELSE "wait"
    /\ UNCHANGED <<port, put, txFifo, sent, rxVars>>

\* Tx: the loop ends when the port reports room ...
TxWait(ready) ==
    /\ wpc = "wait" /\ ready
    /\ wpc' = "put"
    /\ UNCHANGED <<port, left, put, txFifo, sent, rxVars>>

\* ... and then the character is written; a full FIFO drops it
TxPut ==
    /\ wpc = "put"
    /\ put' = put + 1 /\ txFifo' = IF Full THEN txFifo ELSE Append(txFifo, put + 1)
    /\ left' = left - 1 /\ wpc' = IF left = 1 THEN "idle" ELSE "wait"
    /\ UNCHANGED <<port, sent, rxVars>>

HwSend ==
    /\ ~Empty
    /\ sent' = Append(sent, Head(txFifo)) /\ txFifo' = Tail(txFifo)
    /\ UNCHANGED <<port, wpc, left, put, rxVars>>

-----------------------------------------------------------------------------
(* Receiving.                                                              *)

Read(n) ==
    /\ rpc = "idle"
    /\ room' = n /\ block' = TRUE /\ rpc' = IF n = 0 THEN "idle" ELSE "poll"
    /\ UNCHANGED <<port, txVars, rxFifo, received, enabled, ier, line, spc, rx>>

\* a character leaves the FIFO; one that is not valid ends the Read, as a full
\* buffer does
Take(valid) ==
    /\ rxFifo # << >>
    /\ rxFifo' = Tail(rxFifo)
    /\ room' = IF valid THEN room - 1 ELSE room
    /\ rpc' = IF valid /\ room > 1 THEN "poll" ELSE "idle"
    /\ block' = FALSE

\* Rx of a polled port: Read ends when there is no valid character
RxPolled(valid) ==
    /\ rpc = "poll"
    /\ \/ Take(valid)
       \/ /\ rxFifo = << >> /\ rpc' = "idle"
          /\ UNCHANGED <<room, block, rxFifo>>
    /\ UNCHANGED <<port, txVars, received, enabled, ier, line, spc, rx>>

\* Rx of a port with interrupts: the first character is waited for
RxBlocking ==
    /\ rpc = "poll"
    /\ \/ Take(TRUE)
       \/ /\ rxFifo = << >>
          /\ rpc' = IF ~block THEN "idle" ELSE IF enabled THEN "sleep" ELSE "poll"
          /\ UNCHANGED <<room, block, rxFifo>>
    /\ UNCHANGED <<port, txVars, received, enabled, ier, line, spc, rx>>

\* <-hw.rx
RxWoken ==
    /\ rpc = "wait" /\ rx
    /\ rx' = FALSE /\ rpc' = "poll"
    /\ UNCHANGED <<port, txVars, room, block, rxFifo, received, enabled, ier, line, spc>>

RxSleep(enable) ==
    /\ rpc = "sleep"
    /\ ier' = (ier \/ enable) /\ rpc' = "wait"
    /\ UNCHANGED <<port, txVars, room, block, rxFifo, received, enabled, line, spc, rx>>

\* EnableInterrupt; the interrupt is edge triggered
EnableInterrupt ==
    /\ port \in {"intel", "usart"} /\ ~enabled
    /\ enabled' = TRUE /\ ier' = TRUE
    /\ line' = (port = "intel" /\ rxFifo # << >>)
    /\ UNCHANGED <<port, txVars, rpc, room, block, rxFifo, received, spc, rx>>

\* the interrupt reaches the service: on the rising edge (Intel), or while a
\* character is there and the interrupt is enabled (Microchip)
Interrupt ==
    /\ spc = "idle" /\ enabled
    /\ IF port = "intel" THEN line ELSE ier /\ rxFifo # << >>
    /\ line' = FALSE /\ spc' = IF port = "intel" THEN "send" ELSE "mask"
    /\ UNCHANGED <<port, txVars, rpc, room, block, rxFifo, received, enabled, ier, rx>>

\* mutant: the interrupt is masked after the reader was woken
ServiceSwapped ==
    /\ \/ spc = "mask" /\ rx' = TRUE /\ spc' = "send" /\ ier' = ier
       \/ /\ spc = "send" /\ spc' = "idle"
          /\ IF port = "usart" THEN ier' = FALSE /\ rx' = rx ELSE ier' = ier /\ rx' = TRUE
    /\ UNCHANGED <<port, txVars, rpc, room, block, rxFifo, received, enabled, line>>

\* the reader is sent a token, if there is none, after the interrupt was masked
ServiceInterrupt ==
    /\ \/ spc = "mask" /\ ier' = FALSE /\ spc' = "send" /\ rx' = rx
       \/ spc = "send" /\ rx' = TRUE /\ spc' = "idle" /\ ier' = ier
    /\ UNCHANGED <<port, txVars, rpc, room, block, rxFifo, received, enabled, line>>

\* characters that find the FIFO full are lost on the way in
HwReceive(k) ==
    /\ received < MaxReceived /\ Len(rxFifo) < FifoDepth
    /\ received' = received + 1
    /\ rxFifo' = Append(rxFifo, k)
    /\ line' = (line \/ (port = "intel" /\ ier /\ rxFifo = << >>))
    /\ UNCHANGED <<port, txVars, rpc, room, block, enabled, ier, spc, rx>>

-----------------------------------------------------------------------------
(* The drivers.                                                            *)

\* mutant: the wait is for the FIFO to have been full
NxpUartFull == port = "nxp" /\ (TxWait(TRUE) \/ RxPolled(rxFifo # << >> /\ Head(rxFifo) # "error"))

\* UTS[TXFULL]; USR2[RDR], and characters with an error flag are not valid
NxpUart == port = "nxp" /\ (TxWait(~Full) \/ RxPolled(rxFifo # << >> /\ Head(rxFifo) # "error"))

\* LSR[THRE] is set when the FIFO is empty
IntelUart == port = "intel" /\ (TxWait(Empty) \/ RxBlocking \/ RxSleep(FALSE) \/ RxWoken)

\* the interrupt is enabled again before the reader sleeps
USART == port = "usart" /\ (TxWait(~Full) \/ RxBlocking \/ RxSleep(TRUE) \/ RxWoken)

SifiveUart == port = "sifive" /\ (TxWait(~Full) \/ RxPolled(TRUE))
LoongsonUart == port = "loongson" /\ (TxWait(Empty) \/ RxPolled(TRUE))
Shakti == port = "shakti" /\ (TxWait(~Full) \/ RxPolled(TRUE))

\* Tx does not wait, Rx does not look at the status: null stands for no character
Synopsys == port = "synopsys" /\ (TxWait(TRUE) \/ RxPolled(rxFifo # << >> /\ Head(rxFifo) # "null"))

\* ports without Read
NuvotonUart == port = "nuvoton" /\ TxWait(~Full)
miniUART == port = "mini" /\ TxWait(~Full)

Drivers == NxpUart \/ IntelUart \/ USART \/ SifiveUart \/ LoongsonUart \/ Shakti \/ Synopsys
           \/ NuvotonUart \/ miniUART
Reads == port \notin {"nuvoton", "mini"}

Next ==
    \/ \E n \in WriteLengths : Write(n)
    \/ Drivers \/ TxPut \/ HwSend
    \/ Reads /\ \E n \in ReadLengths : Read(n)
    \/ EnableInterrupt \/ Interrupt \/ ServiceInterrupt
    \/ Reads /\ \E k \in Kinds : HwReceive(k)

\* goroutines that can run are scheduled, and interrupts are served
Fairness == WF_vars(RxWoken) /\ WF_vars(Interrupt) /\ WF_vars(ServiceInterrupt)

Spec == Init /\ [][Next]_vars /\ Fairness

-----------------------------------------------------------------------------

\* Characters are sent in the order of the writes and none is lost to a full FIFO
\* (but by the Synopsys driver, which does not wait for room).
TxWhole == port # "synopsys" => sent \o txFifo = [i \in 1 .. put |-> i]

\* A reader that waits is woken for a character: no interrupt or token is lost
\* between Rx, which finds no character and goes to sleep, and ServiceInterrupt.
Woken == (rpc = "wait" /\ rxFifo # << >>) ~> rpc # "wait"

=============================================================================
