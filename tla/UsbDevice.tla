------------------------------ MODULE UsbDevice ------------------------------
(***************************************************************************)
(* The NXP USB driver in device mode: the routine that serves bus resets   *)
(* and setup packets, polling (Start) or on interrupts (ServiceInterrupts),*)
(* and one goroutine for each endpoint of the active configuration, which  *)
(* a change of configuration cancels and starts anew.  The endpoints have  *)
(* one number: the two directions of it share ENDPTCTRLn.                  *)
(*                                                                         *)
(* The host completes each control transfer that it begins, the functions  *)
(* of the endpoints return.                                                *)
(***************************************************************************)
EXTENDS Naturals, FiniteSets

CONSTANTS
    Outs, Ins,      \* endpoints by direction
    EpOf,           \* the endpoints of each configuration value
    DescOf,         \* and their descriptors: transfer type and packet size
    MaxRequests     \* bound: resets and setup packets of the host

Endpoints == Outs \cup Ins

VARIABLES
    polling,        \* Start is used, not ServiceInterrupts
    uri, ui,        \* bus reset and transfer interrupts pending in USBSTS
    setup,          \* ENDPTSETUPSTAT and the packet, as a configuration value
    mpc, changed,   \* the routine: its step; the result of handleSetup
    conf,           \* Device.ConfigurationValue
    exit, event,    \* the channel: nil, open or closed; the condition exists
    wg, desc,       \* the wait group; the configuration whose endpoints were started
    epc,            \* the goroutines of the endpoints
    primed, active, complete, stalled,  \* the endpoints in the controller
    ctrl, qh,       \* ENDPTCTRLn: enabled and type, by direction; packet sizes of the queue heads
    requests

host == <<uri, ui, setup, requests>>
main == <<mpc, changed, conf, exit, event>>
hw == <<primed, active, complete, stalled, ctrl, qh>>
vars == <<polling, host, main, wg, desc, epc, hw>>

None == 99          \* no setup packet
Other == 98         \* a request that changes nothing

Init ==
    /\ polling \in BOOLEAN
    /\ uri = FALSE /\ ui = FALSE /\ setup = None /\ requests = 0
    /\ mpc = "idle" /\ changed = FALSE /\ conf = 0 /\ exit = "nil" /\ event = FALSE
    /\ wg = 0 /\ epc = [e \in Endpoints |-> "off"]
    /\ primed = {} /\ active = {} /\ complete = {} /\ stalled = {} /\ desc = 0
    /\ ctrl = [e \in Endpoints |-> [on |-> FALSE, type |-> "control"]] /\ qh = [e \in Endpoints |-> 0]

-----------------------------------------------------------------------------
(* The routine.                                                            *)

\* after a setup packet Start looks for a reset again, ServiceInterrupts for
\* another packet
Again == IF polling THEN "idle" ELSE "setup"

\* mutant: the configuration stays active
ResetKeepConf ==
    /\ uri
    /\ uri' = FALSE /\ ui' = FALSE /\ setup' = None
    /\ complete' = {} /\ primed' = {}
    /\ UNCHANGED <<conf, active, stalled, ctrl, qh, requests>>

\* Reset: "set inactive configuration", clear setup and completions, flush
Reset ==
    /\ uri
    /\ conf' = 0
    /\ uri' = FALSE /\ ui' = FALSE /\ setup' = None
    /\ complete' = {} /\ primed' = {}
    /\ UNCHANGED <<active, stalled, ctrl, qh, requests>>

\* Start, or ServiceInterrupts once an interrupt is signalled: first the reset
CheckReset ==
    /\ mpc = "idle" /\ uri
    /\ Reset
    /\ mpc' = "setup"
    /\ UNCHANGED <<polling, changed, exit, event, wg, desc, epc>>

CheckSetup ==
    /\ mpc = "idle" /\ ~uri
    /\ IF polling THEN setup # None ELSE ui
    /\ mpc' = "setup"
    /\ UNCHANGED <<polling, host, changed, conf, exit, event, wg, desc, epc, hw>>

\* handleSetup: a configuration that is not the active one is made active
handleSetup ==
    /\ mpc = "setup" /\ setup # None
    /\ setup' = None
    /\ changed' = (setup # Other /\ setup # conf /\ setup # 0)
    /\ conf' = IF setup = Other THEN conf ELSE setup
    /\ mpc' = "ack"
    /\ UNCHANGED <<polling, uri, ui, requests, exit, event, wg, desc, epc, hw>>

\* the status stage on endpoint 0
Ack ==
    /\ mpc = "ack"
    /\ mpc' = IF ~changed THEN Again ELSE IF exit = "nil" THEN "start" ELSE "stop"
    /\ UNCHANGED <<polling, host, changed, conf, exit, event, wg, desc, epc, hw>>

\* close(hw.exit)
Stop ==
    /\ mpc = "stop"
    /\ exit' = "closed" /\ mpc' = "wait"
    /\ UNCHANGED <<polling, host, changed, conf, event, wg, desc, epc, hw>>

\* mutant: the goroutines are not waited for
WaitNot ==
    /\ mpc = "wait"
    /\ mpc' = "start"
    /\ UNCHANGED <<polling, host, changed, conf, exit, event, wg, desc, epc, hw>>

\* hw.wg.Wait()
Wait ==
    /\ mpc = "wait" /\ wg = 0
    /\ mpc' = "start"
    /\ UNCHANGED <<polling, host, changed, conf, exit, event, wg, desc, epc, hw>>

Chosen == IF conf \in DOMAIN EpOf THEN EpOf[conf] ELSE {}

\* mutant: endpoints are started for a change to the first configuration only
startEndpointsFirst ==
    /\ mpc = "start"
    /\ exit' = "open" /\ event' = (event \/ ~polling)
    /\ wg' = wg + Cardinality(EpOf[1])
    /\ epc' = [e \in Endpoints |-> IF e \in EpOf[1] THEN "init" ELSE epc[e]]
    /\ mpc' = Again /\ desc' = 1
    /\ UNCHANGED <<polling, host, changed, conf, hw>>

\* startEndpoints; ServiceInterrupts makes a new condition first
startEndpoints ==
    /\ mpc = "start"
    /\ exit' = "open" /\ event' = (event \/ ~polling)
    /\ wg' = wg + Cardinality(Chosen)
    /\ epc' = [e \in Endpoints |-> IF e \in Chosen THEN "init" ELSE epc[e]]
    /\ mpc' = Again /\ desc' = conf
    /\ UNCHANGED <<polling, host, changed, conf, hw>>

\* no more setup packets: Start goes back to its loop, ServiceInterrupts wakes
\* the endpoints ...
Served ==
    /\ mpc = "setup" /\ setup = None
    /\ mpc' = IF polling THEN "idle" ELSE "writeback"
    /\ epc' = [e \in Endpoints |-> IF event /\ epc[e] = "sleep" THEN "wait" ELSE epc[e]]
    /\ UNCHANGED <<polling, host, changed, conf, exit, event, wg, desc, hw>>

\* ... and clears what is pending
WriteBack ==
    /\ mpc = "writeback"
    /\ uri' = FALSE /\ ui' = FALSE
    /\ mpc' = "idle"
    /\ UNCHANGED <<polling, setup, requests, changed, conf, exit, event, wg, desc, epc, hw>>

Main == CheckReset \/ CheckSetup \/ handleSetup \/ Ack \/ Stop \/ Wait
        \/ startEndpoints \/ Served \/ WriteBack

-----------------------------------------------------------------------------
(* The goroutine of an endpoint.                                           *)

Goto(e, step) == epc' = [epc EXCEPT ![e] = step]

Opposite(e) == IF e \in Ins THEN Outs ELSE Ins

\* set: a new queue head
set(e, max) == qh' = [qh EXCEPT ![e] = max]

\* mutant: the other direction keeps its type
enableOnly(e, type) ==
    /\ ctrl' = [ctrl EXCEPT ![e] = [on |-> TRUE, type |-> type]]
    /\ stalled' = stalled \ {e}

\* enable: the stall is cleared, and a direction that is not in use has some other
\* type than control
enable(e, type) ==
    /\ ctrl' = [x \in Endpoints |->
                  IF x = e THEN [on |-> TRUE, type |-> type]
                  ELSE IF x \in Opposite(e) /\ ~ctrl[x].on THEN [on |-> FALSE, type |-> "bulk"]
                  ELSE ctrl[x]]
    /\ stalled' = stalled \ {e}

\* endpoint.Init, with the descriptor the goroutine was started for
EpInit(e) ==
    /\ epc[e] = "init"
    /\ set(e, DescOf[desc][e].max) /\ enable(e, DescOf[desc][e].type)
    /\ Goto(e, "prime")
    /\ UNCHANGED <<polling, host, main, wg, desc, primed, active, complete>>

\* the function of an IN endpoint has nothing to send, or an error
EpNothing(e) ==
    /\ epc[e] = "prime" /\ e \in Ins
    /\ stalled' \in {stalled, stalled \cup {e}}
    /\ Goto(e, "select")
    /\ UNCHANGED <<polling, host, main, wg, desc, primed, active, complete, ctrl, qh>>

\* transfer: descriptors are built and the endpoint is primed
EpPrime(e) ==
    /\ epc[e] = "prime"
    /\ primed' = primed \cup {e} /\ active' = active \cup {e}
    /\ Goto(e, "wait")
    /\ UNCHANGED <<polling, host, main, wg, desc, complete, stalled, ctrl, qh>>

\* the completion, or without interrupts the cancellation, ends the wait
EpWait(e) ==
    /\ epc[e] = "wait"
    /\ e \in complete \/ (~event /\ exit = "closed")
    /\ complete' = complete \ {e}
    /\ Goto(e, "check")
    /\ UNCHANGED <<polling, host, main, wg, desc, primed, active, stalled, ctrl, qh>>

\* hw.event.Wait()
EpSleep(e) ==
    /\ epc[e] = "wait" /\ event /\ e \notin complete
    /\ Goto(e, "sleep")
    /\ UNCHANGED <<polling, host, main, wg, desc, hw>>

\* checkDTD: a descriptor that is still active after a cancellation is an error,
\* as is one of the function; errors stall the endpoint
checkDTD(e) ==
    /\ epc[e] = "check" /\ (e \notin active \/ exit = "closed")
    /\ stalled' \in IF e \in active THEN {stalled \cup {e}} ELSE {stalled, stalled \cup {e}}
    /\ active' = active \ {e}
    /\ Goto(e, "select")
    /\ UNCHANGED <<polling, host, main, wg, desc, primed, complete, ctrl, qh>>

\* the cancellation: Flush, wg.Done()
EpSelect(e) ==
    /\ epc[e] = "select"
    /\ IF exit = "closed" THEN primed' = primed \ {e} /\ wg' = wg - 1 /\ Goto(e, "off")
       ELSE Goto(e, "prime") /\ UNCHANGED <<primed, wg>>
    /\ UNCHANGED <<polling, host, main, desc, active, complete, stalled, ctrl, qh>>

Endpoint(e) == EpInit(e) \/ EpNothing(e) \/ EpPrime(e) \/ EpWait(e) \/ EpSleep(e)
               \/ checkDTD(e) \/ EpSelect(e)

-----------------------------------------------------------------------------
(* The controller and the host, which does not abort control transfers.    *)

HwTransfer(e) ==
    /\ e \in primed \ stalled
    /\ primed' = primed \ {e} /\ active' = active \ {e} /\ complete' = complete \cup {e}
    /\ ui' = TRUE
    /\ UNCHANGED <<polling, uri, setup, requests, main, wg, desc, epc, stalled, ctrl, qh>>

HostRequest ==
    /\ requests < MaxRequests /\ requests' = requests + 1
    /\ setup = None /\ mpc # "ack"
    /\ setup' \in {0, Other} \cup DOMAIN EpOf /\ ui' = TRUE
    /\ UNCHANGED <<polling, uri, main, wg, desc, epc, hw>>

HostReset ==
    /\ requests < MaxRequests /\ requests' = requests + 1
    /\ mpc # "ack" /\ ~uri
    /\ uri' = TRUE
    /\ UNCHANGED <<polling, ui, setup, main, wg, desc, epc, hw>>

Next ==
    \/ Main
    \/ \E e \in Endpoints : Endpoint(e) \/ HwTransfer(e)
    \/ HostRequest \/ HostReset

\* Goroutines are scheduled.
Spec == Init /\ [][Next]_vars /\ WF_vars(Main) /\ \A e \in Endpoints : WF_vars(Endpoint(e))

-----------------------------------------------------------------------------

\* Endpoints are started when no goroutine of an earlier configuration is left
\* and the controller has no buffer of it: two goroutines never serve the same
\* queue head, and memory freed by one is not in use.
StoppedBeforeStart ==
    mpc = "start" => /\ \A e \in Endpoints : epc[e] = "off"
                     /\ primed = {} /\ wg = 0

\* Between requests, the endpoints that run are those of the active
\* configuration, whatever resets and changes came before.
ConfiguredRuns ==
    mpc = "idle" /\ conf # 0 => {e \in Endpoints : epc[e] # "off"} = Chosen

\* An endpoint runs with the transfer type and the packet size of its descriptor,
\* whatever configuration used its number before, and while one direction is enabled
\* the other is not left with the type of endpoint 0.
EndpointsTyped ==
    /\ \A e \in Endpoints : epc[e] \notin {"off", "init"} =>
           /\ ctrl[e] = [on |-> TRUE, type |-> DescOf[desc][e].type]
           /\ qh[e] = DescOf[desc][e].max
    /\ \A e \in Endpoints : ctrl[e].on => \A x \in Opposite(e) : ctrl[x].type # "control"

\* An OUT endpoint of the active configuration is given a buffer again and again,
\* after every reset and every change.
Receives ==
    \A e \in Outs, v \in DOMAIN EpOf :
        e \in EpOf[v] => (polling /\ conf = v) ~> (e \in primed \/ conf # v)

\* "EP1-N cancellation signal", "EP-1-N completion synchronization": the endpoints
\* end when they are cancelled.
Cancelled == (exit = "closed") ~> (wg = 0)

=============================================================================
