---------------------------- MODULE UsbTransfer -----------------------------
(***************************************************************************)
(* One endpoint of the NXP USB controller (soc/nxp/usb/endpoint.go): a     *)
(* transfer is a list of transfer descriptors (dTDs) that grows while the  *)
(* controller already works on its head, so that each descriptor that is   *)
(* added may find the endpoint running, or idle and in need of priming.    *)
(*                                                                         *)
(* The controller retires a descriptor and looks at its next pointer in    *)
(* one step, and ignores a descriptor that is not active when it is        *)
(* primed.  As EndpointFunction asks for, the host sends less than         *)
(* expected in the last descriptor only.                                   *)
(***************************************************************************)
EXTENDS Naturals, Sequences, SequencesExt

CONSTANTS
    DtdLength,      \* bytes of one descriptor: DTD_PAGES * DTD_PAGE_SIZE
    TransferSizes,  \* lengths of buffers
    MaxTransfers    \* bound: transfers

VARIABLES
    upc, dir,       \* the step of transfer; "IN" or "OUT"
    total, done,    \* transferSize and i
    dtds,           \* the descriptors: [size, rest, status, next]
    checked, dtdSize,   \* descriptors seen by checkDTD, and its result
    transferred,    \* of the last transfer: "ok" or "error"
    cancelled,      \* hw.exit is closed
    prime, stat, dtdComplete,   \* the bits of the endpoint in the controller
    next, current,  \* the queue head: next and current descriptor
    wire,           \* offsets into the buffer of the bytes that were moved
    transfers

driver == <<upc, dir, total, done, checked, dtdSize, transferred>>
controller == <<stat, current, wire>>
vars == <<driver, dtds, cancelled, prime, dtdComplete, next, controller, transfers>>

Init ==
    /\ upc = "idle" /\ dir = "IN" /\ total = 0 /\ done = 0 /\ dtds = << >>
    /\ checked = 0 /\ dtdSize = 0 /\ transferred = "ok" /\ cancelled = FALSE
    /\ prime = FALSE /\ stat = FALSE /\ dtdComplete = FALSE
    /\ next = 0 /\ current = 0 /\ wire = << >> /\ transfers = 0

-----------------------------------------------------------------------------
(* transfer                                                                *)

Begin ==
    /\ upc = "idle" /\ transfers < MaxTransfers /\ ~cancelled
    /\ transfers' = transfers + 1
    /\ dir' \in {"IN", "OUT"} /\ total' \in TransferSizes
    /\ done' = 0 /\ dtds' = << >> /\ checked' = 0 /\ dtdSize' = 0 /\ wire' = << >>
    /\ upc' = "build"
    /\ UNCHANGED <<transferred, cancelled, prime, dtdComplete, next, stat, current>>

\* buildDTD, and the next pointer of the previous descriptor
buildDTD ==
    /\ upc = "build"
    /\ LET n == IF done + DtdLength > total THEN total - done ELSE DtdLength
           dtd == [size |-> n, rest |-> n, status |-> "active", next |-> FALSE]
           linked == [k \in DOMAIN dtds |-> [dtds[k] EXCEPT !.next = TRUE]]
       IN dtds' = Append(linked, dtd)
    /\ done' = done + DtdLength
    /\ upc' = IF dtds = << >> THEN "prime" ELSE "primed?"
    /\ UNCHANGED <<dir, total, checked, dtdSize, transferred, cancelled, prime, dtdComplete, next,
                   controller, transfers>>

\* loop condition: add = i < transferSize
More == IF done < total THEN "build" ELSE "priming"

\* the endpoint is primed again only if it is not being primed ...
ReadPrime ==
    /\ upc = "primed?"
    /\ upc' = IF prime THEN More ELSE "running?"
    /\ UNCHANGED <<dir, total, done, checked, dtdSize, transferred, dtds, cancelled, prime, dtdComplete,
                   next, controller, transfers>>

\* ... and not running
ReadStat ==
    /\ upc = "running?"
    /\ upc' = IF stat THEN More ELSE "prime"
    /\ UNCHANGED <<dir, total, done, checked, dtdSize, transferred, dtds, cancelled, prime, dtdComplete,
                   next, controller, transfers>>

\* clear, nextDTD and the prime bit
Prime ==
    /\ upc = "prime"
    /\ next' = Len(dtds) /\ prime' = TRUE
    /\ upc' = More
    /\ UNCHANGED <<dir, total, done, checked, dtdSize, transferred, dtds, cancelled, dtdComplete,
                   controller, transfers>>

\* wait for priming completion
Primed ==
    /\ upc = "priming" /\ ~prime
    /\ upc' = "wait"
    /\ UNCHANGED <<dir, total, done, checked, dtdSize, transferred, dtds, cancelled, prime, dtdComplete,
                   next, controller, transfers>>

\* wait for completion, of any descriptor, and clear it
Wait ==
    /\ upc = "wait" /\ (dtdComplete \/ cancelled)
    /\ dtdComplete' = FALSE
    /\ upc' = "check"
    /\ UNCHANGED <<dir, total, done, checked, dtdSize, transferred, dtds, cancelled, prime, next,
                   controller, transfers>>

\* mutant: descriptors that are still active are taken as they are
checkDTDEarly ==
    /\ upc = "check"
    /\ LET dtd == dtds[checked + 1] IN
       /\ checked' = checked + 1
       /\ IF dtd.status = "error" \/ (dir = "IN" /\ dtd.rest > 0)
          THEN dtdSize' = 0 /\ transferred' = "error" /\ upc' = "returned"
          ELSE /\ dtdSize' = dtdSize + dtd.size - dtd.rest /\ transferred' = "ok"
               /\ upc' = IF checked' = Len(dtds) THEN "returned" ELSE "check"
    /\ UNCHANGED <<dir, total, done, dtds, cancelled, prime, dtdComplete, next, controller, transfers>>

\* checkDTD, for one descriptor: an error status, a descriptor that is still
\* active after a cancellation, and a partial IN transfer are errors
checkDTD ==
    /\ upc = "check"
    /\ LET dtd == dtds[checked + 1] IN
       /\ dtd.status # "active" \/ cancelled
       /\ checked' = checked + 1
       /\ IF dtd.status # "done" \/ (dir = "IN" /\ dtd.rest > 0)
          THEN dtdSize' = 0 /\ transferred' = "error" /\ upc' = "returned"
          ELSE /\ dtdSize' = dtdSize + dtd.size - dtd.rest /\ transferred' = "ok"
               /\ upc' = IF checked' = Len(dtds) THEN "returned" ELSE "check"
    /\ UNCHANGED <<dir, total, done, dtds, cancelled, prime, dtdComplete, next, controller, transfers>>

\* the deferred calls free the descriptors and the buffer; endpoint.Start stalls
\* the endpoint after an error and flushes it after a cancellation
Return ==
    /\ upc = "returned"
    /\ upc' = "idle"
    /\ IF transferred = "error" THEN prime' = FALSE /\ stat' = FALSE ELSE UNCHANGED <<prime, stat>>
    /\ UNCHANGED <<dir, total, done, checked, dtdSize, transferred, dtds, cancelled, dtdComplete, next,
                   current, wire, transfers>>

Cancel ==
    /\ ~cancelled /\ cancelled' = TRUE
    /\ UNCHANGED <<driver, dtds, prime, dtdComplete, next, controller, transfers>>

-----------------------------------------------------------------------------
(* The controller.                                                         *)

HwPrime ==
    /\ prime /\ prime' = FALSE
    /\ IF dtds[next].status = "active" THEN stat' = TRUE /\ current' = next
       ELSE UNCHANGED <<stat, current>>
    /\ UNCHANGED <<driver, dtds, cancelled, dtdComplete, next, wire, transfers>>

\* the current descriptor is executed, with n bytes, or ends with an error
HwTransfer(n) ==
    /\ stat
    /\ LET dtd == dtds[current]
           last == current * DtdLength >= total
           base == (current - 1) * DtdLength
       IN /\ n = dtd.size \/ (dir = "OUT" /\ last /\ n < dtd.size)
          /\ dtds' = [dtds EXCEPT ![current].rest = dtd.size - n, ![current].status = "done"]
          /\ wire' = wire \o [k \in 1 .. n |-> base + k - 1]
          /\ IF dtd.next THEN current' = current + 1 /\ UNCHANGED stat
             ELSE stat' = FALSE /\ UNCHANGED current
    /\ dtdComplete' = TRUE
    /\ UNCHANGED <<driver, cancelled, prime, next, transfers>>

HwError ==
    /\ stat
    /\ dtds' = [dtds EXCEPT ![current].status = "error"]
    /\ stat' = FALSE /\ dtdComplete' = TRUE
    /\ UNCHANGED <<driver, cancelled, prime, next, current, wire, transfers>>

Next ==
    \/ Begin \/ buildDTD \/ ReadPrime \/ ReadStat \/ Prime \/ Primed \/ Wait \/ checkDTD \/ Return
    \/ Cancel \/ HwPrime \/ HwError
    \/ \E n \in 0 .. DtdLength : HwTransfer(n)

Spec == Init /\ [][Next]_vars

-----------------------------------------------------------------------------

\* A transfer that returns without error moved the bytes of its buffer, in order,
\* each once: all of them to the host, or those that the host sent.  The
\* controller is done with the memory that is then freed.
TransferExact ==
    upc = "returned" /\ transferred = "ok" =>
        /\ wire = [k \in 1 .. dtdSize |-> k - 1]
        /\ dir = "IN" => dtdSize = total
        /\ ~prime /\ ~stat

-----------------------------------------------------------------------------
(***************************************************************************)
(* Control requests of the NXP USB driver in device mode: the descriptors  *)
(* that an application puts together (soc/nxp/usb/descriptor.go), and how  *)
(* setup packets are answered (soc/nxp/usb/setup.go) on endpoint 0.        *)
(*                                                                         *)
(* The class-specific handler answers a request, and is then done with it, *)
(* or leaves it alone.  An interface with an association descriptor comes  *)
(* before any alternate setting.  The host completes each control transfer *)
(* that it begins, resets a device when one fails, and asks for whole      *)
(* device qualifiers.                                                      *)
(***************************************************************************)

CONSTANTS
    MaxConfigurations, MaxInterfaces, MaxStrings,   \* bounds of the device
    StringLengths,              \* bytes of strings
    ReadLengths,                \* wLength of GET_DESCRIPTOR
    MaxSetups                   \* bound: setup packets and resets

VARIABLES
    confs, strings, num,    \* Device: Configurations, Strings, NumConfigurations
    configured, alt, address,   \* ConfigurationValue, AlternateSetting, DEVICEADDR
    cpc, request, answers,  \* handleSetup: its step, the packet, what went to the host
    broken,                 \* a transfer on endpoint 0 failed
    hostConf, hostAddress,  \* what the host knows of the device
    setups

device == <<confs, strings, num>>
controlVars == <<device, configured, alt, address, cpc, request, answers, broken, hostConf, hostAddress, setups>>

Ack == [kind |-> "ack"]
Stall == [kind |-> "stall"]
Data(what, len) == [kind |-> "data", what |-> what, len |-> len]

ControlInit ==
    /\ confs = << >> /\ strings = << >> /\ num = 0
    /\ configured = 0 /\ alt = 0 /\ address = 0
    /\ cpc = "setup" /\ request = [kind |-> "none"] /\ answers = << >> /\ broken = FALSE
    /\ hostConf = 0 /\ hostAddress = 0 /\ setups = 0

-----------------------------------------------------------------------------
(* The device is put together.                                             *)

\* lengths of the descriptors
DEVICE == 18
CONFIGURATION == 9
INTERFACE == 9
INTERFACE_ASSOCIATION == 8
ENDPOINT == 7
DEVICE_QUALIFIER == 10

AddConfiguration ==
    /\ cpc = "setup" /\ Len(confs) < MaxConfigurations
    /\ confs' = Append(confs, [interfaces |-> << >>, n |-> 0]) /\ num' = num + 1
    /\ UNCHANGED <<strings, configured, alt, address, cpc, request, answers, broken, hostConf,
                   hostAddress, setups>>

\* mutant: an alternate setting is counted as an interface
AddInterfaceCounts(c, iad, setting, endpoints) ==
    LET d == confs[c] IN
    /\ cpc = "setup" /\ Len(d.interfaces) < MaxInterfaces
    /\ iad => setting = 0 /\ \A k \in DOMAIN d.interfaces : d.interfaces[k].setting = 0
    /\ confs' = [confs EXCEPT ![c] =
          [interfaces |-> Append(d.interfaces, [iad |-> iad, first |-> 0, setting |-> setting,
                                                endpoints |-> endpoints, number |-> d.n]),
           n |-> d.n + 1]]
    /\ UNCHANGED <<strings, num, configured, alt, address, cpc, request, answers, broken, hostConf,
                   hostAddress, setups>>

\* alternate settings have the number of the interface before them
AddInterface(c, iad, setting, endpoints) ==
    LET d == confs[c]
        number == IF setting = 0 THEN d.n ELSE IF d.n > 0 THEN d.n - 1 ELSE 0
    IN
    /\ cpc = "setup" /\ Len(d.interfaces) < MaxInterfaces
    /\ iad => setting = 0 /\ \A k \in DOMAIN d.interfaces : d.interfaces[k].setting = 0
    /\ confs' = [confs EXCEPT ![c] =
          [interfaces |-> Append(d.interfaces, [iad |-> iad, first |-> 0, setting |-> setting,
                                                endpoints |-> endpoints, number |-> number]),
           n |-> IF setting = 0 THEN d.n + 1 ELSE d.n]]
    /\ UNCHANGED <<strings, num, configured, alt, address, cpc, request, answers, broken, hostConf,
                   hostAddress, setups>>

\* setStringDescriptor: the length is an uint8
setStringDescriptor(n) ==
    /\ cpc = "setup" /\ Len(strings) < MaxStrings
    /\ strings' = Append(strings, [length |-> (2 + n) % 256, bytes |-> 2 + n])
    /\ UNCHANGED <<confs, num, configured, alt, address, cpc, request, answers, broken, hostConf,
                   hostAddress, setups>>

Start ==
    /\ cpc = "setup" /\ cpc' = "idle"
    /\ UNCHANGED <<device, configured, alt, address, request, answers, broken, hostConf, hostAddress, setups>>

-----------------------------------------------------------------------------
(* Setup packets.                                                          *)

trim(len, wLength) == IF wLength < len THEN wLength ELSE len

\* Device.Configuration: association descriptors get the first interface they
\* are found at, once
WithFirst(d) ==
    [d EXCEPT !.interfaces =
        [k \in DOMAIN d.interfaces |->
            IF d.interfaces[k].iad /\ d.interfaces[k].first = 0
            THEN [d.interfaces[k] EXCEPT !.first = k - 1] ELSE d.interfaces[k]]]

TotalLength(d) ==
    FoldLeft(LAMBDA len, i : len + (IF i.iad THEN INTERFACE_ASSOCIATION ELSE 0) + INTERFACE
                                 + i.endpoints * ENDPOINT,
             CONFIGURATION, d.interfaces)

\* mutant: wLength is not looked at
ConfigurationWhole(index, wLength) ==
    IF index + 1 > Len(confs) THEN << >>
    ELSE LET d == WithFirst(confs[index + 1]) IN << Data(d, TotalLength(d)) >>

\* an index that does not exist is not answered
Configuration(index, wLength) ==
    IF index + 1 > Len(confs) THEN << >>
    ELSE LET d == WithFirst(confs[index + 1]) IN << Data(d, trim(TotalLength(d), wLength)) >>

getDescriptor(r) ==
    CASE r.type = "DEVICE" -> << Data(num, trim(DEVICE, r.length)) >>
      [] r.type \in {"CONFIGURATION", "OTHER_SPEED_CONFIGURATION"} -> Configuration(r.index, r.length)
      [] r.type = "STRING" /\ r.index + 1 <= Len(strings) ->
            << Data(strings[r.index + 1], trim(strings[r.index + 1].bytes, r.length)) >>
      [] r.type = "STRING" /\ r.index + 1 > Len(strings) -> << Stall >>
      [] r.type = "DEVICE_QUALIFIER" -> << Data(num, DEVICE_QUALIFIER) >>
      [] OTHER -> << Stall >>

\* what each standard request sends
Standard(r) ==
    CASE r.kind = "GET_STATUS" -> << Data(0, 2) >>
      [] r.kind = "CLEAR_FEATURE" -> IF r.value = "ENDPOINT_HALT" THEN << Ack >> ELSE << Stall >>
      [] r.kind = "GET_DESCRIPTOR" -> getDescriptor(r)
      [] r.kind = "GET_CONFIGURATION" -> << Data(configured, 1) >>
      [] r.kind = "GET_INTERFACE" -> << Data(alt, 1) >>
      [] r.kind \in {"SET_ADDRESS", "SET_CONFIGURATION", "SET_INTERFACE",
                     "SET_ETHERNET_PACKET_FILTER"} -> << Ack >>
      [] OTHER -> << Stall >>

Requests ==
         [kind : {"GET_STATUS", "GET_CONFIGURATION", "GET_INTERFACE", "SET_ETHERNET_PACKET_FILTER",
                  "UNSUPPORTED"}]
    \cup [kind : {"CLEAR_FEATURE"}, value : {"ENDPOINT_HALT", "TEST_MODE"}]
    \cup [kind : {"SET_ADDRESS"}, value : {5}]
    \cup [kind : {"SET_CONFIGURATION", "SET_INTERFACE"}, value : 0 .. 2]
    \cup [kind : {"GET_DESCRIPTOR"}, length : ReadLengths, index : 0 .. 1,
          type : {"DEVICE", "CONFIGURATION", "OTHER_SPEED_CONFIGURATION", "STRING",
                  "DEVICE_QUALIFIER", "UNSUPPORTED"}]

HostSetup(r) ==
    /\ cpc = "idle" /\ ~broken /\ setups < MaxSetups /\ setups' = setups + 1
    /\ request' = r /\ answers' = << >>
    /\ cpc' = "class"
    /\ UNCHANGED <<device, configured, alt, address, broken, hostConf, hostAddress>>

\* Device.Setup: an error stalls, a buffer or an acknowledgement is sent
ClassRequest(res) ==
    /\ cpc = "class"
    /\ answers' = IF res = << >> THEN answers ELSE res
    /\ cpc' = IF res = << >> THEN "standard" ELSE "idle"
    /\ UNCHANGED <<device, configured, alt, address, request, broken, hostConf, hostAddress, setups>>

\* the standard requests, whose transfer may fail
handleSetup(sent) ==
    /\ cpc = "standard"
    /\ configured' = IF request.kind = "SET_CONFIGURATION" THEN request.value ELSE configured
    /\ alt' = IF request.kind = "SET_INTERFACE" THEN request.value ELSE alt
    /\ confs' = IF request.kind = "GET_DESCRIPTOR"
                   /\ request.type \in {"CONFIGURATION", "OTHER_SPEED_CONFIGURATION"}
                   /\ request.index + 1 <= Len(confs)
                THEN [confs EXCEPT ![request.index + 1] = WithFirst(@)] ELSE confs
    /\ answers' = IF sent THEN answers \o Standard(request) ELSE answers
    /\ broken' = ~sent
    /\ address' = IF sent /\ request.kind = "SET_ADDRESS" THEN request.value ELSE address
    /\ hostConf' = IF sent /\ request.kind = "SET_CONFIGURATION" THEN request.value ELSE hostConf
    /\ hostAddress' = IF sent /\ request.kind = "SET_ADDRESS" THEN request.value ELSE hostAddress
    /\ cpc' = "idle"
    /\ UNCHANGED <<strings, num, request, setups>>

\* mutant: the configuration stays active
ResetKeeps ==
    /\ cpc = "idle" /\ setups < MaxSetups /\ setups' = setups + 1
    /\ address' = 0 /\ hostConf' = 0 /\ hostAddress' = 0 /\ broken' = FALSE
    /\ request' = [kind |-> "none"] /\ answers' = << >>
    /\ UNCHANGED <<device, configured, alt, cpc>>

\* Start, on a bus reset; the controller clears its address
Reset ==
    /\ cpc = "idle" /\ setups < MaxSetups /\ setups' = setups + 1
    /\ configured' = 0 /\ address' = 0 /\ hostConf' = 0 /\ hostAddress' = 0 /\ broken' = FALSE
    /\ request' = [kind |-> "none"] /\ answers' = << >>
    /\ UNCHANGED <<device, alt, cpc>>

ControlNext ==
    \/ AddConfiguration \/ Start \/ Reset
    \/ \E c \in DOMAIN confs, iad \in BOOLEAN, s \in 0 .. 1 : AddInterface(c, iad, s, 1)
    \/ \E n \in StringLengths : setStringDescriptor(n)
    \/ \E r \in Requests : HostSetup(r)
    \/ \E res \in {<< >>, << Ack >>, << Stall >>, << [kind |-> "class"] >>} : ClassRequest(res)
    \/ \E sent \in BOOLEAN : handleSetup(sent)

ControlSpec == ControlInit /\ [][ControlNext]_controlVars

-----------------------------------------------------------------------------

\* Every request is answered once, but for one that asks for a configuration that
\* does not exist.
AnsweredOnce ==
    cpc = "idle" /\ ~broken /\ request.kind # "none" =>
        \/ Len(answers) = 1
        \/ /\ answers = << >> /\ request.kind = "GET_DESCRIPTOR"
           /\ request.type \in {"CONFIGURATION", "OTHER_SPEED_CONFIGURATION"}
           /\ request.index >= Len(confs)

\* A descriptor is never longer than asked for.  A configuration describes itself:
\* its interfaces are counted, alternate settings aside, and an association points
\* at the interface that follows it, in the first answer and in all later ones.
DescriptorsRight ==
    cpc = "idle" /\ request.kind = "GET_DESCRIPTOR" /\ answers # << >> /\ answers[1].kind = "data" =>
        LET d == answers[1] IN
        /\ d.len <= request.length
        /\ request.type = "STRING" => d.what.length = d.what.bytes
        /\ request.type = "CONFIGURATION" =>
              /\ d.what.n = Len(SelectSeq(d.what.interfaces, LAMBDA i : i.setting = 0))
              /\ \A k \in DOMAIN d.what.interfaces :
                    d.what.interfaces[k].iad => d.what.interfaces[k].first = d.what.interfaces[k].number

\* The host and the device agree on the configuration and the address, after
\* whatever requests and resets.
HostAgrees == ~broken => hostConf = configured /\ hostAddress = address

=============================================================================
