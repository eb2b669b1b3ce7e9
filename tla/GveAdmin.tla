------------------------------ MODULE GveAdmin ------------------------------
(***************************************************************************)
(* Bring-up of the Google Virtual NIC (kvm/gvnic/gve.go Init): the admin   *)
(* queue (admin.go) and the six commands Init pushes through it, each with *)
(* DMA buffers it hands to the device, a one second timeout and a status.  *)
(*                                                                         *)
(* Init may fail at any command and be called again.  A buffer is named by *)
(* its use and the call of Init that reserved it.                          *)
(***************************************************************************)
EXTENDS Integers, Sequences, FiniteSets

CONSTANTS
    Revision,       \* PCI revision of the device
    Entries,        \* adminQueueSize / descSize, the commands the queue holds
    AdminQueueSize, \* adminQueueSize
    MaxAdminInits        \* bound: calls of Init

\* The commands, each with the buffers it keeps and the ones that are released
\* when its helper returns, whatever the result.
Describe == [op |-> "DESCRIBE_DEVICE", keep |-> {}, temp |-> {"info"}]
Resources == [op |-> "CONFIGURE_DEVICE_RESOURCES", keep |-> {"counters", "irqs"}, temp |-> {}]
PageList(qpl, list) == [op |-> "REGISTER_PAGE_LIST", keep |-> {qpl}, temp |-> {list}]
CreateTx == [op |-> "CREATE_TX_QUEUE", keep |-> {"txres", "txdesc"}, temp |-> {}]
CreateRx == [op |-> "CREATE_RX_QUEUE", keep |-> {"rxres", "rxdesc", "rxdata"}, temp |-> {}]

\* in the order Init pushes them
Cmds == << Describe, Resources, PageList("txqpl", "txlist"), CreateTx,
           PageList("rxqpl", "rxlist"), CreateRx >>

Slots == 0 .. Entries - 1
UNSET == "UNSET"
PASSED == "PASSED"
FAILED == "FAILED"

VARIABLES
    adminInits,      \* calls of Init so far
    step,       \* the command Init is at
    adminPc,         \* where Init is
    adminCnt,        \* adminQueue.cnt
    ring,       \* the admin queue: the command in each entry and its status
    dma,        \* buffers reserved from the region
    regs,       \* admin queue registers: base address and length
    adminDoorbell,   \* admin queue doorbell
    events,     \* admin queue event counter
    using,      \* buffers of the commands the device has accepted or may read
    late        \* Init has given up on a command the device has not completed

driver == <<adminInits, step, adminPc, adminCnt, dma, regs, adminDoorbell>>
device == <<events, using>>
vars == <<driver, ring, device, late>>

Named(S) == {<<b, adminInits>> : b \in S}
Cmd == Cmds[step]
\* an entry of a queue in fresh memory, which is not cleared
Free(junk) == [op |-> "none", status |-> junk]

Init ==
    /\ adminInits = 0 /\ step = 1 /\ adminPc = "down"
    /\ adminCnt = 0 /\ ring = [s \in Slots |-> Free(UNSET)]
    /\ dma = {} /\ regs = [base |-> 0, len |-> 0]
    /\ adminDoorbell = 0 /\ events = 0 /\ using = {} /\ late = FALSE

\* the type switch of GVE.set: an untyped constant is an int, which is neither
\* of the two types it writes
set(r, f, v, type) == IF type \in {"uint32", "uint16"} THEN [r EXCEPT ![f] = v] ELSE r

\* the device is reset and a new admin queue installed: initAdminQueue
Reset ==
    /\ adminPc \in {"down", "failed", "up"}
    /\ adminInits < MaxAdminInits
    /\ adminInits' = adminInits + 1
    /\ step' = 1 /\ adminPc' = "push"
    /\ adminCnt' = 0
    /\ dma' = dma \cup {<<"aq", adminInits'>>}
    /\ regs' = IF Revision < 1 THEN set(regs, "base", adminInits', "uint32")
               ELSE set(set(regs, "len", AdminQueueSize, "int"), "base", adminInits', "uint32")
    /\ \E junk \in {UNSET, PASSED} : ring' = [s \in Slots |-> Free(junk)]
    /\ adminDoorbell' = 0 /\ events' = 0
    /\ using' = {<<"aq", adminInits'>>} /\ late' = FALSE

\* mutant: the page list is released as soon as the command is written
PushReleases ==
    /\ adminPc = "push"
    /\ dma' = dma \cup Named(Cmd.keep)
    /\ ring' = [ring EXCEPT ![adminCnt] = [op |-> Cmd.op, status |-> UNSET]]
    /\ adminCnt' = (adminCnt + 1) % Entries
    /\ adminDoorbell' = adminCnt'
    /\ using' = using \cup Named(Cmd.keep \cup Cmd.temp)
    /\ adminPc' = "wait"
    /\ UNCHANGED <<adminInits, step, regs, events, late>>

\* the helper reserves the buffers; Push writes the command with a clear
\* status, bumps the counter and rings the doorbell
Push ==
    /\ adminPc = "push"
    /\ dma' = dma \cup Named(Cmd.keep \cup Cmd.temp)
    /\ ring' = [ring EXCEPT ![adminCnt] = [op |-> Cmd.op, status |-> UNSET]]
    /\ adminCnt' = (adminCnt + 1) % Entries
    /\ adminDoorbell' = adminCnt'
    /\ using' = using \cup Named(Cmd.keep \cup Cmd.temp)
    /\ adminPc' = "wait"
    /\ UNCHANGED <<adminInits, step, regs, events, late>>

\* Push has seen the event counter reach its own
WaitFor ==
    /\ adminPc = "wait"
    /\ events = adminCnt
    /\ adminPc' = "status"
    /\ UNCHANGED <<adminInits, step, adminCnt, ring, dma, regs, adminDoorbell, events, using, late>>

\* the helper returns: its temporary buffer is released, and Init goes on to
\* the next command or returns the error
Return(ok) ==
    /\ dma' = dma \ Named(Cmd.temp)
    /\ IF ok THEN IF step = Len(Cmds) THEN adminPc' = "up" /\ step' = step
                  ELSE adminPc' = "push" /\ step' = step + 1
       ELSE adminPc' = "failed" /\ step' = step

\* CommandTimeout
Timeout ==
    /\ adminPc = "wait" /\ events # adminCnt
    /\ Return(FALSE)
    /\ late' = TRUE
    /\ UNCHANGED <<adminInits, adminCnt, ring, regs, adminDoorbell, events, using>>

\* Push reads the status of its entry
CheckStatus ==
    /\ adminPc = "status"
    /\ Return(ring[(adminCnt - 1) % Entries].status = PASSED)
    /\ UNCHANGED <<adminInits, adminCnt, ring, regs, adminDoorbell, events, using, late>>

\* the device executes the next command: it writes the status and counts it
Execute ==
    /\ events # adminDoorbell
    /\ \E status \in {PASSED, FAILED} :
         /\ ring' = [ring EXCEPT ![events].status = status]
         /\ using' = using \ Named(Cmd.temp \cup (IF status = PASSED THEN {} ELSE Cmd.keep))
    /\ events' = (events + 1) % Entries
    /\ late' = FALSE
    /\ UNCHANGED driver

Next == Reset \/ Push \/ WaitFor \/ Timeout \/ CheckStatus \/ Execute

\* Init runs until it returns; the device need not answer
Spec == Init /\ [][Next]_vars /\ WF_vars(Push \/ WaitFor \/ Timeout \/ CheckStatus)

-----------------------------------------------------------------------------

\* Init returns without error only if the device has executed all six commands,
\* in order, and passed each of them; unless a command has timed out, the device
\* is never left with the address of memory that went back to the region.
UpMeansConfigured ==
    /\ adminPc = "up" =>
         /\ events = adminCnt
         /\ \A i \in 1 .. Len(Cmds) : ring[i - 1] = [op |-> Cmds[i].op, status |-> PASSED]
    /\ ~late => using \subseteq dma

=============================================================================
