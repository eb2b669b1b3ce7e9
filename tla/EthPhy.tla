------------------------------- MODULE EthPhy -------------------------------
(***************************************************************************)
(* The management port of the LAN969x board: the MIIM controller, through  *)
(* which PHY registers are read and written, the drivers of the LAN8840    *)
(* and LAN8804 PHYs, and enablePort, which sets the MAC to the speed the   *)
(* PHY has negotiated.  One goroutine brings the port up and calls the     *)
(* driver; cables are pulled and plugged meanwhile.                        *)
(*                                                                         *)
(* A driver function is a sequence of register accesses, taken off todo,   *)
(* and a decision on the values got.  Registers hold a set of bits, in     *)
(* extended pages of names, and a set of modes <<speed, full duplex>>.     *)
(***************************************************************************)
EXTENDS Naturals, Sequences, TLC

CONSTANTS
    Local, Partners,    \* modes advertised here, and by each link partner there is
    Extended,           \* registers of the LAN8804's extended pages
    MaxOps, MaxPulls    \* bounds: calls, times the cable is pulled

VARIABLES
    kind,                       \* the driver
    op, todo, got, at,          \* the call: function, accesses to do, values got, step
    seen, fresh, ret,           \* link states since the call, results it did not change since, result
    pending, current, data,     \* MIIM: command FIFO, command on the bus, MII_DATA
    job, mac, ops,              \* enablePort: step; speed of the MAC
    link, latched, resetting, partner, pulls, ext   \* the PHY

call == <<op, todo, got, at, seen, fresh, ret>>
miim == <<pending, current, data>>
phy == <<link, latched, resetting, partner, pulls, ext>>
vars == <<kind, call, miim, job, mac, ops, phy>>

None == "none"
NoMode == <<0, FALSE>>
Gigabit == {m \in Local \cup UNION Partners : m[1] = 1000}
R(r) == [reg |-> r, write |-> FALSE, bits |-> {}]
W(r, bits) == [reg |-> r, write |-> TRUE, bits |-> bits]

\* the modes by priority, and the mode two partners agree on
Better(m, k) == m[1] > k[1] \/ (m[1] = k[1] /\ m[2] /\ ~k[2])
Agreed(common) == CHOOSE m \in common : \A k \in common \ {m} : Better(m, k)
mode == Agreed(Local \cap partner)

Init ==
    /\ kind \in {"lan8840", "lan8804"}
    /\ op = "idle" /\ todo = << >> /\ got = << >> /\ at = "issue"
    /\ seen = {} /\ fresh = {} /\ ret = [op |-> "idle"]
    /\ pending = << >> /\ current = << >> /\ data = [bits |-> {}, modes |-> {}, ok |-> TRUE]
    /\ job = None /\ mac = 0 /\ ops = 0
    /\ partner \in Partners /\ link = FALSE /\ latched = TRUE /\ resetting = FALSE
    /\ pulls = 0
    /\ ext = [function |-> {"address"}, register |-> CHOOSE a \in Extended : TRUE, misplaced |-> FALSE]

-----------------------------------------------------------------------------
(* MIIM: MDIO22 and mdio.                                                  *)

\* the command FIFO is empty, and the command is written to it
Issue ==
    /\ todo # << >> /\ at = "issue" /\ pending = << >>
    /\ pending' = << Head(todo) >> /\ at' = "wait"
    /\ UNCHANGED <<kind, op, todo, got, seen, fresh, ret, current, data, job, mac, ops, phy>>

Finish(v) ==
    /\ got' = Append(got, v) /\ todo' = Tail(todo)
    /\ UNCHANGED <<op, seen, fresh, ret>>

Return(r) ==
    /\ ret' = r @@ [op |-> op, seen |-> seen]
    /\ op' = "idle" /\ todo' = << >> /\ got' = << >> /\ seen' = {}
    /\ fresh' = {x \in {"ret"} : "call" \in fresh} \cup (fresh \cap {"mac"})

\* mutant: the wait is for the read to have left the FIFO
TransactedEarly(write) == pending = << >>

\* STATUS_PENDING_WR for writes, STATUS_BUSY for reads
Transacted(write) == pending = << >> /\ (write \/ current = << >>)

\* the wait after the command, and the data of a read
Complete ==
    /\ at = "wait" /\ Transacted(Head(todo).write)
    /\ at' = "issue"
    /\ IF Head(todo).write \/ data.ok THEN Finish([bits |-> data.bits, modes |-> data.modes]) ELSE Return([ok |-> FALSE])
    /\ UNCHANGED <<kind, pending, current, data, job, mac, ops, phy>>

\* a wait times out: "command FIFO", "write" or "read timeout"
Timeout ==
    /\ todo # << >>
    /\ IF at = "wait" THEN ~Transacted(Head(todo).write) ELSE pending # << >>
    /\ at' = "issue" /\ Return([ok |-> FALSE])
    /\ UNCHANGED <<kind, pending, current, data, job, mac, ops, phy>>

-----------------------------------------------------------------------------
(* The drivers.                                                            *)

Call(f, accesses) ==
    /\ op = "idle"
    /\ op' = f /\ todo' = accesses
    /\ seen' = {link} /\ fresh' = (fresh \cup {"call"}) \ {"ret"}
    /\ ret' = [op |-> "idle"] /\ UNCHANGED <<got, at>>

\* mutant: the latched link bit is read once
LinkAccessesOnce == << R("status") >>

\* link: "the first read clears stale link state"
LinkAccesses == << R("status"), R("status") >>

\* mutant: the function is not switched to data
SelectExtendedOnly(a) == << W("epctrl", {"address"}), W("epdata", {a}) >>

SelectExtended(a) == << W("epctrl", {"address"}), W("epdata", {a}), W("epctrl", {"data"}) >>

Calls ==
    /\ job = None /\ op = "idle" /\ ops < MaxOps /\ ops' = ops + 1
    /\ \/ Call("Link", LinkAccesses)
       \/ Call("Status", LinkAccesses)
       \/ Call("Reset", << W("control", {"reset"}), R("control") >>)
       \/ Call("Negotiate", << R("control") >>)
       \/ /\ kind = "lan8804"
          /\ \E a \in Extended : \/ Call(a, Append(SelectExtended(a), R("epdata")))
                                 \/ Call("Write", Append(SelectExtended(a), W("epdata", {a})))
    /\ UNCHANGED <<kind, miim, job, mac, phy>>

Decides(f) == op = f /\ todo = << >> /\ got # << >>
decided == <<kind, at, miim, job, mac, ops, phy>>
Last == got[Len(got)]
More(accesses) == todo' = accesses /\ UNCHANGED <<op, got, seen, fresh, ret>>

\* the wait for the reset bit ends, goes on, or is over its deadline
Reset ==
    /\ Decides("Reset")
    /\ \/ /\ "reset" \in Last.bits
          /\ todo' = << R("control") >> /\ got' = << >>
          /\ UNCHANGED <<op, seen, fresh, ret>>
       \/ Return([ok |-> "reset" \notin Last.bits])
    /\ UNCHANGED decided

Negotiate ==
    /\ Decides("Negotiate")
    /\ IF Len(got) = 1
       THEN More(<< W("control", Last.bits \cup {"enable", "restart"}) >>)
       ELSE Return([ok |-> TRUE])
    /\ UNCHANGED decided

Link ==
    /\ Decides("Link") /\ Return([ok |-> TRUE, link |-> "link" \in Last.bits])
    /\ UNCHANGED decided

\* ReadExtendedRegister, a call named for the register, and WriteExtendedRegister
ReadExtended(a) == Decides(a) /\ Return([ok |-> TRUE, val |-> Last.bits]) /\ UNCHANGED decided
WriteExtended == Decides("Write") /\ Return([ok |-> TRUE]) /\ UNCHANGED decided

Up(m) == [ok |-> TRUE, link |-> TRUE, mode |-> m]
Down == [ok |-> TRUE, link |-> FALSE, mode |-> NoMode]
Basic == got[Len(LinkAccesses)].bits

\* the switch on the modes: the first of the list that is in the set
First(list, modes) == SelectSeq(list, LAMBDA m : m \in modes)
GigabitModes == << <<1000, TRUE>>, <<1000, FALSE>> >>

\* mutant: half duplex is looked for first
OtherModesHalf == << <<100, FALSE>>, <<100, TRUE>>, <<10, FALSE>>, <<10, TRUE>> >>

OtherModes == << <<100, TRUE>>, <<100, FALSE>>, <<10, TRUE>>, <<10, FALSE>> >>

\* Status of the LAN8840: link and completion, then gigabit modes, then others
Status8840 ==
    /\ kind = "lan8840" /\ Decides("Status")
    /\ LET n == Len(got) - Len(LinkAccesses)
           common == got[Len(got) - 1].modes \cap Last.modes
           of == First(IF n = 2 THEN GigabitModes ELSE OtherModes, common)
       IN \/ n = 0 /\ ~({"link", "complete"} \subseteq Basic) /\ Return(Down)
          \/ /\ n = 0 /\ {"link", "complete"} \subseteq Basic
             /\ More(<< R("1000ctrl"), R("1000status") >>)
          \/ n = 2 /\ of = << >> /\ More(<< R("adv"), R("lpa") >>)
          \/ n > 0 /\ of # << >> /\ Return(Up(of[1]))
          \/ n = 4 /\ of = << >> /\ Return([ok |-> FALSE])
    /\ UNCHANGED decided

\* Status of the LAN8804: link, then the mode from the control register
Status8804 ==
    /\ kind = "lan8804" /\ Decides("Status")
    /\ LET n == Len(got) - Len(LinkAccesses) IN
       \/ n = 0 /\ "link" \notin Basic /\ Return(Down)
       \/ n = 0 /\ "link" \in Basic /\ More(<< R("mode") >>)
       \/ n = 1 /\ Last.modes # {} /\ \E m \in Last.modes : Return(Up(m))
       \/ n = 1 /\ Last.modes = {} /\ Return([ok |-> FALSE])
    /\ UNCHANGED decided

-----------------------------------------------------------------------------
(* enablePort, called by the goroutine that brings the port up.            *)

jobVars == <<kind, miim, ops, phy>>

EnablePort ==
    /\ kind = "lan8840" /\ job = None /\ op = "idle" /\ ops < MaxOps
    /\ ops' = ops + 1 /\ job' = "reset"
    /\ Call("Reset", << W("control", {"reset"}), R("control") >>)
    /\ UNCHANGED <<kind, miim, mac, phy>>

Fail == job' = None /\ UNCHANGED <<call, mac>>

\* the steps after Reset and Negotiate
EnablePortNext ==
    /\ op = "idle" /\ job \in {"reset", "negotiate"}
    /\ \/ ~ret.ok /\ Fail
       \/ ret.ok /\ job = "reset" /\ job' = "negotiate" /\ mac' = mac
          /\ Call("Negotiate", << R("control") >>)
       \/ ret.ok /\ job = "negotiate" /\ job' = "wait" /\ mac' = mac
          /\ Call("Status", LinkAccesses)
    /\ UNCHANGED jobVars

\* mutant: half duplex is not refused
SupportedHalf(m) == m[1] \in {100, 1000}

Supported(m) == m[1] \in {100, 1000} /\ m[2]

\* the speed of the MAC is set when there is a link in a supported mode
SetSpeed(speed) ==
    /\ mac' = speed
    /\ fresh' = IF "ret" \in fresh THEN fresh \cup {"mac"} ELSE fresh \ {"mac"}

\* waitManagementLink: again until there is a link or the deadline has passed
WaitManagementLink ==
    /\ op = "idle" /\ job = "wait"
    /\ LET r == ret IN
       \/ ~r.ok /\ Fail
       \/ r.ok /\ ~r.link /\ Fail
       \/ r.ok /\ ~r.link /\ Call("Status", LinkAccesses) /\ UNCHANGED <<job, mac>>
       \/ r.ok /\ r.link /\ ~Supported(r.mode) /\ Fail
       \/ /\ r.ok /\ r.link /\ Supported(r.mode)
          /\ SetSpeed(r.mode[1]) /\ job' = None /\ UNCHANGED <<op, todo, got, at, seen, ret>>
    /\ UNCHANGED jobVars

-----------------------------------------------------------------------------
(* The controller and the PHY.                                             *)

HwStart ==
    /\ pending # << >> /\ current = << >>
    /\ current' = pending /\ pending' = << >>
    /\ UNCHANGED <<kind, call, data, job, mac, ops, phy>>

Bits(r) ==
    CASE r = "control" -> {b \in {"reset"} : resetting}
      [] r = "status" -> {b \in {"link", "complete"} : link /\ ~latched}
      [] r = "epdata" -> {IF ext.function = {"data"} THEN ext.register ELSE "address"}
      [] OTHER -> {}

Modes(r) ==
    CASE r = "1000ctrl" -> Local \cap Gigabit
      [] r = "1000status" -> {m \in partner \cap Gigabit : link}
      [] r = "adv" -> Local \ Gigabit
      [] r = "lpa" -> {m \in partner \ Gigabit : link}
      [] r = "mode" -> {m \in {mode} : link}
      [] OTHER -> {}

\* the value written to a register of the extended pages is named as the register
Extend(a) ==
    CASE a.reg = "epctrl" -> [ext EXCEPT !.function = a.bits]
      [] a.reg = "epdata" /\ ext.function = {"address"} ->
             [ext EXCEPT !.register = CHOOSE r \in a.bits : TRUE]
      [] a.reg = "epdata" /\ ext.function = {"data"} ->
             [ext EXCEPT !.misplaced = @ \/ a.bits # {ext.register}]
      [] OTHER -> ext

See(up) == seen' = IF op = "idle" THEN {} ELSE seen \cup {up}
Drop == link' = FALSE /\ latched' = TRUE /\ fresh' = {} /\ See(FALSE)

\* a command is transacted; a read may not be answered by the PHY
HwTransact ==
    /\ current # << >> /\ current' = << >>
    /\ LET a == current[1] IN
       IF a.write
       THEN /\ data' = data
            /\ IF a.reg = "control" /\ (resetting \/ a.bits \cap {"reset", "restart"} # {})
               THEN Drop /\ resetting' = (resetting \/ "reset" \in a.bits) /\ UNCHANGED <<partner, pulls, ext>>
               ELSE /\ ext' = Extend(a)
                    /\ UNCHANGED <<seen, fresh, link, latched, resetting, partner, pulls>>
       ELSE /\ \/ data' = [bits |-> Bits(a.reg), modes |-> Modes(a.reg), ok |-> TRUE]
               \/ data' = [data EXCEPT !.ok = FALSE]
            /\ latched' = IF a.reg = "status" THEN ~link ELSE latched
            /\ UNCHANGED <<seen, fresh, link, resetting, partner, pulls, ext>>
    /\ UNCHANGED <<kind, op, todo, got, at, ret, pending, job, mac, ops>>

HwResetDone ==
    /\ resetting /\ resetting' = FALSE
    /\ UNCHANGED <<kind, call, miim, job, mac, ops, link, latched, partner, pulls, ext>>

\* the link comes up, with the partner there is, and goes down when the cable is
\* pulled, or plugged elsewhere
HwLinkUp ==
    /\ ~link /\ ~resetting
    /\ link' = TRUE /\ fresh' = {} /\ See(TRUE)
    /\ UNCHANGED <<kind, op, todo, got, at, ret, miim, job, mac, ops, latched, resetting, partner, pulls, ext>>

HwLinkDown ==
    /\ link /\ pulls < MaxPulls /\ pulls' = pulls + 1 /\ Drop /\ partner' \in Partners
    /\ UNCHANGED <<kind, op, todo, got, at, ret, miim, job, mac, ops, resetting, ext>>

Next ==
    \/ Issue \/ Complete \/ Timeout \/ Calls
    \/ Reset \/ Negotiate \/ Link \/ Status8840 \/ Status8804
    \/ WriteExtended \/ \E a \in Extended : ReadExtended(a)
    \/ EnablePort \/ EnablePortNext \/ WaitManagementLink
    \/ HwStart \/ HwTransact \/ HwResetDone \/ HwLinkUp \/ HwLinkDown

Spec == Init /\ [][Next]_vars

-----------------------------------------------------------------------------

\* What Link reports held at some time of the call: it is stale neither by the
\* latch of the PHY nor by the data of a read that timed out before.
LinkTrue == ret.op = "Link" /\ ret.ok => ret.link \in ret.seen

\* Status reports the mode in use, if the link did not change since the call; so
\* does the MAC that enablePort has set up, in full duplex.
ModeTrue ==
    /\ ret.op = "Status" /\ ret.ok /\ "ret" \in fresh =>
           ret.link = link /\ (link => ret.mode = mode)
    /\ "mac" \in fresh => link /\ mode = <<mac, TRUE>>

\* ReadExtendedRegister and WriteExtendedRegister access the register they were
\* asked for, after calls that failed midway too.
ExtendedOwn == ~ext.misplaced /\ (ret.op \in Extended /\ ret.ok => ret.val = {ret.op})

=============================================================================
