------------------------------ MODULE Security ------------------------------
(***************************************************************************)
(* What protects the secrets of a system on chip: one time programmable    *)
(* memories, and the units that restrict access.                           *)
(*                                                                         *)
(* The memories are the OCOTP of NXP, whose fuses are read through shadow  *)
(* registers, and the OTPC of Microchip, which is powered up for each call *)
(* and accessed byte by byte.  Every wait may time out while the           *)
(* controller goes on with what it was told.  A value is a set of bits; a  *)
(* fuse is set or not, and stays set.                                      *)
(*                                                                         *)
(* The units are the PMP of RISC-V, the physical filter of SiFive, the CSU *)
(* and the TZASC, the SNVS with its tamper monitors and the BEE, which     *)
(* encrypts memory with a key that the SNVS guards.  The SNVS and the      *)
(* passing of its High Assurance Counter go on while SetPolicy changes one *)
(* register after the other.                                               *)
(***************************************************************************)
EXTENDS Integers, Sequences

CONSTANTS
    BankSize, Banks,    \* words in a bank; number of banks
    BlowBanks,          \* banks used
    Values,             \* sets of bits
    Size, MaxFuseCalls  \* bytes in the OTPC; bound: calls

\* Banks have words; banks are numbered.
FuseConstants == BankSize \in Nat \ {0} /\ BlowBanks \subseteq Nat /\ Size \in Nat
ASSUME FuseAssumption == FuseConstants

VARIABLES
    ocotp,     \* OCOTP: driver and controller
    otpc,      \* OTPC: driver and controller
    fuseAsked  \* bits that calls have asked for: of a word and of a byte

fuseVars == <<ocotp, otpc, fuseAsked>>

-----------------------------------------------------------------------------
(* OCOTP.                                                                  *)

Index(bank, word) == BankSize * bank + word
Words == {Index(b, w) : b \in BlowBanks, w \in 0 .. BankSize}

\* a shadow register is a word's index, past a gap of 16 for the banks after 5
Shadow(bank, word) == Index(bank, word) + (IF bank > 5 THEN 16 ELSE 0)
BankOf(x) == x \div BankSize
HwShadow(x) == Shadow(BankOf(x), x % BankSize)

NoFuses == [x \in Words |-> {}]

OcotpInit ==
    ocotp = [at |-> "idle", word |-> 0, value |-> {}, calls |-> 0, failed |-> FALSE, read |-> <<>>,
             busy |-> "no", error |-> FALSE, addr |-> 0, data |-> {},
             fuses |-> NoFuses, shadow |-> [x \in {HwShadow(y) : y \in Words} |-> {}]]

\* a word that is not in the map of shadow registers reads as anything
Read(bank, word) ==
    /\ ocotp.at = "idle" /\ ocotp.calls < MaxFuseCalls
    /\ IF bank > Banks \/ word > BankSize
       THEN ocotp' = [ocotp EXCEPT !.calls = @ + 1, !.read = <<>>]
       ELSE \E v \in IF Shadow(bank, word) \in DOMAIN ocotp.shadow
                     THEN {ocotp.shadow[Shadow(bank, word)]} ELSE Values :
                ocotp' = [ocotp EXCEPT !.calls = @ + 1, !.read = <<bank, word, v>>]
    /\ UNCHANGED fuseAsked

Blow(bank, word, v) ==
    /\ ocotp.at = "idle" /\ ocotp.calls < MaxFuseCalls
    /\ ocotp' = [ocotp EXCEPT !.at = "blow", !.calls = @ + 1, !.word = Index(bank, word), !.value = v,
                              !.read = <<>>]
    /\ fuseAsked' = [fuseAsked EXCEPT !.word[Index(bank, word)] = @ \cup v]

\* WaitFor(BUSY), then the writes that start an operation; or a time-out
Start(write) ==
    \/ ocotp.busy = "no" /\ ocotp' = write
    \/ ocotp' = [ocotp EXCEPT !.at = "failed"]

BlowStart ==
    /\ ocotp.at = "blow" /\ UNCHANGED fuseAsked
    /\ Start([ocotp EXCEPT !.at = "check", !.error = FALSE, !.addr = ocotp.word, !.data = ocotp.value, !.busy = "blow"])

shadowReload ==
    /\ ocotp.at = "reload" /\ UNCHANGED fuseAsked
    /\ Start([ocotp EXCEPT !.at = "recheck", !.error = FALSE, !.busy = "reload"])

\* mutant: the end of the operation is not waited for
checkOpEarly ==
    /\ ocotp.at \in {"check", "recheck"} /\ UNCHANGED fuseAsked
    /\ ocotp' = [ocotp EXCEPT !.at = IF ocotp.error THEN "failed" ELSE IF @ = "check" THEN "reload" ELSE "ok"]

checkOp ==
    /\ ocotp.at \in {"check", "recheck"} /\ UNCHANGED fuseAsked
    /\ \/ ocotp.busy = "no"
          /\ ocotp' = [ocotp EXCEPT !.at = IF ocotp.error THEN "failed" ELSE IF @ = "check" THEN "reload" ELSE "ok"]
       \/ ocotp' = [ocotp EXCEPT !.at = "failed"]

BlowReturn ==
    /\ ocotp.at \in {"ok", "failed"} /\ UNCHANGED fuseAsked
    /\ ocotp' = [ocotp EXCEPT !.at = "idle", !.failed = (ocotp.at = "failed")]

\* the controller ends what it was told, with success or an error
HwOcotp ==
    /\ ocotp.busy # "no" /\ UNCHANGED fuseAsked
    /\ \/ ocotp' = [ocotp EXCEPT !.busy = "no", !.error = TRUE]
       \/ ocotp.busy = "blow" /\ ocotp' = [ocotp EXCEPT !.busy = "no", !.fuses[ocotp.addr] = @ \cup ocotp.data]
       \/ ocotp.busy = "reload"
          /\ ocotp' = [ocotp EXCEPT !.busy = "no", !.shadow = [x \in DOMAIN @ |->
                       ocotp.fuses[CHOOSE y \in Words : HwShadow(y) = x]]]

OcotpNext ==
    \/ \E b \in BlowBanks, w \in 0 .. BankSize + 1 : Read(b, w)
    \/ \E b \in BlowBanks, w \in 0 .. BankSize - 1, v \in Values : Blow(b, w, v)
    \/ BlowStart \/ shadowReload \/ checkOp \/ BlowReturn \/ HwOcotp

-----------------------------------------------------------------------------
(* OTPC.                                                                   *)

Bytes == 0 .. Size - 1

OtpcInit ==
    otpc = [at |-> "idle", op |-> "read", off |-> 0, buf |-> <<>>, i |-> 1, calls |-> 0,
            power |-> FALSE, pump |-> FALSE, busy |-> FALSE, fail |-> FALSE, rd |-> {},
            addr |-> 0, data |-> {}, mem |-> [x \in Bytes |-> {}]]

AllFuses == [word |-> NoFuses, byte |-> [x \in Bytes |-> {}]]

InRange(off, b) == off >= 0 /\ off + Len(b) <= Size

\* Read and Blow: the range, then power
Access(op, off, b) ==
    /\ otpc.at = "idle" /\ otpc.calls < MaxFuseCalls
    /\ otpc' = [otpc EXCEPT !.calls = @ + 1, !.op = op, !.off = off, !.i = 1,
                            !.buf = IF op = "read" THEN [k \in DOMAIN b |-> {}] ELSE b,
                            !.at = IF InRange(off, b) THEN "power" ELSE "refused",
                            !.power = @ \/ InRange(off, b)]
    /\ fuseAsked' = IF op = "blow" /\ InRange(off, b)
                    THEN [fuseAsked EXCEPT !.byte = [x \in Bytes |->
                              @[x] \cup (IF x - off + 1 \in DOMAIN b THEN b[x - off + 1] ELSE {})]]
                    ELSE fuseAsked

\* the charge pump; a time-out here leaves the memory powered
PowerUp ==
    /\ otpc.at = "power" /\ UNCHANGED fuseAsked
    /\ \/ otpc.pump /\ otpc' = [otpc EXCEPT !.at = IF otpc.buf = <<>> THEN "down" ELSE "command"]
       \/ otpc' = [otpc EXCEPT !.at = "refused"]

\* address, data and GO
Command ==
    /\ otpc.at = "command" /\ UNCHANGED fuseAsked
    /\ otpc' = [otpc EXCEPT !.at = "wait", !.addr = otpc.off + otpc.i - 1, !.busy = TRUE,
                            !.data = IF otpc.op = "blow" THEN otpc.buf[otpc.i] ELSE @]

\* mutant: PASS_FAIL is not looked at
CommandDonePasses ==
    /\ otpc.at = "wait" /\ ~otpc.busy /\ UNCHANGED fuseAsked
    /\ otpc' = [otpc EXCEPT !.i = @ + 1, !.at = IF otpc.i = Len(otpc.buf) THEN "down" ELSE "command",
                            !.buf[otpc.i] = IF otpc.op = "read" THEN otpc.rd ELSE @]

\* GO and BUSY cleared, PASS_FAIL; a failure ends the loop
CommandDone ==
    /\ otpc.at = "wait" /\ UNCHANGED fuseAsked
    /\ \/ /\ ~otpc.busy /\ ~otpc.fail
          /\ otpc' = [otpc EXCEPT !.i = @ + 1, !.at = IF otpc.i = Len(otpc.buf) THEN "down" ELSE "command",
                                  !.buf[otpc.i] = IF otpc.op = "read" THEN otpc.rd ELSE @]
       \/ otpc' = [otpc EXCEPT !.at = "down"]

PowerDown ==
    /\ otpc.at = "down" /\ UNCHANGED fuseAsked
    /\ otpc' = [otpc EXCEPT !.at = IF otpc.i > Len(otpc.buf) THEN "ok" ELSE "failed",
                            !.power = FALSE, !.pump = FALSE, !.busy = FALSE]

AccessReturn ==
    /\ otpc.at \in {"ok", "failed", "refused"} /\ UNCHANGED fuseAsked
    /\ otpc' = [otpc EXCEPT !.at = "idle"]

HwPump == otpc.power /\ ~otpc.pump /\ otpc' = [otpc EXCEPT !.pump = TRUE] /\ UNCHANGED fuseAsked

HwOtpc ==
    /\ otpc.busy /\ otpc.pump /\ UNCHANGED fuseAsked
    /\ \/ otpc' = [otpc EXCEPT !.busy = FALSE, !.fail = TRUE]
       \/ otpc.op = "blow" /\ otpc' = [otpc EXCEPT !.busy = FALSE, !.fail = FALSE, !.mem[otpc.addr] = @ \cup otpc.data]
       \/ otpc.op = "read" /\ otpc' = [otpc EXCEPT !.busy = FALSE, !.fail = FALSE, !.rd = otpc.mem[otpc.addr]]

OtpcNext ==
    \/ \E off \in -1 .. Size, n \in 0 .. 2 : \/ Access("read", off, [k \in 1 .. n |-> {}])
                                             \/ \E b \in [1 .. n -> Values] : Access("blow", off, b)
    \/ PowerUp \/ Command \/ CommandDone \/ PowerDown \/ AccessReturn \/ HwPump \/ HwOtpc

FusesInit == OcotpInit /\ OtpcInit /\ fuseAsked = AllFuses
FusesNext == (OcotpNext /\ UNCHANGED otpc) \/ (OtpcNext /\ UNCHANGED ocotp)
FusesSpec == FusesInit /\ [][FusesNext]_fuseVars

-----------------------------------------------------------------------------
\* A fuse is blown only where a call has asked for it, also by an operation that
\* was given up on and ends during a later call.  Blow without error has blown all
\* of its bits, and the shadow registers show them: until a Blow fails, Read of a
\* word of a bank is what its fuses hold.  On the OTPC a call without error has
\* blown or read every byte, one that fails has gone no further than the byte it
\* failed at, and neither leaves it powered.
FusesTruth ==
    /\ \A x \in Words : ocotp.fuses[x] \subseteq fuseAsked.word[x]
    /\ ocotp.at = "ok" => ocotp.value \subseteq ocotp.fuses[ocotp.word]
    /\ ocotp.at = "ok" \/ (ocotp.at = "idle" /\ ~ocotp.failed) =>
          \A x \in Words : ocotp.shadow[HwShadow(x)] = ocotp.fuses[x]
    /\ ocotp.read # <<>> /\ ocotp.read[2] < BankSize /\ ~ocotp.failed =>
          ocotp.read[3] = ocotp.fuses[Index(ocotp.read[1], ocotp.read[2])]
    /\ \A x \in Bytes : otpc.mem[x] \subseteq fuseAsked.byte[x]
    /\ otpc.at = "ok" =>
          \A k \in DOMAIN otpc.buf :
              IF otpc.op = "blow" THEN otpc.buf[k] \subseteq otpc.mem[otpc.off + k - 1]
              ELSE otpc.buf[k] = otpc.mem[otpc.off + k - 1]
    /\ otpc.at = "failed" /\ otpc.op = "read" =>
          \A k \in DOMAIN otpc.buf : k > otpc.i => otpc.buf[k] = {}
    /\ otpc.at \in {"ok", "failed"} => ~otpc.power

-----------------------------------------------------------------------------
(* Access control.                                                         *)

CONSTANTS
    Entries,        \* indexes of PMP entries, masters and peripherals
    Addresses,      \* addresses used
    Levels,         \* security levels and permissions
    Space,          \* the address space of the TZASC in units of 16 KB, a power of 2
    Sizes,          \* sizes of regions in units of 16 KB
    MaxHAC,         \* bound: initial values of the counter
    MaxSets,        \* bound: calls that configure
    MaxEvents       \* bound: tamper events

\* Numbers are natural, and the address space is a power of 2, as are the sizes
\* that EnableRegion accepts.
AccessConstants ==
    /\ Entries \subseteq Nat /\ Addresses \subseteq Nat /\ Sizes \subseteq Nat /\ MaxHAC \in Nat
    /\ \E k \in 1 .. 30 : Space = 2 ^ k
ASSUME AccessAssumption == AccessConstants

VARIABLES
    units,    \* registers of PMP, filter, CSU and TZASC
    granted,  \* what calls without error last asked them for
    sets,     \* number of calls
    snvs,     \* SNVS
    bee       \* BEE

accessVars == <<units, granted, sets, snvs, bee>>

-----------------------------------------------------------------------------
(* PMP and filter, CSU, TZASC.                                             *)

Modes == {"off", "tor"}
NoEntry == [addr |-> 0, rwx |-> 0, a |-> "off", l |-> FALSE]
NoRegion == [en |-> FALSE, low |-> 0, size |-> 0, sp |-> 0]

UnitsInit ==
    /\ units = [pmp |-> [i \in Entries |-> NoEntry], filter |-> [i \in Entries |-> NoEntry],
                sa |-> [i \in Entries |-> [ns |-> FALSE, lock |-> FALSE]],
                csl |-> [p \in Entries \X {0, 1} |-> [level |-> 0, lock |-> FALSE]],
                region |-> [n \in Entries |-> NoRegion], bypass |-> FALSE, locked |-> FALSE]
    /\ granted = units /\ sets = 0

Configures == sets < MaxSets /\ sets' = sets + 1 /\ UNCHANGED <<snvs, bee>>

\* an address is kept without its two lowest bits
Kept(addr) == 4 * (addr \div 4)

\* a locked entry, and the address below a locked range, ignore writes
AddrLocked(i) == units.pmp[i].l \/ (i + 1 \in Entries /\ units.pmp[i + 1].l /\ units.pmp[i + 1].a = "tor")

\* mutant: the configuration goes to the entry's neighbour as well
WritePMPWide(i, addr, rwx, a, l) ==
    /\ Configures
    /\ LET new == [i2 \in Entries |->
                [addr |-> IF i2 = i /\ ~AddrLocked(i) THEN Kept(addr) ELSE units.pmp[i2].addr,
                 rwx |-> rwx, a |-> a, l |-> l]]
       IN  units' = [units EXCEPT !.pmp = new] /\ granted' = [granted EXCEPT !.pmp[i] = new[i]]

\* the address, then the configuration of all entries with that of this one changed
WritePMP(i, addr, rwx, a, l) ==
    /\ Configures
    /\ LET old == units.pmp[i]
           new == [addr |-> IF AddrLocked(i) THEN old.addr ELSE Kept(addr),
                   rwx |-> IF old.l THEN old.rwx ELSE rwx,
                   a |-> IF old.l THEN old.a ELSE a,
                   l |-> old.l \/ l]
       IN  /\ units' = [units EXCEPT !.pmp[i] = new]
           /\ granted' = [granted EXCEPT !.pmp[i] =
                          IF old.l \/ AddrLocked(i) THEN new
                          ELSE [addr |-> Kept(addr), rwx |-> rwx, a |-> a, l |-> l]]

ReadPMP(i) == units.pmp[i]

\* the register is read and the value changed, and that is all
FilterWritePMP(i, addr, rwx, a, l) ==
    /\ Configures
    /\ granted' = [granted EXCEPT !.filter[i] = [addr |-> addr, rwx |-> rwx, a |-> a, l |-> l]]
    /\ UNCHANGED units

FilterReadPMP(i) == units.filter[i]

SetAccess(id, secure, lock) ==
    /\ Configures
    /\ IF id \notin Entries THEN UNCHANGED <<units, granted>>
       ELSE LET old == units.sa[id]
                new == [ns |-> IF old.lock THEN old.ns ELSE ~secure, lock |-> old.lock \/ lock]
            IN  /\ units' = [units EXCEPT !.sa[id] = new]
                /\ granted' = [granted EXCEPT !.sa[id] = IF old.lock THEN @ ELSE [ns |-> ~secure, lock |-> lock]]

GetAccess(id) == units.sa[id]

checkArgs(periph, slave) == periph \in Entries /\ slave \in 0 .. 1

SetSecurityLevel(periph, slave, csl, lock) ==
    /\ Configures
    /\ IF ~checkArgs(periph, slave) THEN UNCHANGED <<units, granted>>
       ELSE LET p == <<periph, slave>>
                old == units.csl[p]
                new == [level |-> IF old.lock THEN old.level ELSE csl, lock |-> old.lock \/ lock]
            IN  /\ units' = [units EXCEPT !.csl[p] = new]
                /\ granted' = [granted EXCEPT !.csl[p] = IF old.lock THEN @ ELSE [level |-> csl, lock |-> lock]]

GetSecurityLevel(p) == units.csl[p]

\* the exponents of the sizes from 32 KB on; 2^32 does not fit and is 0
Exponents(size) == {e \in 1 .. 64 : size = (IF e > 30 THEN 0 ELSE 2 ^ e % Space)}

\* mutant: the start is compared with 32 KB only
RegionFitsAny(start, size) == start % 2 = 0 /\ Exponents(size) # {}

RegionFits(start, size) ==
    /\ start % 2 = 0
    /\ start # 0 => start % size = 0
    /\ Exponents(size) # {}

\* Region 0 has only permissions.  A region is written as its start, rounded down to
\* 32 KB, and the first exponent found.  A start with the size 0 divides by zero.
EnableRegion(n, start, size, sp) ==
    /\ ~(n > 0 /\ start % 2 = 0 /\ start # 0 /\ size = 0)
    /\ Configures
    /\ LET fits == n \in Entries /\ units.bypass /\ (n = 0 \/ RegionFits(start, size))
           exp == CHOOSE e \in Exponents(size) : \A f \in Exponents(size) : e <= f
           new == [en |-> TRUE, low |-> 2 * (start \div 2), size |-> 2 ^ exp, sp |-> sp]
       IN  /\ units' = IF ~fits \/ units.locked THEN units
                       ELSE IF n = 0 THEN [units EXCEPT !.region[0].sp = sp] ELSE [units EXCEPT !.region[n] = new]
           /\ granted' = IF ~fits \/ units.locked THEN granted
                         ELSE IF n = 0 THEN [granted EXCEPT !.region[0].sp = sp]
                         ELSE [granted EXCEPT !.region[n] = [en |-> TRUE, low |-> start, sp |-> sp,
                                                             size |-> IF size = 0 THEN Space ELSE size]]

DisableRegion(n) ==
    /\ Configures
    /\ LET fits == n \in Entries /\ units.bypass /\ ~units.locked
       IN  /\ units' = IF fits THEN [units EXCEPT !.region[n].en = FALSE] ELSE units
           /\ granted' = IF fits THEN [granted EXCEPT !.region[n].en = FALSE] ELSE granted

\* lockdown of all regions, with the secure boot lock
Lock == Configures /\ units' = [units EXCEPT !.locked = TRUE] /\ granted' = [granted EXCEPT !.locked = TRUE]

\* the board's boot data, before any of this: the bypass of the TZASC is off
BootDcd ==
    /\ sets = 0 /\ ~units.bypass /\ UNCHANGED <<sets, snvs, bee>>
    /\ units' = [units EXCEPT !.bypass = TRUE] /\ granted' = [granted EXCEPT !.bypass = TRUE]

UnitsNext ==
    \/ \E i \in Entries, addr \in Addresses, a \in Modes, l \in BOOLEAN, rwx \in Levels :
           WritePMP(i, addr, rwx, a, l) \/ FilterWritePMP(i, addr, rwx, a, l)
    \/ \E i \in Entries \cup {-1}, v \in BOOLEAN, l \in BOOLEAN :
           \/ SetAccess(i, v, l)
           \/ \E sl \in 0 .. 2, c \in Levels : SetSecurityLevel(i, sl, c, l)
    \/ \E n \in Entries \cup {-1} :
           \/ DisableRegion(n)
           \/ \E start \in 0 .. Space - 1, size \in Sizes, sp \in Levels : EnableRegion(n, start, size, sp)
    \/ Lock \/ BootDcd

\* What a unit holds is what the last call that it accepted asked for, each entry,
\* master, peripheral and region for itself: an index that is in use by no call
\* is left alone, a locked one stays as it is, and an enabled region of the TZASC
\* is the range of addresses that was asked for, for all the sizes and starts that
\* pass the checks.
AsConfigured ==
    /\ \A i \in Entries : ReadPMP(i) = granted.pmp[i] /\ GetAccess(i) = granted.sa[i]
    /\ \A p \in Entries \X {0, 1} : GetSecurityLevel(p) = granted.csl[p]
    /\ \A n \in Entries \ {0} :
          LET r == units.region[n] w == granted.region[n]
          IN  /\ r.en = w.en
              /\ r.en => /\ r.sp = w.sp
                         /\ r.low .. r.low + r.size - 1 = w.low .. w.low + w.size - 1
                         /\ r.low % r.size = 0

\* "WritePMP sets the Device Physical Memory Protection register, configuration and
\* address, for the relevant index."
FilterSet == \A i \in Entries : FilterReadPMP(i) = granted.filter[i]

-----------------------------------------------------------------------------
(* SNVS.  A policy says which of clock, temperature and voltage to monitor *)
(* ("C", "T", "V"), whether an event is a violation, which takes the       *)
(* System Security Monitor to soft fail, and whether that becomes a hard   *)
(* fail when the counter has run out.                                      *)

Tampers == {"C", "T", "V"}
Policy == [mon : {{}, Tampers}, viol : BOOLEAN, hard : BOOLEAN, hac : {MaxHAC}]
NoPolicy == [mon |-> {}, viol |-> FALSE, hard |-> FALSE, hac |-> MaxHAC]

SnvsInit ==
    snvs = [at |-> "idle", new |-> NoPolicy, sp |-> NoPolicy, otpmk |-> TRUE,
            stop |-> FALSE, en |-> FALSE, hac |-> MaxHAC, viol |-> FALSE, ssm |-> "trusted",
            dryEn |-> FALSE, dmcr |-> {}, lptdcr |-> {}, dtrr |-> {}, lpsr |-> {}, pgd |-> FALSE,
            events |-> 0, seen |-> {}, ran |-> 0, was |-> FALSE]

Snvs(t) == snvs' = t /\ UNCHANGED <<units, granted, bee>>

SetPolicy(sp) ==
    /\ snvs.at = "idle" /\ sets < MaxSets /\ sets' = sets + 1
    /\ Snvs([snvs EXCEPT !.at = "stop", !.new = sp])

\* mutant: the counter goes on with the policy that was
StopLate ==
    /\ snvs.at = "stop" /\ UNCHANGED sets
    /\ Snvs([snvs EXCEPT !.at = "dryice", !.was = (snvs.ssm = "hard"), !.pgd = FALSE, !.lpsr = {}, !.viol = snvs.new.viol,
                         !.hac = IF snvs.new.hard THEN snvs.new.hac ELSE @, !.en = @ \/ snvs.new.hard,
                         !.ran = IF snvs.new.hard THEN 0 ELSE @])

\* The counter is stopped first; the power glitch detector, what is a violation, and
\* for HardFail the counter anew.  Nothing counts while HAC_EN is clear.  A record is
\* cleared by writing back all that was read, which clears the others with it.
Stop ==
    /\ snvs.at = "stop" /\ UNCHANGED sets
    /\ Snvs([snvs EXCEPT !.at = "dryice", !.was = (snvs.ssm = "hard"), !.pgd = FALSE, !.lpsr = {}, !.viol = snvs.new.viol,
                         !.stop = ~snvs.new.hard, !.en = snvs.new.hard, !.ran = 0,
                         !.hac = IF snvs.new.hard THEN snvs.new.hac ELSE @])

\* DryIce: enabled, its monitors a millisecond later, its records cleared another later
setDryIcePolicy ==
    /\ snvs.at \in {"dryice", "clear"} /\ UNCHANGED sets
    /\ \/ snvs.at = "dryice" /\ Snvs([snvs EXCEPT !.at = "clear", !.dryEn = TRUE, !.dmcr = snvs.new.mon])
       \/ snvs.at = "clear" /\ Snvs([snvs EXCEPT !.at = "monitors", !.dtrr = {}])

\* the monitors, then their records
SetMonitors ==
    /\ snvs.at = "monitors" /\ UNCHANGED sets
    /\ Snvs([snvs EXCEPT !.at = "idle", !.lptdcr = snvs.new.mon, !.lpsr = {}, !.pgd = FALSE,
                         !.sp = snvs.new, !.seen = {}])

\* Monitor: the bits of DryIce for temperature and voltage are taken crosswise
Monitor ==
    [Clock       |-> "C" \in snvs.lpsr \cup snvs.dtrr,
     Temperature |-> "T" \in snvs.lpsr \/ "V" \in snvs.dtrr,
     Voltage     |-> "V" \in snvs.lpsr \/ "T" \in snvs.dtrr,
     Power |-> snvs.pgd, SecurityViolation |-> snvs.sp.viol, HardFail |-> snvs.sp.hard, State |-> snvs.ssm]

Available == snvs.otpmk /\ snvs.ssm = "trusted"

\* a tamper event, seen by the SNVS, by DryIce or by both
HwTamper(k) ==
    /\ snvs.events < MaxEvents /\ UNCHANGED sets
    /\ LET lp == k \in snvs.lptdcr
           dry == snvs.dryEn /\ k \in snvs.dmcr
       IN  /\ lp \/ dry
           /\ \E rec \in {r \in {{"lp"}, {"dry"}, {"lp", "dry"}} : ("lp" \in r => lp) /\ ("dry" \in r => dry)} :
                 Snvs([snvs EXCEPT !.events = @ + 1, !.seen = @ \cup {k},
                                   !.lpsr = IF "lp" \in rec THEN @ \cup {k} ELSE @,
                                   !.dtrr = IF "dry" \in rec THEN @ \cup {k} ELSE @,
                                   !.ssm = IF snvs.viol /\ @ = "trusted" THEN "soft" ELSE @])

HwGlitch == snvs.events < MaxEvents /\ UNCHANGED sets /\ Snvs([snvs EXCEPT !.pgd = TRUE, !.events = @ + 1])

\* the counter in soft fail
HwCount ==
    /\ snvs.ssm = "soft" /\ snvs.en /\ ~snvs.stop /\ UNCHANGED sets
    /\ Snvs([snvs EXCEPT !.hac = IF @ = 0 THEN 0 ELSE @ - 1, !.ssm = IF snvs.hac = 0 THEN "hard" ELSE @,
                         !.ran = IF snvs.hac = 0 THEN @ ELSE @ + 1])

-----------------------------------------------------------------------------
(* BEE.  Addresses in units of 256 MB of 32 bits; an odd one is not        *)
(* aligned to 64 KB.                                                       *)

Regions == [unit : {0, 2, 8}, aligned : BOOLEAN]
AliasRegion0 == 1
AliasRegion1 == 3
AliasRegionSize == 2

BeeInit ==
    bee = [at |-> "idle", ready |-> FALSE, r0 |-> 0, r1 |-> 0, sel |-> "none",
           key |-> FALSE, nonce |-> FALSE, ctr |-> FALSE, on |-> FALSE, lock |-> FALSE]

\* what is locked keeps its value: all but the key registers
Bee(t) ==
    /\ bee' = IF bee.lock THEN [bee EXCEPT !.at = t.at, !.key = t.key, !.nonce = t.nonce] ELSE t
    /\ UNCHANGED <<units, granted, snvs>>

Initialize == bee.at = "idle" /\ ~bee.ready /\ UNCHANGED sets /\ Bee([bee EXCEPT !.ready = TRUE, !.on = FALSE])

checkRegion(r, alias) ==
    LET offset == (r.unit - alias) % 16
    IN  /\ r.aligned
        /\ offset \notin AliasRegion0 .. AliasRegion0 + AliasRegionSize - 1
        /\ offset \notin AliasRegion1 .. AliasRegion1 + AliasRegionSize - 1

\* the regions, then which key
Enable(r0, r1) ==
    /\ bee.at = "idle" /\ sets < MaxSets /\ sets' = sets + 1
    /\ IF ~checkRegion(r0, AliasRegion0) \/ ~checkRegion(r1, AliasRegion1) \/ ~bee.ready
       THEN UNCHANGED <<units, granted, snvs, bee>>
       ELSE Bee([bee EXCEPT !.at = IF Available THEN "nonce" ELSE "key", !.r0 = r0.unit, !.r1 = r1.unit,
                            !.sel = IF Available THEN "otpmk" ELSE @])

\* generateKey, into the registers; the random source may fail
GenerateKey ==
    /\ bee.at = "key" /\ UNCHANGED sets
    /\ \/ Bee([bee EXCEPT !.at = "nonce", !.key = TRUE, !.sel = "software"])
       \/ Bee([bee EXCEPT !.at = "idle"])

\* mutant: the engine is enabled when the nonce could not be generated
GenerateNonceIgnored ==
    /\ bee.at = "nonce" /\ UNCHANGED sets
    /\ \/ Bee([bee EXCEPT !.at = "idle", !.nonce = TRUE, !.ctr = TRUE, !.on = TRUE])
       \/ Bee([bee EXCEPT !.at = "idle", !.ctr = TRUE, !.on = TRUE])

\* the nonce, AES CTR, the security level, and on
GenerateNonce ==
    /\ bee.at = "nonce" /\ UNCHANGED sets
    /\ \/ Bee([bee EXCEPT !.at = "idle", !.nonce = TRUE, !.ctr = TRUE, !.on = TRUE])
       \/ Bee([bee EXCEPT !.at = "idle"])

BeeLock == bee.at = "idle" /\ ~bee.lock /\ UNCHANGED sets /\ Bee([bee EXCEPT !.lock = TRUE])

GuardNext ==
    \/ \E sp \in Policy : SetPolicy(sp)
    \/ Stop \/ setDryIcePolicy \/ SetMonitors \/ HwGlitch \/ HwCount
    \/ \E k \in Tampers : HwTamper(k)
    \/ Initialize \/ GenerateKey \/ GenerateNonce \/ BeeLock
    \/ \E r0 \in Regions, r1 \in Regions : Enable(r0, r1)

AccessInit == UnitsInit /\ SnvsInit /\ BeeInit
AccessSpec == AccessInit /\ [][UnitsNext \/ GuardNext]_accessVars

\* SetPolicy "can be used to prevent a transition from soft fail to hard fail if
\* invoked within the expiration of a previously applied policy": a hard fail after
\* it has stopped the counter needs its own HardFail, and all of its own HAC.  An
\* event after the policy is reported by Monitor, and the BEE is on only with a
\* nonce and with a key: one that was generated, or that of an SNVS that was
\* available.
GuardHolds ==
    /\ snvs.ssm = "hard" /\ ~snvs.was /\ snvs.at = "idle" => snvs.sp.hard /\ snvs.ran >= snvs.sp.hac
    /\ snvs.at = "idle" /\ snvs.seen # {} => Monitor.Clock \/ Monitor.Temperature \/ Monitor.Voltage
    /\ snvs.at = "idle" /\ "C" \in snvs.seen => Monitor.Clock
    /\ bee.on => /\ bee.nonce /\ bee.ctr
                 /\ IF bee.sel = "software" THEN bee.key ELSE bee.sel = "otpmk"

\* Entries, regions and levels of the access control units are those that calls have
\* set, locked ones stay; the security monitor fails hard only as the policy says, and
\* the encryption of memory keeps its key.
PolicyHolds == AsConfigured /\ GuardHolds

\* "Temperature Tamper", "Voltage Tamper": what Monitor reports as detected is what was.
MonitorTruth ==
    snvs.at = "idle" => /\ Monitor.Temperature => "T" \in snvs.seen
                        /\ Monitor.Voltage => "V" \in snvs.seen
=============================================================================
