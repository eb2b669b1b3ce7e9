----------------------------- MODULE Registers -----------------------------
(***************************************************************************)
(* The register helpers of internal/reg and bits.  A register is the set   *)
(* of its bits that are 1, and so are masks and values.                    *)
(*                                                                         *)
(* An update is a load and a store, with no lock of its own: drivers that  *)
(* share a register, each with a field of it, hold a mutex meanwhile.  The *)
(* hardware does not, and changes its own bits at any time.  A goroutine   *)
(* waits for a field of the hardware.                                      *)
(***************************************************************************)
EXTENDS Integers

CONSTANTS
    Width,              \* bits of a register
    Owners,             \* drivers with a field each
    Pos, Mask,          \* position and mask of their fields
    HwPos, HwMask,      \* the field of the hardware
    Free                \* the mutex, held by nobody

Word == 0 .. Width - 1

Shl(s, pos) == {b + pos : b \in s} \cap Word
Shr(s, pos) == {b \in Word : b + pos \in s}

Field(o) == Shl(Mask[o], Pos[o])
HwField == Shl(HwMask, HwPos)

ASSUME RegAssumption ==
    /\ Width \in Nat \ {0} /\ Free \notin Owners
    /\ Pos \in [Owners -> Word] /\ Mask \in [Owners -> SUBSET Word]
    /\ HwPos \in Word /\ HwMask \in SUBSET Word
    /\ \A o \in Owners : \A b \in Mask[o] : b + Pos[o] \in Word
    /\ \A o, p \in Owners : o # p => Field(o) \cap Field(p) = {}
    /\ \A o \in Owners : Field(o) \cap HwField = {}

VARIABLES
    mem,                \* the register
    mu, rmw,            \* holder of the mutex; its update
    loaded,             \* the value loaded
    want,               \* what the drivers have asked their fields to be
    wait, elapsed       \* the waiting goroutine, and its time-out or exit signal

updateVars == <<mem, mu, rmw, loaded, want>>
waitVars == <<wait, elapsed>>

-----------------------------------------------------------------------------
(* The functions: on a register, at a position, with a mask and a value.   *)

Get(r, pos) == pos \in r

GetN(r, pos, mask) == Shr(r, pos) \cap mask

Set(r, pos) == r \cup {pos}

Clear(r, pos) == r \ {pos}

SetTo(r, pos, val) == IF val THEN Set(r, pos) ELSE Clear(r, pos)

\* mutant: the value is not masked
SetNWide(r, pos, mask, val) == (r \ Shl(mask, pos)) \cup Shl(val, pos)

SetN(r, pos, mask, val) == (r \ Shl(mask, pos)) \cup Shl(val \cap mask, pos)

ClearN(r, pos, mask) == r \ Shl(mask, pos)

Or(r, val) == r \cup val

\* bits.SetN
BitsSetN(r, pos, mask, val) == (r \ Shl(mask, pos)) \cup Shl(val, pos)

-----------------------------------------------------------------------------
(* Updates of a field by its driver: [op, bit, val], where the bit and the *)
(* value are relative to the field.                                        *)

\* the functions there are, by width, and on a variable
Ops32 == {"Set", "SetTo", "Clear", "SetN", "ClearN", "WriteBack", "Or"}
Ops16 == {"Set", "SetTo", "Clear", "SetN", "ClearN", "Or"}
Ops64 == {"Set", "SetTo", "Clear", "SetN"}
OpsBits == {"Set", "SetTo", "Clear", "BitsSetN"}

\* values are 32, 16 or 64 bits wide, and may be wider than the field; what Or and
\* bits.SetN are given, their callers have kept to the field
Updates(o, ops) ==
    {u \in [op : ops, bit : Mask[o], val : SUBSET Word] :
        /\ u.op \in {"Or", "BitsSetN"} => u.val \subseteq Mask[o]
        /\ u.op \in {"Set", "Clear", "ClearN", "WriteBack"} => u.val = {}}

\* the register after an update
Apply(o, u, r) ==
    CASE u.op = "Set" -> Set(r, u.bit + Pos[o])
      [] u.op = "Clear" -> Clear(r, u.bit + Pos[o])
      [] u.op = "SetTo" -> SetTo(r, u.bit + Pos[o], u.bit \in u.val)
      [] u.op = "SetN" -> SetN(r, Pos[o], Mask[o], u.val)
      [] u.op = "ClearN" -> ClearN(r, Pos[o], Mask[o])
      [] u.op = "WriteBack" -> r
      [] u.op = "Or" -> Or(r, Shl(u.val, Pos[o]))
      [] u.op = "BitsSetN" -> BitsSetN(r, Pos[o], Mask[o], u.val)

\* what the driver means by it, of its field f alone
Wanted(f, u, mask) ==
    CASE u.op = "Set" -> f \cup {u.bit}
      [] u.op = "Clear" -> f \ {u.bit}
      [] u.op = "SetTo" -> IF u.bit \in u.val THEN f \cup {u.bit} ELSE f \ {u.bit}
      [] u.op = "Or" -> f \cup u.val
      [] u.op = "ClearN" -> {}
      [] u.op = "WriteBack" -> f
      [] OTHER -> u.val \cap mask

NoUpdate == [op |-> "none", bit |-> 0, val |-> {}]

UpdateInit ==
    /\ mem \in SUBSET HwField /\ mu = Free /\ loaded = {}
    /\ want = [o \in Owners |-> {}]
    /\ rmw = NoUpdate

\* LoadUint32 and the like, or reg.Read into a variable for bits
Load(o, u) ==
    /\ mu = Free /\ mu' = o /\ rmw' = u /\ loaded' = mem
    /\ UNCHANGED <<mem, want>>

\* StoreUint32 and the like, or reg.Write of the variable
Store(o) ==
    /\ mu = o /\ mu' = Free
    /\ mem' = Apply(o, rmw, loaded)
    /\ want' = [want EXCEPT ![o] = Wanted(@, rmw, Mask[o])]
    /\ rmw' = NoUpdate /\ loaded' = {}

HwChange(bs) ==
    /\ mem' = (mem \ HwField) \cup bs
    /\ UNCHANGED <<mu, rmw, loaded, want>>

Ops == Ops32 \cup Ops16 \cup Ops64 \cup OpsBits

UpdateNext ==
    \/ \E o \in Owners : (\E u \in Updates(o, Ops) : Load(o, u)) \/ Store(o)
    \/ \E bs \in SUBSET HwField : HwChange(bs)

UpdateSpec == UpdateInit /\ [][UpdateNext]_updateVars

-----------------------------------------------------------------------------
(* Waiting for the hardware's field to have a value.                       *)

WaitInit == wait = [at |-> "idle", how |-> "none", val |-> {}] /\ elapsed = FALSE

Wait(how, val) ==
    /\ wait.at = "idle" /\ wait' = [at |-> "read", how |-> how, val |-> val]
    /\ elapsed' = FALSE

\* the condition of the loop, which is also the last thing looked at before TRUE
WaitRead ==
    /\ wait.at = "read"
    /\ wait' = [wait EXCEPT !.at = IF GetN(mem, HwPos, HwMask) = wait.val
                                   THEN "idle" ELSE "sched"]
    /\ UNCHANGED elapsed

\* mutant: the exit signal is not looked at
WaitSchedTimed ==
    /\ wait.at = "sched"
    /\ wait' = [wait EXCEPT !.at = IF elapsed /\ wait.how = "WaitFor" THEN "idle" ELSE "read"]
    /\ UNCHANGED elapsed

\* runtime.Gosched, then the time-out of WaitFor or the signal of WaitSignal
WaitSched ==
    /\ wait.at = "sched"
    /\ wait' = [wait EXCEPT !.at = IF elapsed /\ wait.how # "Wait" THEN "idle" ELSE "read"]
    /\ UNCHANGED elapsed

\* the time has passed, or the channel is closed
Elapse ==
    /\ wait.at # "idle" /\ elapsed' = TRUE
    /\ UNCHANGED wait

WaitNext ==
    \/ /\ \/ \E how \in {"Wait", "WaitFor", "WaitSignal"}, val \in SUBSET HwMask : Wait(how, val)
          \/ WaitRead \/ WaitSched \/ Elapse
       /\ UNCHANGED updateVars
    \/ \E bs \in SUBSET HwField : HwChange(bs) /\ UNCHANGED waitVars

-----------------------------------------------------------------------------

\* The fields of a register are independent: between updates, each holds what its
\* driver has set it to, whatever other drivers did to theirs with any of the
\* functions, and whatever the hardware did to its own while an update was under way.
FieldsOwn == mu = Free => \A o \in Owners : GetN(mem, Pos[o], Mask[o]) = want[o]

\* A wait with a time-out or an exit signal ends, if not with the value then when
\* the time has passed or the channel is closed.
WaitEnds == (wait.at # "idle" /\ wait.how # "Wait" /\ elapsed) ~> (wait.at = "idle")

\* "SetN modifies the pointed value by setting a value at a specific bit position and
\* with a bitmask applied": a value of any width changes no bit outside of the mask.
BitmaskApplied ==
    \A r, mask, val \in SUBSET Word, pos \in Word :
        BitsSetN(r, pos, mask, val) \ Shl(mask, pos) = r \ Shl(mask, pos)
=============================================================================
