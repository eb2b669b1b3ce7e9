----------------------------- MODULE SocProofs -----------------------------
(***************************************************************************)
(* Proofs about the packages for the systems on chip: register fields keep *)
(* to themselves (FieldsOwn), fuses are those that were asked for          *)
(* (FusesTruth), the units that restrict access hold what was configured   *)
(* (PolicyHolds), and no random byte is handed out twice (EntropyFresh).   *)
(***************************************************************************)
EXTENDS Registers, Security, Rng, ModFacts, TLAPS

-----------------------------------------------------------------------------
(* FieldsOwn for registers of any width with any number of drivers.        *)

\* The invariant: the mutex and the value loaded are a driver's, and both the register
\* and the value loaded hold what the drivers have asked for.
Holds(r) == r \in SUBSET Word /\ \A o \in Owners : GetN(r, Pos[o], Mask[o]) = want[o]

RegInv ==
    /\ want \in [Owners -> SUBSET Word] /\ mu \in Owners \cup {Free}
    /\ Holds(mem)
    /\ mu # Free => Holds(loaded) /\ rmw \in Updates(mu, Ops)

\* What GetN returns, bit by bit, where the field lies inside the register.
LEMMA GetNBits ==
    ASSUME NEW o \in Owners, NEW r \in SUBSET Word, NEW b
    PROVE  b \in GetN(r, Pos[o], Mask[o]) <=> b \in Mask[o] /\ b + Pos[o] \in r
BY RegAssumption DEF GetN, Shr, Word

\* The bits of a field are those of its mask, moved.
LEMMA FieldBits ==
    ASSUME NEW o \in Owners, NEW c
    PROVE  c \in Field(o) <=> \E b \in Mask[o] : c = b + Pos[o]
BY RegAssumption DEF Field, Shl, Word

\* A register that agrees with r outside of the field of o has the other fields of r.
LEMMA OtherFields ==
    ASSUME NEW o \in Owners, NEW p \in Owners, p # o,
           NEW r \in SUBSET Word, NEW s \in SUBSET Word,
           \A c \in Word \ Field(o) : c \in s <=> c \in r
    PROVE  GetN(s, Pos[p], Mask[p]) = GetN(r, Pos[p], Mask[p])
<1>1. ASSUME NEW b PROVE b \in GetN(s, Pos[p], Mask[p]) <=> b \in GetN(r, Pos[p], Mask[p])
    <2>1. CASE b \notin Mask[p]
        BY <2>1, GetNBits, Zenon
    <2>2. CASE b \in Mask[p]
        <3>1. b + Pos[p] \in Field(p)
            BY <2>2, FieldBits
        <3>2. b + Pos[p] \in Word \ Field(o)
            BY <2>2, <3>1, RegAssumption
        <3> QED
            BY <3>2, GetNBits
    <2> QED
        BY <2>1, <2>2
<1>2. /\ GetN(s, Pos[p], Mask[p]) \subseteq Mask[p]
      /\ GetN(r, Pos[p], Mask[p]) \subseteq Mask[p]
    BY DEF GetN
<1> QED
    BY <1>1, <1>2, Zenon

\* A field is W if its bits are.
LEMMA FieldIs ==
    ASSUME NEW o \in Owners, NEW s \in SUBSET Word, NEW W \in SUBSET Mask[o],
           \A b \in Mask[o] : b + Pos[o] \in s <=> b \in W
    PROVE  GetN(s, Pos[o], Mask[o]) = W
<1>1. ASSUME NEW b PROVE b \in GetN(s, Pos[o], Mask[o]) <=> b \in W
    BY GetNBits
<1> QED
    BY <1>1

\* What the functions with a mask do to each bit.
LEMMA ShlBits ==
    ASSUME NEW o \in Owners, NEW v \in SUBSET Mask[o]
    PROVE  /\ Shl(v, Pos[o]) \subseteq Field(o)
           /\ \A b \in Mask[o] : b + Pos[o] \in Shl(v, Pos[o]) <=> b \in v
<1>1. Mask[o] \subseteq Word /\ Pos[o] \in Word /\ Word \subseteq Int
    BY RegAssumption DEF Word
<1>2. Shl(v, Pos[o]) \subseteq Field(o)
    BY <1>1 DEF Shl, Field
<1>3. ASSUME NEW b \in Mask[o] PROVE b + Pos[o] \in Shl(v, Pos[o]) <=> b \in v
    <2>1. b + Pos[o] \in Word
        BY RegAssumption
    <2>2. b \in Int /\ Pos[o] \in Int /\ \A c \in v : c \in Int
        BY <1>1, Zenon
    <2>3. \A x, y, z \in Int : x + z = y + z => x = y
        OBVIOUS
    <2>4. \A c \in v : c + Pos[o] = b + Pos[o] => c = b
        BY <2>2, <2>3, Zenon
    <2> QED
        BY <2>1, <2>4 DEF Shl
<1> QED
    BY <1>2, <1>3

\* The register r with the bits D of a field cleared and the bits A set.
Changed(o, r, D, A) == (r \ Shl(D, Pos[o])) \cup Shl(A, Pos[o])

\* Clearing the bits D of a field and setting the bits A changes nothing else.
LEMMA Change ==
    ASSUME NEW o \in Owners, NEW r \in SUBSET Word,
           NEW D \in SUBSET Mask[o], NEW A \in SUBSET Mask[o]
    PROVE  /\ Changed(o, r, D, A) \in SUBSET Word
           /\ \A c \in Word \ Field(o) : c \in Changed(o, r, D, A) <=> c \in r
           /\ GetN(Changed(o, r, D, A), Pos[o], Mask[o]) = (GetN(r, Pos[o], Mask[o]) \ D) \cup A
<1> DEFINE s == Changed(o, r, D, A)
           W == (GetN(r, Pos[o], Mask[o]) \ D) \cup A
<1>1. s \in SUBSET Word
    BY DEF Shl, Changed
<1>2. \A c \in Word \ Field(o) : c \in s <=> c \in r
    BY ShlBits DEF Changed
<1>3. W \in SUBSET Mask[o]
    BY DEF GetN
<1>4. \A b \in Mask[o] : b + Pos[o] \in s <=> b \in W
    BY ShlBits, GetNBits DEF Changed
<1>5. GetN(s, Pos[o], Mask[o]) = W
    <2> HIDE DEF s, W
    <2> QED
        BY <1>1, <1>3, <1>4, FieldIs
<1> QED
    BY <1>1, <1>2, <1>5

\* An update changes the field of its driver to what is wanted, and nothing else.
LEMMA ApplyField ==
    ASSUME NEW o \in Owners, NEW r \in SUBSET Word, NEW u \in Updates(o, Ops)
    PROVE  /\ Apply(o, u, r) \in SUBSET Word
           /\ \A c \in Word \ Field(o) : c \in Apply(o, u, r) <=> c \in r
           /\ GetN(Apply(o, u, r), Pos[o], Mask[o])
                = Wanted(GetN(r, Pos[o], Mask[o]), u, Mask[o])
<1> DEFINE f == GetN(r, Pos[o], Mask[o])
<1>1. u.bit \in Mask[o] /\ Mask[o] \in SUBSET Mask[o] /\ f \subseteq Mask[o]
    BY DEF Updates, GetN
<1>2. Shl({u.bit}, Pos[o]) = {u.bit + Pos[o]} /\ Shl({}, Pos[o]) = {}
    BY <1>1, RegAssumption DEF Shl
<1>3. SUFFICES \E D, A \in SUBSET Mask[o] :
                   Apply(o, u, r) = Changed(o, r, D, A) /\ Wanted(f, u, Mask[o]) = (f \ D) \cup A
    <2>1. PICK D, A \in SUBSET Mask[o] :
              Apply(o, u, r) = Changed(o, r, D, A) /\ Wanted(f, u, Mask[o]) = (f \ D) \cup A
        BY <1>3
    <2>2. /\ Changed(o, r, D, A) \in SUBSET Word
          /\ \A c \in Word \ Field(o) : c \in Changed(o, r, D, A) <=> c \in r
          /\ GetN(Changed(o, r, D, A), Pos[o], Mask[o]) = (f \ D) \cup A
        BY Change
    <2> QED
        BY <2>1, <2>2, Zenon
<1> HIDE DEF f
<1>4. CASE u.op = "Set"
    <2>1. Apply(o, u, r) = Changed(o, r, {}, {u.bit}) /\ Wanted(f, u, Mask[o]) = (f \ {}) \cup {u.bit}
        BY <1>2, <1>4 DEF Apply, Wanted, Changed, Set
    <2> QED
        BY <1>1, <2>1
<1>5. CASE u.op = "Clear"
    <2>1. Apply(o, u, r) = Changed(o, r, {u.bit}, {}) /\ Wanted(f, u, Mask[o]) = (f \ {u.bit}) \cup {}
        BY <1>2, <1>5 DEF Apply, Wanted, Changed, Clear
    <2> QED
        BY <1>1, <2>1
<1>6. CASE u.op = "SetTo" /\ u.bit \in u.val
    <2>1. Apply(o, u, r) = Changed(o, r, {}, {u.bit}) /\ Wanted(f, u, Mask[o]) = (f \ {}) \cup {u.bit}
        BY <1>2, <1>6 DEF Apply, Wanted, Changed, SetTo, Set
    <2> QED
        BY <1>1, <2>1
<1>7. CASE u.op = "SetTo" /\ u.bit \notin u.val
    <2>1. Apply(o, u, r) = Changed(o, r, {u.bit}, {}) /\ Wanted(f, u, Mask[o]) = (f \ {u.bit}) \cup {}
        BY <1>2, <1>7 DEF Apply, Wanted, Changed, SetTo, Clear
    <2> QED
        BY <1>1, <2>1
<1>8. CASE u.op = "SetN"
    <2>1. /\ Apply(o, u, r) = Changed(o, r, Mask[o], u.val \cap Mask[o])
          /\ Wanted(f, u, Mask[o]) = (f \ Mask[o]) \cup (u.val \cap Mask[o])
        BY <1>1, <1>8 DEF Apply, Wanted, Changed, SetN
    <2> QED
        BY <1>1, <2>1
<1>9. CASE u.op = "BitsSetN"
    <2>1. u.val \subseteq Mask[o]
        BY <1>9 DEF Updates
    <2>2. /\ Apply(o, u, r) = Changed(o, r, Mask[o], u.val)
          /\ Wanted(f, u, Mask[o]) = (f \ Mask[o]) \cup u.val
        BY <1>1, <1>9, <2>1 DEF Apply, Wanted, Changed, BitsSetN
    <2> QED
        BY <1>1, <2>1, <2>2
<1>10. CASE u.op = "ClearN"
    <2>1. /\ Apply(o, u, r) = Changed(o, r, Mask[o], {})
          /\ Wanted(f, u, Mask[o]) = (f \ Mask[o]) \cup {}
        BY <1>1, <1>2, <1>10 DEF Apply, Wanted, Changed, ClearN
    <2> QED
        BY <1>1, <2>1
<1>11. CASE u.op = "WriteBack"
    <2>1. Apply(o, u, r) = Changed(o, r, {}, {}) /\ Wanted(f, u, Mask[o]) = (f \ {}) \cup {}
        BY <1>2, <1>11 DEF Apply, Wanted, Changed
    <2> QED
        BY <1>1, <2>1
<1>12. CASE u.op = "Or"
    <2>1. u.val \subseteq Mask[o]
        BY <1>12 DEF Updates
    <2>2. Apply(o, u, r) = Changed(o, r, {}, u.val) /\ Wanted(f, u, Mask[o]) = (f \ {}) \cup u.val
        BY <1>2, <1>12 DEF Apply, Wanted, Changed, Or
    <2> QED
        BY <1>1, <2>1, <2>2
<1>13. u.op \in {"Set", "Clear", "SetTo", "SetN", "BitsSetN", "ClearN", "WriteBack", "Or"}
    BY DEF Updates, Ops, Ops32, Ops16, Ops64, OpsBits
<1> QED
    BY <1>4, <1>5, <1>6, <1>7, <1>8, <1>9, <1>10, <1>11, <1>12, <1>13

\* FieldsOwn holds of registers of every width, with any number of drivers, whatever
\* functions they update their fields with.
THEOREM FieldsIndependent == UpdateSpec => []FieldsOwn
<1>1. UpdateInit => RegInv
    <2> SUFFICES ASSUME UpdateInit PROVE RegInv
        OBVIOUS
    <2>1. mem \in SUBSET Word
        BY DEF UpdateInit, HwField, Shl
    <2>2. ASSUME NEW o \in Owners PROVE GetN(mem, Pos[o], Mask[o]) = want[o]
        <3>1. \A b \in Mask[o] : b + Pos[o] \in Field(o)
            BY FieldBits
        <3>2. \A b \in Mask[o] : b + Pos[o] \notin mem
            BY <3>1, RegAssumption DEF UpdateInit
        <3>3. \A b : b \notin GetN(mem, Pos[o], Mask[o])
            BY <2>1, <3>2, GetNBits
        <3> QED
            BY <3>3 DEF UpdateInit
    <2> QED
        BY <2>1, <2>2 DEF UpdateInit, RegInv, Holds
<1>2. RegInv /\ [UpdateNext]_updateVars => RegInv'
    <2> SUFFICES ASSUME RegInv, [UpdateNext]_updateVars PROVE RegInv'
        OBVIOUS
    <2>1. ASSUME NEW o \in Owners, NEW u \in Updates(o, Ops), Load(o, u) PROVE RegInv'
        BY <2>1, RegAssumption DEF RegInv, Load, Holds
    <2>2. ASSUME NEW o \in Owners, Store(o) PROVE RegInv'
        <3>1. mu = o /\ o # Free /\ Holds(loaded) /\ rmw \in Updates(o, Ops)
            BY <2>2, RegAssumption DEF Store, RegInv
        <3>2. /\ mem' = Apply(o, rmw, loaded) /\ mu' = Free
              /\ want' = [want EXCEPT ![o] = Wanted(@, rmw, Mask[o])]
            BY <2>2 DEF Store
        <3>3. /\ mem' \in SUBSET Word
              /\ \A c \in Word \ Field(o) : c \in mem' <=> c \in loaded
              /\ GetN(mem', Pos[o], Mask[o]) = Wanted(want[o], rmw, Mask[o])
            BY <3>1, <3>2, ApplyField DEF Holds
        <3>4. GetN(mem', Pos[o], Mask[o]) \in SUBSET Word
            BY RegAssumption DEF GetN
        <3>5. want' \in [Owners -> SUBSET Word]
            BY <3>2, <3>3, <3>4 DEF RegInv
        <3>6. ASSUME NEW p \in Owners PROVE GetN(mem', Pos[p], Mask[p]) = want'[p]
            <4>1. CASE p = o
                BY <3>2, <3>3, <4>1 DEF RegInv
            <4>2. CASE p # o
                <5>1. loaded \in SUBSET Word /\ GetN(loaded, Pos[p], Mask[p]) = want[p]
                    BY <3>1 DEF Holds
                <5>2. GetN(mem', Pos[p], Mask[p]) = GetN(loaded, Pos[p], Mask[p])
                    BY <3>3, <4>2, <5>1, OtherFields
                <5> QED
                    BY <3>2, <4>2, <5>1, <5>2 DEF RegInv
            <4> QED
                BY <4>1, <4>2
        <3> QED
            BY <3>2, <3>3, <3>5, <3>6 DEF RegInv, Holds
    <2>3. ASSUME NEW bs \in SUBSET HwField, HwChange(bs) PROVE RegInv'
        <3>1. mem' \in SUBSET Word /\ mem \in SUBSET Word
            BY <2>3 DEF HwChange, RegInv, Holds, HwField, Shl
        <3>2. ASSUME NEW p \in Owners PROVE GetN(mem', Pos[p], Mask[p]) = want[p]
            <4>1. \A b \in Mask[p] : b + Pos[p] \in mem' <=> b + Pos[p] \in mem
                BY <2>3, FieldBits, RegAssumption DEF HwChange
            <4>2. \A b \in Mask[p] : b + Pos[p] \in mem' <=> b \in want[p]
                BY <3>1, <4>1, GetNBits DEF RegInv, Holds
            <4>3. want[p] \subseteq Mask[p]
                BY DEF RegInv, Holds, GetN
            <4> QED
                BY <3>1, <4>2, <4>3, FieldIs, Zenon
        <3> QED
            BY <2>3, <3>1, <3>2 DEF HwChange, RegInv, Holds
    <2>4. CASE UNCHANGED updateVars
        BY <2>4 DEF RegInv, Holds, updateVars
    <2> QED
        BY <2>1, <2>2, <2>3, <2>4 DEF UpdateNext
<1>3. RegInv => FieldsOwn
    BY DEF RegInv, Holds, FieldsOwn
<1> QED
    BY <1>1, <1>2, <1>3, PTL DEF UpdateSpec

-----------------------------------------------------------------------------
(* Fuses.                                                                  *)

\* A word of a bank has the shadow register that Read computes.
LEMMA ShadowIndex ==
    ASSUME NEW b \in Nat, NEW w \in 0 .. BankSize - 1
    PROVE  HwShadow(Index(b, w)) = Shadow(b, w)
<1>1. BankSize \in Nat \ {0}
  BY FuseAssumption DEF FuseConstants
<1>2. PICK x \in Int : x = BankSize * b + w
  BY <1>1
<1>3. x % BankSize \in 0 .. BankSize - 1 /\ x \div BankSize \in Int
      /\ x = BankSize * (x \div BankSize) + (x % BankSize)
  BY <1>1, DivMod
<1>4. x \div BankSize = b /\ x % BankSize = w
  BY <1>1, <1>2, <1>3, DivUnique
<1>5. QED
  BY <1>2, <1>4 DEF HwShadow, BankOf, Index

\* Words are numbers, and a shadow register is the word past the gap.
LEMMA ShadowGap ==
    ASSUME NEW x \in Words
    PROVE  /\ x \in Nat /\ BankOf(x) \in Int
           /\ BankSize * BankOf(x) <= x /\ x < BankSize * BankOf(x) + BankSize
           /\ HwShadow(x) = x + (IF BankOf(x) > 5 THEN 16 ELSE 0)
<1>1. BankSize \in Nat \ {0} /\ BlowBanks \subseteq Nat
  BY FuseAssumption DEF FuseConstants
<1>2. x \in Nat
  <2>1. PICK b \in BlowBanks, w \in 0 .. BankSize : x = BankSize * b + w
    BY DEF Words, Index
  <2>2. b \in Nat /\ w \in Nat
    BY <1>1, <2>1
  <2>3. BankSize * b \in Nat
    BY <1>1, <2>2
  <2>4. QED
    BY <2>1, <2>2, <2>3
<1>3. x % BankSize \in 0 .. BankSize - 1 /\ x \div BankSize \in Int
      /\ x = BankSize * (x \div BankSize) + (x % BankSize)
  BY <1>1, <1>2, DivMod
<1>4. BankSize * (x \div BankSize) \in Int
  BY <1>1, <1>3
<1>5. QED
  BY <1>1, <1>2, <1>3, <1>4 DEF HwShadow, Shadow, Index, BankOf

\* No two words share a shadow register: the gap grows with the bank.
LEMMA ShadowApart ==
    ASSUME NEW x \in Words, NEW y \in Words, x < y
    PROVE  HwShadow(x) < HwShadow(y)
<1>1. BankSize \in Nat \ {0}
  BY FuseAssumption DEF FuseConstants
<1>2. PICK p \in Int : p = BankOf(x)
  BY ShadowGap
<1>3. PICK q \in Int : q = BankOf(y)
  BY ShadowGap
<1>4. x \in Nat /\ BankSize * p <= x /\ HwShadow(x) = x + (IF p > 5 THEN 16 ELSE 0)
  BY <1>2, ShadowGap
<1>5. y \in Nat /\ y < BankSize * q + BankSize /\ HwShadow(y) = y + (IF q > 5 THEN 16 ELSE 0)
  BY <1>3, ShadowGap
<1>6. p <= q
  <2>1. SUFFICES ASSUME p > q PROVE FALSE
    OBVIOUS
  <2>2. PICK d \in Nat : p = q + 1 + d
    <3>1. p - q - 1 \in Nat /\ p = q + 1 + (p - q - 1)
      BY <2>1
    <3>2. QED
      BY <3>1
  <2>3. BankSize * p = BankSize * q + BankSize + BankSize * d /\ BankSize * d \in Nat /\ BankSize * q \in Int
    BY <1>1, <2>2
  <2>4. QED
    BY <1>4, <1>5, <2>3, <1>1
<1>7. QED
  BY <1>4, <1>5, <1>6

\* A reload shows each word in its own register.
LEMMA Reloaded ==
    ASSUME NEW x \in Words
    PROVE  (CHOOSE y \in Words : HwShadow(y) = HwShadow(x)) = x
<1>1. ASSUME NEW y \in Words, HwShadow(y) = HwShadow(x) PROVE y = x
  <2>1. x \in Nat /\ y \in Nat /\ HwShadow(x) \in Int
    BY ShadowGap
  <2>2. ~(x < y) /\ ~(y < x)
    BY <1>1, <2>1, ShadowApart
  <2>3. QED
    BY <2>1, <2>2
<1>2. QED
  BY <1>1

\* Values are sets of these; the shadow registers there are; what may be asked for.
Bits == UNION Values
Asked == [word : [Words -> SUBSET Bits], byte : [Bytes -> SUBSET Bits]]
ShadowRegisters == {HwShadow(y) : y \in Words}

\* The OCOTP, field by field.
Ocotp ==
    [at : {"idle", "blow", "check", "reload", "recheck", "ok", "failed"}, word : Nat,
     value : SUBSET Bits, calls : Nat, failed : BOOLEAN,
     read : {<<>>} \cup (BlowBanks \X Nat \X SUBSET Bits),
     busy : {"no", "blow", "reload"}, error : BOOLEAN, addr : Nat, data : SUBSET Bits,
     fuses : [Words -> SUBSET Bits], shadow : [ShadowRegisters -> SUBSET Bits]]

OcotpType == ocotp \in Ocotp /\ fuseAsked \in Asked

\* The shadow registers show the fuses.
Synced == \A x \in Words : ocotp.shadow[HwShadow(x)] = ocotp.fuses[x]

\* the operation that is under way, and what has been done when none is
OcotpState ==
    /\ \A x \in Words : ocotp.fuses[x] \subseteq fuseAsked.word[x]
    /\ ocotp.at # "idle" => ocotp.word \in Words /\ ocotp.value \subseteq fuseAsked.word[ocotp.word]
    /\ ocotp.busy = "blow" => ocotp.addr \in Words /\ ocotp.data \subseteq fuseAsked.word[ocotp.addr]
    /\ ocotp.at = "check" =>
          /\ ocotp.busy \in {"no", "blow"}
          /\ ocotp.busy = "blow" => ocotp.addr = ocotp.word /\ ocotp.data = ocotp.value
          /\ ocotp.busy = "no" /\ ~ocotp.error => ocotp.value \subseteq ocotp.fuses[ocotp.word]
    /\ ocotp.at \in {"reload", "recheck", "ok"} => ocotp.value \subseteq ocotp.fuses[ocotp.word]
    /\ ocotp.at = "reload" => ocotp.busy = "no"
    /\ ocotp.at = "recheck" =>
          /\ ocotp.busy \in {"no", "reload"}
          /\ ocotp.busy = "no" /\ ~ocotp.error => Synced
    /\ ocotp.at = "ok" \/ (ocotp.at = "idle" /\ ~ocotp.failed) => ocotp.busy = "no" /\ Synced
    /\ ocotp.read # <<>> =>
          /\ ocotp.at = "idle"
          /\ ocotp.read[2] < BankSize /\ ~ocotp.failed =>
                ocotp.read[3] = ocotp.fuses[Index(ocotp.read[1], ocotp.read[2])]

OcotpInv == OcotpType /\ OcotpState

\* Blow, the call: nothing else asked for so far is taken back.
LEMMA OcotpBlow ==
    ASSUME OcotpInv, NEW b \in BlowBanks, NEW w \in 0 .. BankSize - 1, NEW v \in Values, Blow(b, w, v)
    PROVE  OcotpInv'
<1>1. Index(b, w) \in Words /\ Index(b, w) \in Nat /\ v \in SUBSET Bits
  <2>1. w \in 0 .. BankSize
    BY FuseAssumption DEF FuseConstants
  <2>2. Index(b, w) \in Words
    BY <2>1 DEF Words
  <2>3. QED
    BY <2>2, ShadowGap DEF Bits
<1>2. OcotpType'
  <2>1. ocotp' \in Ocotp
    <3>1. PICK n \in Nat : n = ocotp.calls + 1
      BY DEF OcotpInv, OcotpType, Asked, Ocotp
    <3>2. ocotp' = [ocotp EXCEPT !.at = "blow", !.calls = n, !.word = Index(b, w), !.value = v, !.read = <<>>]
      BY <3>1, Zenon DEF Blow
    <3>3. QED
      BY <1>1, <3>2, Zenon DEF OcotpInv, OcotpType, Asked, Ocotp
  <2>2. PICK a \in [Words -> SUBSET Bits] : a = [fuseAsked.word EXCEPT ![Index(b, w)] = @ \cup v]
    BY <1>1, Zenon DEF OcotpInv, OcotpType, Asked
  <2>3. fuseAsked' = [fuseAsked EXCEPT !.word = a]
    BY <2>2 DEF Blow
  <2>4. fuseAsked' \in [word : [Words -> SUBSET Bits], byte : [Bytes -> SUBSET Bits]]
    BY <2>2, <2>3 DEF OcotpInv, OcotpType, Asked
  <2>5. QED
    BY <2>1, <2>4 DEF OcotpType, Asked
<1>3. OcotpState'
  BY <1>1 DEF OcotpInv, OcotpType, Asked, OcotpState, Synced, Blow, Ocotp
<1>4. QED
  BY <1>2, <1>3 DEF OcotpInv

\* Read: a word of a bank is in its shadow register.
LEMMA OcotpRead ==
    ASSUME OcotpInv, NEW b \in BlowBanks, NEW w \in 0 .. BankSize + 1, Read(b, w)
    PROVE  OcotpInv'
<1>1. CASE ocotp' = [ocotp EXCEPT !.calls = @ + 1, !.read = <<>>]
  <2>1. OcotpType'
    <3>1. PICK n \in Nat : n = ocotp.calls + 1
      BY DEF OcotpInv, OcotpType, Asked, Ocotp
    <3>2. ocotp' = [ocotp EXCEPT !.calls = n, !.read = <<>>]
      BY <1>1, <3>1, Zenon
    <3>3. QED
      BY <3>2, Zenon DEF OcotpInv, OcotpType, Asked, Ocotp, Read
  <2>2. OcotpState'
    BY <1>1, Zenon DEF OcotpInv, OcotpType, Asked, OcotpState, Synced, Read, Ocotp
  <2>3. QED
    BY <2>1, <2>2 DEF OcotpInv
<1>2. ASSUME NEW v \in SUBSET Bits, w < BankSize => v = ocotp.shadow[Shadow(b, w)],
             ocotp' = [ocotp EXCEPT !.calls = @ + 1, !.read = <<b, w, v>>]
      PROVE  OcotpInv'
  <2>0. w \in Nat /\ BankSize \in Nat \ {0} /\ b \in Nat
    BY FuseAssumption DEF FuseConstants
  <2>1. OcotpType'
    <3>1. PICK n \in Nat : n = ocotp.calls + 1
      BY DEF OcotpInv, OcotpType, Asked, Ocotp
    <3>2. ocotp' = [ocotp EXCEPT !.calls = n, !.read = <<b, w, v>>]
      BY <1>2, <3>1, Zenon
    <3>3. PICK rd \in BlowBanks \X Nat \X SUBSET Bits : rd = <<b, w, v>>
      BY <1>2, <2>0, Zenon
    <3>4. ocotp' = [ocotp EXCEPT !.calls = n, !.read = rd]
      BY <3>2, <3>3, Zenon
    <3>5. QED
      BY <3>4, Zenon DEF OcotpInv, OcotpType, Asked, Ocotp, Read
  <2>2. ASSUME w < BankSize, ~ocotp.failed PROVE v = ocotp.fuses[Index(b, w)]
    <3>1. w \in 0 .. BankSize - 1 /\ w \in 0 .. BankSize
      BY <2>0, <2>2
    <3>2. Index(b, w) \in Words /\ HwShadow(Index(b, w)) = Shadow(b, w)
      BY <2>0, <3>1, ShadowIndex DEF Words
    <3>3. Synced
      BY <2>2, Zenon DEF OcotpInv, OcotpState, Read
    <3>4. QED
      BY <1>2, <2>2, <3>2, <3>3 DEF Synced
  <2>3. OcotpState'
    <3>1. ocotp'.read = <<b, w, v>> /\ ocotp'.at = "idle"
      BY <1>2, Zenon DEF OcotpInv, OcotpType, Asked, Ocotp, Read
    <3>2. ocotp'.fuses = ocotp.fuses /\ ocotp'.failed = ocotp.failed /\ ocotp'.shadow = ocotp.shadow
          /\ ocotp'.busy = ocotp.busy /\ ocotp'.addr = ocotp.addr /\ ocotp'.data = ocotp.data
      BY <1>2 DEF OcotpInv, OcotpType, Asked, Ocotp
    <3>3. ocotp'.read[1] = b /\ ocotp'.read[2] = w /\ ocotp'.read[3] = v
      BY <3>1
    <3>4. fuseAsked' = fuseAsked /\ ocotp.at = "idle"
      BY Zenon DEF Read
    <3>5. QED
      BY <2>2, <3>1, <3>2, <3>3, <3>4, Zenon DEF OcotpInv, OcotpState, Synced
  <2>4. QED
    BY <2>1, <2>3 DEF OcotpInv
<1>3. QED
  <2>1. CASE b > Banks \/ w > BankSize
    BY <1>1, <2>1, Zenon DEF Read
  <2>2. CASE ~(b > Banks \/ w > BankSize)
    <3>1. PICK v \in IF Shadow(b, w) \in DOMAIN ocotp.shadow
                     THEN {ocotp.shadow[Shadow(b, w)]} ELSE Values :
                ocotp' = [ocotp EXCEPT !.calls = @ + 1, !.read = <<b, w, v>>]
      BY <2>2, Zenon DEF Read
    <3>2. v \in SUBSET Bits
      BY <3>1 DEF OcotpInv, OcotpType, Asked, Ocotp, Bits
    <3>3. ASSUME w < BankSize PROVE v = ocotp.shadow[Shadow(b, w)]
      <4>1. w \in 0 .. BankSize - 1 /\ w \in 0 .. BankSize /\ b \in Nat
        BY <3>3, FuseAssumption DEF FuseConstants
      <4>2. Index(b, w) \in Words /\ HwShadow(Index(b, w)) = Shadow(b, w)
        BY <4>1, ShadowIndex DEF Words
      <4>3. DOMAIN ocotp.shadow = ShadowRegisters
        BY DEF OcotpInv, OcotpType, Asked, Ocotp
      <4>4. Shadow(b, w) \in DOMAIN ocotp.shadow
        BY <4>2, <4>3 DEF ShadowRegisters
      <4>5. QED
        BY <3>1, <4>4
    <3>4. QED
      BY <1>2, <3>1, <3>2, <3>3, Zenon
  <2>3. QED
    BY <2>1, <2>2

\* The operation that blows fuses starts only when no other is under way.
LEMMA OcotpBlowStart == ASSUME OcotpInv, BlowStart PROVE OcotpInv'
<1>1. CASE ocotp' = [ocotp EXCEPT !.at = "failed"]
  <2>1. OcotpType'
    BY <1>1 DEF OcotpInv, OcotpType, Asked, Ocotp, BlowStart
  <2>2. OcotpState'
    BY <1>1 DEF OcotpInv, OcotpType, Asked, Ocotp, OcotpState, Synced, BlowStart
  <2>3. QED
    BY <2>1, <2>2 DEF OcotpInv
<1>2. CASE ocotp.busy = "no" /\ ocotp' = [ocotp EXCEPT !.at = "check", !.error = FALSE, !.addr = ocotp.word,
                                                            !.data = ocotp.value, !.busy = "blow"]
  <2>1. OcotpType'
    BY <1>2, Zenon DEF OcotpInv, OcotpType, Asked, Ocotp, BlowStart
  <2>2. OcotpState'
    BY <1>2 DEF OcotpInv, OcotpType, Asked, Ocotp, OcotpState, Synced, BlowStart
  <2>3. QED
    BY <2>1, <2>2 DEF OcotpInv
<1>3. QED
  BY <1>1, <1>2 DEF BlowStart, Start

\* The shadow registers are read again after the fuses were blown.
LEMMA OcotpReload == ASSUME OcotpInv, shadowReload PROVE OcotpInv'
<1>1. CASE ocotp' = [ocotp EXCEPT !.at = "failed"]
  <2>1. OcotpType'
    BY <1>1 DEF OcotpInv, OcotpType, Asked, Ocotp, shadowReload
  <2>2. OcotpState'
    BY <1>1 DEF OcotpInv, OcotpType, Asked, Ocotp, OcotpState, Synced, shadowReload
  <2>3. QED
    BY <2>1, <2>2 DEF OcotpInv
<1>2. CASE ocotp.busy = "no" /\ ocotp' = [ocotp EXCEPT !.at = "recheck", !.error = FALSE, !.busy = "reload"]
  <2>1. OcotpType'
    BY <1>2, Zenon DEF OcotpInv, OcotpType, Asked, Ocotp, shadowReload
  <2>2. OcotpState'
    BY <1>2 DEF OcotpInv, OcotpType, Asked, Ocotp, OcotpState, Synced, shadowReload
  <2>3. QED
    BY <2>1, <2>2 DEF OcotpInv
<1>3. QED
  BY <1>1, <1>2 DEF shadowReload, Start

\* An operation that ended without error did what it was told.
LEMMA OcotpCheck == ASSUME OcotpInv, checkOp PROVE OcotpInv'
<1>1. CASE ocotp' = [ocotp EXCEPT !.at = "failed"]
  <2>1. OcotpType'
    BY <1>1 DEF OcotpInv, OcotpType, Asked, Ocotp, checkOp
  <2>2. OcotpState'
    BY <1>1 DEF OcotpInv, OcotpType, Asked, Ocotp, OcotpState, Synced, checkOp
  <2>3. QED
    BY <2>1, <2>2 DEF OcotpInv
<1>2. CASE ocotp.busy = "no" /\ ocotp' = [ocotp EXCEPT !.at = IF ocotp.error THEN "failed"
                                                                  ELSE IF @ = "check" THEN "reload" ELSE "ok"]
  <2>1. OcotpType'
    BY <1>2 DEF OcotpInv, OcotpType, Asked, Ocotp, checkOp
  <2>2. OcotpState'
    BY <1>2 DEF OcotpInv, OcotpType, Asked, Ocotp, OcotpState, Synced, checkOp
  <2>3. QED
    BY <2>1, <2>2 DEF OcotpInv
<1>3. QED
  BY <1>1, <1>2 DEF checkOp

\* What Blow returns.
LEMMA OcotpReturn == ASSUME OcotpInv, BlowReturn PROVE OcotpInv'
<1>1. CASE ocotp.at = "ok" /\ ocotp' = [ocotp EXCEPT !.at = "idle", !.failed = FALSE]
  <2>1. OcotpType'
    BY <1>1, Zenon DEF OcotpInv, OcotpType, Asked, Ocotp, BlowReturn
  <2>2. OcotpState'
    BY <1>1 DEF OcotpInv, OcotpType, Asked, Ocotp, OcotpState, Synced, BlowReturn
  <2>3. QED
    BY <2>1, <2>2 DEF OcotpInv
<1>2. CASE ocotp.at = "failed" /\ ocotp' = [ocotp EXCEPT !.at = "idle", !.failed = TRUE]
  <2>1. OcotpType'
    BY <1>2, Zenon DEF OcotpInv, OcotpType, Asked, Ocotp, BlowReturn
  <2>2. OcotpState'
    BY <1>2, Zenon DEF OcotpInv, OcotpType, Asked, Ocotp, OcotpState, Synced, BlowReturn
  <2>3. QED
    BY <2>1, <2>2 DEF OcotpInv
<1>3. QED
  BY <1>1, <1>2, Zenon DEF BlowReturn

\* The controller ends an operation, whoever waits for it.
LEMMA OcotpHw == ASSUME OcotpInv, HwOcotp PROVE OcotpInv'
<1>1. CASE ocotp' = [ocotp EXCEPT !.busy = "no", !.error = TRUE]
  <2>1. OcotpType'
    BY <1>1, Zenon DEF OcotpInv, OcotpType, Asked, Ocotp, HwOcotp
  <2>2. OcotpState'
    BY <1>1 DEF OcotpInv, OcotpType, Asked, Ocotp, OcotpState, Synced, HwOcotp
  <2>3. QED
    BY <2>1, <2>2 DEF OcotpInv
<1>2. CASE ocotp.busy = "blow" /\ ocotp' = [ocotp EXCEPT !.busy = "no", !.fuses[ocotp.addr] = @ \cup ocotp.data]
  <2>1. PICK f \in [Words -> SUBSET Bits] : f = [ocotp.fuses EXCEPT ![ocotp.addr] = @ \cup ocotp.data]
    BY <1>2, Zenon DEF OcotpInv, OcotpType, Asked, Ocotp, OcotpState
  <2>2. ocotp' = [ocotp EXCEPT !.busy = "no", !.fuses = f]
    BY <1>2, <2>1
  <2>3. OcotpType'
    BY <2>2, Zenon DEF OcotpInv, OcotpType, Asked, Ocotp, HwOcotp
  <2>4. \A x \in Words : ocotp.fuses[x] \subseteq f[x] /\ f[x] \subseteq fuseAsked.word[x]
    BY <1>2, <2>1 DEF OcotpInv, OcotpType, Asked, Ocotp, OcotpState
  <2>5. ocotp.data \subseteq f[ocotp.addr]
    BY <1>2, <2>1 DEF OcotpInv, OcotpType, Asked, Ocotp, OcotpState
  <2>6. OcotpState'
    BY <1>2, <2>2, <2>4, <2>5 DEF OcotpInv, OcotpType, Asked, Ocotp, OcotpState, Synced, HwOcotp
  <2>7. QED
    BY <2>3, <2>6 DEF OcotpInv
<1>3. CASE ocotp.busy = "reload" /\ ocotp' = [ocotp EXCEPT !.busy = "no", !.shadow = [x \in DOMAIN @ |->
                       ocotp.fuses[CHOOSE y \in Words : HwShadow(y) = x]]]
  <2>1. PICK f : f = [x \in ShadowRegisters |-> ocotp.fuses[CHOOSE y \in Words : HwShadow(y) = x]]
    BY Zenon
  <2>2. ocotp' = [ocotp EXCEPT !.busy = "no", !.shadow = f]
    <3>1. DOMAIN ocotp.shadow = ShadowRegisters
      BY DEF OcotpInv, OcotpType, Asked, Ocotp
    <3>2. QED
      BY <1>3, <2>1, <3>1
  <2>3. \A x \in Words : f[HwShadow(x)] = ocotp.fuses[x]
    <3>1. \A x \in Words : HwShadow(x) \in ShadowRegisters
      BY DEF ShadowRegisters
    <3>2. QED
      BY <2>1, <3>1, Reloaded, Zenon
  <2>4. f \in [ShadowRegisters -> SUBSET Bits]
    <3>1. \A r \in ShadowRegisters : \E x \in Words : r = HwShadow(x)
      BY DEF ShadowRegisters
    <3>2. \A r \in ShadowRegisters : f[r] \in SUBSET Bits
      BY <2>3, <3>1 DEF OcotpInv, OcotpType, Asked, Ocotp
    <3>3. QED
      BY <2>1, <3>2, Zenon
  <2>5. OcotpType'
    BY <2>2, <2>4, Zenon DEF OcotpInv, OcotpType, Asked, Ocotp, HwOcotp
  <2>6. ocotp' = [ocotp EXCEPT !.busy = "no", !.shadow = f] /\ fuseAsked' = fuseAsked /\ ocotp \in Ocotp
    BY <2>2, Zenon DEF OcotpInv, OcotpType, HwOcotp
  <2>7. /\ ocotp'.at = ocotp.at /\ ocotp'.word = ocotp.word /\ ocotp'.value = ocotp.value
        /\ ocotp'.failed = ocotp.failed /\ ocotp'.read = ocotp.read /\ ocotp'.fuses = ocotp.fuses
        /\ ocotp'.busy = "no" /\ ocotp'.shadow = f
    BY <2>6, Zenon DEF Ocotp
  <2>8. Synced'
    BY <2>3, <2>7, Zenon DEF Synced
  <2>9. OcotpState /\ ocotp.at # "check"
    BY <1>3 DEF OcotpInv, OcotpState
  <2>10. OcotpState'
    BY <2>6, <2>7, <2>8, <2>9 DEF OcotpState
  <2>11. QED
    BY <2>5, <2>10, Zenon DEF OcotpInv
<1>4. QED
  BY <1>1, <1>2, <1>3 DEF HwOcotp

\* The OTPC, field by field.
Otpc ==
    [at : {"idle", "power", "refused", "command", "wait", "down", "ok", "failed"},
     op : {"read", "blow"}, off : Int, buf : Seq(SUBSET Bits), i : Nat, calls : Nat,
     power : BOOLEAN, pump : BOOLEAN, busy : BOOLEAN, fail : BOOLEAN, rd : SUBSET Bits,
     addr : Int, data : SUBSET Bits, mem : [Bytes -> SUBSET Bits]]

OtpcType == otpc \in Otpc /\ fuseAsked \in Asked

\* the bytes before the current one are done, those after it are not
Moved ==
    /\ otpc.i >= 1
    /\ \A k \in DOMAIN otpc.buf : otpc.off + k - 1 \in Bytes
    /\ \A k \in DOMAIN otpc.buf : k < otpc.i =>
          IF otpc.op = "blow" THEN otpc.buf[k] \subseteq otpc.mem[otpc.off + k - 1]
          ELSE otpc.buf[k] = otpc.mem[otpc.off + k - 1]
    /\ otpc.op = "blow" => \A k \in DOMAIN otpc.buf : otpc.buf[k] \subseteq fuseAsked.byte[otpc.off + k - 1]
    /\ otpc.op = "read" => \A k \in DOMAIN otpc.buf : k >= otpc.i => otpc.buf[k] = {}

\* What is known at each step of a call, and of the command under way.
OtpcState ==
    /\ \A x \in Bytes : otpc.mem[x] \subseteq fuseAsked.byte[x]
    /\ otpc.at \notin {"idle", "refused"} => Moved
    /\ otpc.at = "power" => otpc.i = 1
    /\ otpc.at \in {"command", "wait"} => otpc.i \in DOMAIN otpc.buf
    /\ otpc.busy = TRUE =>
          /\ otpc.at \in {"wait", "down"} /\ otpc.i \in DOMAIN otpc.buf
          /\ otpc.addr = otpc.off + otpc.i - 1
          /\ otpc.op = "blow" => otpc.data = otpc.buf[otpc.i]
    /\ otpc.at = "wait" /\ otpc.busy = FALSE /\ otpc.fail = FALSE =>
          IF otpc.op = "blow" THEN otpc.buf[otpc.i] \subseteq otpc.mem[otpc.off + otpc.i - 1]
          ELSE otpc.rd = otpc.mem[otpc.off + otpc.i - 1]
    /\ otpc.at = "ok" => otpc.i > Len(otpc.buf)
    /\ otpc.at \in {"ok", "failed"} => otpc.power = FALSE

OtpcInv == OtpcType /\ OtpcState

\* A call is checked against the range, and noted in what was asked for.
LEMMA OtpcAccess ==
    ASSUME OtpcInv, NEW op \in {"read", "blow"}, NEW off \in Int, NEW n \in Nat,
           NEW b \in [1 .. n -> SUBSET Bits], Access(op, off, b)
    PROVE  OtpcInv'
<1> DEFINE buf == IF op = "read" THEN [k \in DOMAIN b |-> {}] ELSE b
<1>1. buf \in Seq(SUBSET Bits) /\ DOMAIN buf = 1 .. n /\ Len(b) = n /\ DOMAIN b = 1 .. n
      /\ (op = "read" => \A k \in 1 .. n : buf[k] = {}) /\ (op = "blow" => buf = b)
  OBVIOUS
<1>2. PICK c \in Nat : c = otpc.calls + 1
  BY DEF OtpcInv, OtpcType, Otpc
<1> HIDE DEF buf
<1>3. CASE InRange(off, b)
  <2>1. otpc' = [otpc EXCEPT !.calls = c, !.op = op, !.off = off, !.i = 1, !.buf = buf, !.at = "power", !.power = TRUE]
    BY <1>2, <1>3, Zenon DEF Access, OtpcInv, OtpcType, Otpc, buf
  <2>2. otpc' \in Otpc
    BY <1>1, <2>1, Zenon DEF OtpcInv, OtpcType, Otpc
  <2>3. fuseAsked' \in Asked /\ \A x \in Bytes : fuseAsked.byte[x] \subseteq fuseAsked'.byte[x]
    <3>1. CASE op = "read"
      BY <3>1 DEF OtpcInv, OtpcType, Access
    <3>2. CASE op = "blow"
      <4>1. PICK g : g = [x \in Bytes |-> fuseAsked.byte[x] \cup (IF x - off + 1 \in DOMAIN b THEN b[x - off + 1] ELSE {})]
        BY Zenon
      <4>2. fuseAsked' = [fuseAsked EXCEPT !.byte = g]
        BY <1>3, <3>2, <4>1, Zenon DEF Access
      <4>3. g \in [Bytes -> SUBSET Bits]
        <5>1. \A x \in Bytes : (IF x - off + 1 \in DOMAIN b THEN b[x - off + 1] ELSE {}) \in SUBSET Bits
          BY <1>1
        <5>2. \A x \in Bytes : fuseAsked.byte[x] \in SUBSET Bits
          BY DEF OtpcInv, OtpcType, Asked
        <5>3. \A x \in Bytes : g[x] \in SUBSET Bits
          BY <4>1, <5>1, <5>2, Zenon
        <5>4. QED
          BY <4>1, <5>3, Zenon
      <4>4. fuseAsked' \in Asked
        BY <4>2, <4>3 DEF OtpcInv, OtpcType, Asked
      <4>5. QED
        BY <4>1, <4>2, <4>4 DEF OtpcInv, OtpcType, Asked
    <3>3. QED
      BY <3>1, <3>2
  <2>4. \A k \in 1 .. n : off + k - 1 \in Bytes
    BY <1>1, <1>3, FuseAssumption DEF InRange, Bytes, FuseConstants
  <2>5. op = "blow" => \A k \in 1 .. n : b[k] \subseteq fuseAsked'.byte[off + k - 1]
    <3>1. SUFFICES ASSUME op = "blow", NEW k \in 1 .. n PROVE b[k] \subseteq fuseAsked'.byte[off + k - 1]
      OBVIOUS
    <3>2. (off + k - 1) - off + 1 = k
      OBVIOUS
    <3>3. PICK x \in Bytes : x = off + k - 1
      BY <2>4, <3>1, Zenon
    <3>4. fuseAsked'.byte[x] = fuseAsked.byte[x] \cup (IF x - off + 1 \in DOMAIN b THEN b[x - off + 1] ELSE {})
      BY <1>3, <3>1 DEF Access, OtpcInv, OtpcType, Asked
    <3>5. QED
      BY <1>1, <3>2, <3>3, <3>4
  <2>6. otpc'.at = "power" /\ otpc'.i = 1 /\ otpc'.op = op /\ otpc'.off = off /\ otpc'.buf = buf
        /\ otpc'.mem = otpc.mem /\ otpc'.busy = otpc.busy
    BY <2>1, Zenon DEF OtpcInv, OtpcType, Otpc
  <2>7. otpc.busy = FALSE /\ otpc.mem \in [Bytes -> SUBSET Bits]
    BY DEF OtpcInv, OtpcType, OtpcState, Access, Otpc
  <2>8. \A x \in Bytes : otpc.mem[x] \subseteq fuseAsked'.byte[x]
    BY <2>3, Zenon DEF OtpcInv, OtpcState
  <2>9. Moved'
    BY <1>1, <2>4, <2>5, <2>6 DEF Moved
  <2>10. OtpcState'
    BY <2>6, <2>7, <2>8, <2>9 DEF OtpcState
  <2>11. QED
    BY <2>2, <2>3, <2>10 DEF OtpcInv, OtpcType
<1>4. CASE ~InRange(off, b)
  <2>1. otpc' = [otpc EXCEPT !.calls = c, !.op = op, !.off = off, !.i = 1, !.buf = buf, !.at = "refused"]
    BY <1>2, <1>4, Zenon DEF Access, OtpcInv, OtpcType, Otpc, buf
  <2>2. otpc' \in Otpc
    BY <1>1, <2>1, Zenon DEF OtpcInv, OtpcType, Otpc
  <2>3. fuseAsked' = fuseAsked /\ otpc.busy = FALSE /\ otpc'.busy = otpc.busy /\ otpc'.at = "refused"
        /\ otpc'.mem = otpc.mem
    BY <1>4, <2>1, Zenon DEF OtpcInv, OtpcType, OtpcState, Access, Otpc
  <2>4. OtpcState'
    BY <2>3 DEF OtpcInv, OtpcState
  <2>5. QED
    BY <2>2, <2>3, <2>4 DEF OtpcInv, OtpcType
<1>5. QED
  BY <1>3, <1>4

\* The charge pump is on, or the call ends before the first byte.
LEMMA OtpcPowerUp == ASSUME OtpcInv, PowerUp PROVE OtpcInv'
<1>1. CASE otpc' = [otpc EXCEPT !.at = "refused"]
  <2>1. OtpcType'
    BY <1>1, Zenon DEF OtpcInv, OtpcType, Otpc, PowerUp
  <2>2. OtpcState'
    BY <1>1 DEF OtpcInv, OtpcType, OtpcState, Otpc, PowerUp, Moved
  <2>3. QED
    BY <2>1, <2>2 DEF OtpcInv
<1>2. CASE otpc' = [otpc EXCEPT !.at = IF otpc.buf = <<>> THEN "down" ELSE "command"]
  <2>1. OtpcType'
    BY <1>2, Zenon DEF OtpcInv, OtpcType, Otpc, PowerUp
  <2>2. OtpcState'
    BY <1>2 DEF OtpcInv, OtpcType, OtpcState, Otpc, PowerUp, Moved
  <2>3. QED
    BY <2>1, <2>2 DEF OtpcInv
<1>3. QED
  BY <1>1, <1>2 DEF PowerUp

\* A command is for the current byte.
LEMMA OtpcCommand == ASSUME OtpcInv, Command PROVE OtpcInv'
  <2>1. OtpcType'
    <3>1. PICK a \in Int : a = otpc.off + otpc.i - 1
      BY DEF OtpcInv, OtpcType, Otpc
    <3>2. otpc.buf[otpc.i] \in SUBSET Bits
      BY DEF OtpcInv, OtpcType, OtpcState, Otpc, Command
    <3>3. PICK d \in SUBSET Bits : d = IF otpc.op = "blow" THEN otpc.buf[otpc.i] ELSE otpc.data
      BY <3>2 DEF OtpcInv, OtpcType, Otpc
    <3>4. otpc' = [otpc EXCEPT !.at = "wait", !.addr = a, !.busy = TRUE, !.data = d]
      BY <3>1, <3>3, Zenon DEF Command
    <3>5. QED
      BY <3>4, Zenon DEF OtpcInv, OtpcType, Otpc, Command
  <2>2. OtpcState'
    BY DEF OtpcInv, OtpcType, OtpcState, Otpc, Command, Moved
  <2>3. QED
    BY <2>1, <2>2 DEF OtpcInv

\* The memory is powered down whatever the result.
LEMMA OtpcDown == ASSUME OtpcInv, PowerDown PROVE OtpcInv'
  <2>1. OtpcType'
    BY Zenon DEF OtpcInv, OtpcType, Otpc, PowerDown
  <2>2. OtpcState'
    BY DEF OtpcInv, OtpcType, OtpcState, Otpc, PowerDown, Moved
  <2>3. QED
    BY <2>1, <2>2 DEF OtpcInv

\* The call returns.
LEMMA OtpcReturn == ASSUME OtpcInv, AccessReturn PROVE OtpcInv'
  <2>1. OtpcType'
    BY Zenon DEF OtpcInv, OtpcType, Otpc, AccessReturn
  <2>2. OtpcState'
    BY DEF OtpcInv, OtpcType, OtpcState, Otpc, AccessReturn, Moved
  <2>3. QED
    BY <2>1, <2>2 DEF OtpcInv

\* The charge pump comes up.
LEMMA OtpcPump == ASSUME OtpcInv, HwPump PROVE OtpcInv'
  <2>1. OtpcType'
    BY Zenon DEF OtpcInv, OtpcType, Otpc, HwPump
  <2>2. OtpcState'
    BY DEF OtpcInv, OtpcType, OtpcState, Otpc, HwPump, Moved
  <2>3. QED
    BY <2>1, <2>2 DEF OtpcInv

\* A command ends: only one that passed goes on to the next byte.
LEMMA OtpcDone == ASSUME OtpcInv, CommandDone PROVE OtpcInv'
<1>1. CASE otpc' = [otpc EXCEPT !.at = "down"]
  <2>1. OtpcType'
    BY <1>1, Zenon DEF OtpcInv, OtpcType, Otpc, CommandDone
  <2>2. OtpcState'
    BY <1>1 DEF OtpcInv, OtpcType, OtpcState, Otpc, CommandDone, Moved
  <2>3. QED
    BY <2>1, <2>2 DEF OtpcInv
<1>2. CASE /\ ~otpc.busy /\ ~otpc.fail
           /\ otpc' = [otpc EXCEPT !.i = @ + 1, !.at = IF otpc.i = Len(otpc.buf) THEN "down" ELSE "command",
                                   !.buf[otpc.i] = IF otpc.op = "read" THEN otpc.rd ELSE @]
  <2>0. otpc.at = "wait" /\ otpc.i \in DOMAIN otpc.buf /\ fuseAsked' = fuseAsked /\ Moved
        /\ otpc.busy = FALSE /\ otpc.fail = FALSE
    BY <1>2 DEF OtpcInv, OtpcType, OtpcState, CommandDone, Otpc
  <2>1. PICK n \in Nat : n = otpc.i + 1
    BY DEF OtpcInv, OtpcType, Otpc
  <2>2. PICK b \in Seq(SUBSET Bits) : b = [otpc.buf EXCEPT ![otpc.i] = IF otpc.op = "read" THEN otpc.rd ELSE @]
    <3>1. otpc.buf \in Seq(SUBSET Bits) /\ otpc.rd \in SUBSET Bits /\ otpc.buf[otpc.i] \in SUBSET Bits
      BY <2>0 DEF OtpcInv, OtpcType, Otpc
    <3>2. PICK d \in SUBSET Bits : d = IF otpc.op = "read" THEN otpc.rd ELSE otpc.buf[otpc.i]
      BY <3>1
    <3>3. [otpc.buf EXCEPT ![otpc.i] = d] \in Seq(SUBSET Bits)
      BY <2>0, <3>1
    <3>4. QED
      BY <3>2, <3>3, Zenon
  <2>3. PICK t \in {"down", "command"} : t = IF otpc.i = Len(otpc.buf) THEN "down" ELSE "command"
    BY Zenon
  <2>4. otpc' = [otpc EXCEPT !.i = n, !.at = t, !.buf = b]
    BY <1>2, <2>1, <2>2, <2>3, Zenon
  <2>5. OtpcType'
    BY <2>0, <2>4, Zenon DEF OtpcInv, OtpcType, Otpc
  <2>6. DOMAIN b = DOMAIN otpc.buf /\ Len(b) = Len(otpc.buf) /\ \A k \in DOMAIN b : k # otpc.i => b[k] = otpc.buf[k]
    BY <2>2 DEF OtpcInv, OtpcType, Otpc
  <2>7. b[otpc.i] = IF otpc.op = "read" THEN otpc.rd ELSE otpc.buf[otpc.i]
    BY <2>0, <2>2 DEF OtpcInv, OtpcType, Otpc
  <2>8. otpc'.at = t /\ otpc'.i = n /\ otpc'.op = otpc.op /\ otpc'.off = otpc.off /\ otpc'.buf = b
        /\ otpc'.mem = otpc.mem /\ otpc'.busy = otpc.busy
    BY <2>4, Zenon DEF OtpcInv, OtpcType, Otpc
  <2>9. Moved'
    <3>1. IF otpc.op = "blow" THEN b[otpc.i] \subseteq otpc.mem[otpc.off + otpc.i - 1]
          ELSE b[otpc.i] = otpc.mem[otpc.off + otpc.i - 1]
      BY <2>0, <2>7, Zenon DEF OtpcInv, OtpcType, OtpcState, Otpc
    <3>2. \A k \in DOMAIN b : k < n <=> k < otpc.i \/ k = otpc.i
      BY <2>1, <2>6 DEF OtpcInv, OtpcType, Otpc
    <3>3. \A k \in DOMAIN b : k < n =>
          IF otpc.op = "blow" THEN b[k] \subseteq otpc.mem[otpc.off + k - 1]
          ELSE b[k] = otpc.mem[otpc.off + k - 1]
      BY <2>0, <2>6, <3>1, <3>2, Zenon DEF Moved
    <3>4. otpc.op = "blow" => b[otpc.i] = otpc.buf[otpc.i]
      BY <2>7
    <3>5. otpc.op = "blow" => \A k \in DOMAIN b : b[k] \subseteq fuseAsked.byte[otpc.off + k - 1]
      BY <2>0, <2>6, <3>4, Zenon DEF Moved
    <3>6. \A k \in DOMAIN b : k >= n => k >= otpc.i /\ k # otpc.i
      BY <2>1, <2>6 DEF OtpcInv, OtpcType, Otpc
    <3>7. otpc.op = "read" => \A k \in DOMAIN b : k >= n => b[k] = {}
      BY <2>0, <2>6, <3>6, Zenon DEF Moved
    <3>8. n >= 1 /\ \A k \in DOMAIN b : otpc.off + k - 1 \in Bytes
      BY <2>0, <2>1, <2>6 DEF Moved
    <3>9. fuseAsked' = fuseAsked
      BY Zenon DEF CommandDone
    <3>10. QED
      BY <2>8, <3>3, <3>5, <3>7, <3>8, <3>9, Zenon DEF Moved
  <2>10. t = "command" => n \in DOMAIN b
    BY <2>0, <2>1, <2>3, <2>6 DEF OtpcInv, OtpcType, Otpc
  <2>11. \A x \in Bytes : otpc.mem[x] \subseteq fuseAsked.byte[x]
    BY DEF OtpcInv, OtpcState
  <2>12. OtpcState'
    BY <2>0, <2>3, <2>8, <2>9, <2>10, <2>11 DEF OtpcState
  <2>13. QED
    BY <2>5, <2>12 DEF OtpcInv
<1>3. QED
  BY <1>1, <1>2 DEF CommandDone

\* The controller blows or reads the byte it was told to.
LEMMA OtpcHw == ASSUME OtpcInv, HwOtpc PROVE OtpcInv'
<1>1. CASE otpc' = [otpc EXCEPT !.busy = FALSE, !.fail = TRUE]
  <2>1. OtpcType'
    BY <1>1, Zenon DEF OtpcInv, OtpcType, Otpc, HwOtpc
  <2>2. OtpcState'
    BY <1>1 DEF OtpcInv, OtpcType, OtpcState, Otpc, HwOtpc, Moved
  <2>3. QED
    BY <2>1, <2>2 DEF OtpcInv
<1>2. CASE otpc.op = "read" /\ otpc' = [otpc EXCEPT !.busy = FALSE, !.fail = FALSE, !.rd = otpc.mem[otpc.addr]]
  <2>1. otpc.mem[otpc.addr] \in SUBSET Bits
    BY DEF OtpcInv, OtpcType, OtpcState, Otpc, HwOtpc, Moved
  <2>2. OtpcType'
    BY <1>2, <2>1, Zenon DEF OtpcInv, OtpcType, Otpc, HwOtpc
  <2>3. OtpcState'
    BY <1>2 DEF OtpcInv, OtpcType, OtpcState, Otpc, HwOtpc, Moved
  <2>4. QED
    BY <2>2, <2>3 DEF OtpcInv
<1>3. CASE otpc.op = "blow" /\ otpc' = [otpc EXCEPT !.busy = FALSE, !.fail = FALSE, !.mem[otpc.addr] = @ \cup otpc.data]
  <2>0. otpc.at \in {"wait", "down"} /\ otpc.i \in DOMAIN otpc.buf /\ otpc.addr = otpc.off + otpc.i - 1
        /\ otpc.data = otpc.buf[otpc.i] /\ Moved /\ fuseAsked' = fuseAsked
    BY <1>3 DEF OtpcInv, OtpcType, OtpcState, Otpc, HwOtpc
  <2>1. PICK m \in [Bytes -> SUBSET Bits] : m = [otpc.mem EXCEPT ![otpc.addr] = @ \cup otpc.data]
    BY <2>0, Zenon DEF OtpcInv, OtpcType, Otpc
  <2>2. otpc' = [otpc EXCEPT !.busy = FALSE, !.fail = FALSE, !.mem = m]
    BY <1>3, <2>1, Zenon
  <2>3. OtpcType'
    BY <2>0, <2>2, Zenon DEF OtpcInv, OtpcType, Otpc
  <2>4. otpc.addr \in Bytes /\ otpc.data \subseteq fuseAsked.byte[otpc.addr]
    BY <1>3, <2>0, Zenon DEF Moved
  <2>5. \A x \in Bytes : otpc.mem[x] \subseteq m[x] /\ m[x] \subseteq fuseAsked.byte[x]
    BY <2>1, <2>4, Zenon DEF OtpcInv, OtpcType, OtpcState, Otpc
  <2>6. otpc.data \subseteq m[otpc.addr]
    BY <2>1, <2>4, Zenon DEF OtpcInv, OtpcType, Otpc
  <2>7. otpc'.at = otpc.at /\ otpc'.i = otpc.i /\ otpc'.op = otpc.op /\ otpc'.off = otpc.off /\ otpc'.buf = otpc.buf
        /\ otpc'.mem = m /\ otpc'.busy = FALSE
    BY <2>2, Zenon DEF OtpcInv, OtpcType, Otpc
  <2>8. Moved'
    <3>1. ASSUME NEW k \in DOMAIN otpc.buf, k < otpc.i PROVE otpc.buf[k] \subseteq m[otpc.off + k - 1]
      BY <1>3, <2>0, <2>5, <3>1, Zenon DEF Moved
    <3>2. QED
      BY <1>3, <2>0, <2>7, <3>1, Zenon DEF Moved
  <2>9. OtpcState'
    BY <1>3, <2>0, <2>5, <2>6, <2>7, <2>8, Zenon DEF OtpcState
  <2>10. QED
    BY <2>3, <2>9 DEF OtpcInv
<1>4. QED
  BY <1>1, <1>2, <1>3 DEF HwOtpc

\* A step of the OCOTP keeps its part of the invariant.
LEMMA OcotpStep == ASSUME OcotpInv, OcotpNext PROVE OcotpInv'
<1>1. CASE \E b \in BlowBanks, w \in 0 .. BankSize + 1 : Read(b, w)
  BY <1>1, OcotpRead, Zenon
<1>2. CASE \E b \in BlowBanks, w \in 0 .. BankSize - 1, v \in Values : Blow(b, w, v)
  BY <1>2, OcotpBlow, Zenon
<1>3. CASE BlowStart \/ shadowReload \/ checkOp
  BY <1>3, OcotpBlowStart, OcotpReload, OcotpCheck, Zenon
<1>4. CASE BlowReturn \/ HwOcotp
  BY <1>4, OcotpReturn, OcotpHw, Zenon
<1>5. QED
  BY <1>1, <1>2, <1>3, <1>4, Zenon DEF OcotpNext

\* A step of the OTPC keeps its part of the invariant.
LEMMA OtpcStep == ASSUME OtpcInv, OtpcNext PROVE OtpcInv'
<1>1. ASSUME NEW off \in -1 .. Size, NEW n \in 0 .. 2, Access("read", off, [k \in 1 .. n |-> {}]) PROVE OtpcInv'
  <2>1. off \in Int /\ n \in Nat
    BY FuseAssumption DEF FuseConstants
  <2>2. PICK b : b = [k \in 1 .. n |-> {}]
    BY Zenon
  <2>3. b \in [1 .. n -> SUBSET Bits]
    BY <2>2, Zenon
  <2>4. Access("read", off, b)
    BY <1>1, <2>2, Zenon
  <2>5. QED
    BY <2>1, <2>3, <2>4, OtpcAccess, Zenon
<1>2. ASSUME NEW off \in -1 .. Size, NEW n \in 0 .. 2, NEW b \in [1 .. n -> Values], Access("blow", off, b) PROVE OtpcInv'
  <2>1. off \in Int /\ n \in Nat
    BY FuseAssumption DEF FuseConstants
  <2>2. \A v \in Values : v \in SUBSET Bits
    BY Zenon DEF Bits
  <2>3. b \in [1 .. n -> SUBSET Bits]
    BY <2>2, Zenon
  <2>4. QED
    BY <1>2, <2>1, <2>3, OtpcAccess, Zenon
<1>3. CASE PowerUp \/ Command \/ CommandDone
  BY <1>3, OtpcPowerUp, OtpcCommand, OtpcDone, Zenon
<1>4. CASE PowerDown \/ AccessReturn \/ HwPump \/ HwOtpc
  BY <1>4, OtpcDown, OtpcReturn, OtpcPump, OtpcHw, Zenon
<1>5. QED
  BY <1>1, <1>2, <1>3, <1>4, Zenon DEF OtpcNext

\* What is asked of one memory is not asked of the other.
LEMMA AskedWord == ASSUME fuseAsked \in Asked, OcotpNext PROVE fuseAsked'.byte = fuseAsked.byte
<1>1. CASE \E b \in BlowBanks, w \in 0 .. BankSize - 1, v \in Values : Blow(b, w, v)
  <2>1. PICK b \in BlowBanks, w \in 0 .. BankSize - 1, v \in Values : Blow(b, w, v)
    BY <1>1
  <2>2. fuseAsked' = [fuseAsked EXCEPT !.word[Index(b, w)] = @ \cup v]
    BY <2>1, Zenon DEF Blow
  <2>3. QED
    BY <2>2, Zenon DEF Asked
<1>2. CASE UNCHANGED fuseAsked
  BY <1>2, Zenon
<1>3. QED
  BY <1>1, <1>2, Zenon DEF OcotpNext, Read, BlowStart, shadowReload, checkOp, BlowReturn, HwOcotp

\* And the other way round.
LEMMA AskedByte == ASSUME fuseAsked \in Asked, OtpcNext PROVE fuseAsked'.word = fuseAsked.word
<1>1. ASSUME NEW op, NEW off, NEW b, Access(op, off, b) PROVE fuseAsked'.word = fuseAsked.word
  <2>1. PICK f : fuseAsked' = [fuseAsked EXCEPT !.byte = f] \/ fuseAsked' = fuseAsked
    BY <1>1, Zenon DEF Access
  <2>2. QED
    BY <2>1, Zenon DEF Asked
<1>2. CASE UNCHANGED fuseAsked
  BY <1>2, Zenon
<1>3. QED
  BY <1>1, <1>2, Zenon DEF OtpcNext, PowerUp, Command, CommandDone, PowerDown, AccessReturn, HwPump, HwOtpc

\* The one memory while the other is accessed.
LEMMA OcotpStill ==
    ASSUME OcotpInv, ocotp' = ocotp, fuseAsked' \in Asked, fuseAsked'.word = fuseAsked.word
    PROVE  OcotpInv'
BY Zenon DEF OcotpInv, OcotpType, OcotpState, Synced

\* And the other way round.
LEMMA OtpcStill ==
    ASSUME OtpcInv, otpc' = otpc, fuseAsked' \in Asked, fuseAsked'.byte = fuseAsked.byte
    PROVE  OtpcInv'
<1>1. OtpcType'
  BY Zenon DEF OtpcInv, OtpcType
<1>2. Moved => Moved'
  BY Zenon DEF Moved
<1>3. OtpcState'
  BY <1>2, Zenon DEF OtpcInv, OtpcState
<1>4. QED
  BY <1>1, <1>3, Zenon DEF OtpcInv

\* Blank memories.
LEMMA FusesBegin == ASSUME FusesInit PROVE OcotpInv /\ OtpcInv
<1>1. fuseAsked \in Asked /\ \A x \in Words : fuseAsked.word[x] = {}
  BY Zenon DEF FusesInit, AllFuses, NoFuses, Asked
<1>2. 0 \in Nat /\ 0 \in Int /\ 1 \in Nat /\ <<>> \in Seq(SUBSET Bits) /\ {} \in SUBSET Bits
  OBVIOUS
<1>3. OcotpInv
  <2>1. PICK f \in [Words -> SUBSET Bits] : f = NoFuses
    BY <1>2, Zenon DEF NoFuses
  <2>2. PICK r \in [ShadowRegisters -> SUBSET Bits] : r = [x \in ShadowRegisters |-> {}]
    BY <1>2, Zenon
  <2>3. ocotp = [at |-> "idle", word |-> 0, value |-> {}, calls |-> 0, failed |-> FALSE, read |-> <<>>,
                 busy |-> "no", error |-> FALSE, addr |-> 0, data |-> {}, fuses |-> f, shadow |-> r]
    BY <2>1, <2>2, Zenon DEF FusesInit, OcotpInit, ShadowRegisters
  <2>4. ocotp \in Ocotp
    BY <1>2, <2>3, Zenon DEF Ocotp
  <2>5. ocotp.at = "idle" /\ ocotp.busy = "no" /\ ocotp.read = <<>> /\ ocotp.fuses = f /\ ocotp.shadow = r
    BY <2>3, Zenon
  <2>6. \A x \in Words : f[x] = {} /\ r[HwShadow(x)] = {}
    <3>1. \A x \in Words : HwShadow(x) \in ShadowRegisters
      BY Zenon DEF ShadowRegisters
    <3>2. QED
      BY <2>1, <2>2, <3>1, Zenon DEF NoFuses
  <2>7. OcotpState
    BY <1>1, <2>5, <2>6, Zenon DEF OcotpState, Synced
  <2>8. QED
    BY <1>1, <2>4, <2>7, Zenon DEF OcotpInv, OcotpType
<1>4. OtpcInv
  <2>1. PICK f \in [Bytes -> SUBSET Bits] : f = [x \in Bytes |-> {}]
    BY <1>2, Zenon
  <2>2. otpc = [at |-> "idle", op |-> "read", off |-> 0, buf |-> <<>>, i |-> 1, calls |-> 0,
                power |-> FALSE, pump |-> FALSE, busy |-> FALSE, fail |-> FALSE, rd |-> {},
                addr |-> 0, data |-> {}, mem |-> f]
    BY <2>1, Zenon DEF FusesInit, OtpcInit
  <2>3. otpc \in Otpc
    BY <1>2, <2>2, Zenon DEF Otpc
  <2>4. otpc.at = "idle" /\ otpc.busy = FALSE /\ otpc.mem = f
    BY <2>2, Zenon
  <2>5. \A x \in Bytes : f[x] = {}
    BY <2>1, Zenon
  <2>6. OtpcState
    BY <2>4, <2>5, Zenon DEF OtpcState
  <2>7. QED
    BY <1>1, <2>3, <2>6, Zenon DEF OtpcInv, OtpcType
<1>5. QED
  BY <1>3, <1>4

\* FusesTruth holds of memories of every size, for any values and any calls.
THEOREM FusesAsAsked == FusesSpec => []FusesTruth
<1>1. FusesInit => OcotpInv /\ OtpcInv
  BY FusesBegin, Zenon
<1>2. OcotpInv /\ OtpcInv /\ [FusesNext]_fuseVars => (OcotpInv /\ OtpcInv)'
  <2>1. SUFFICES ASSUME OcotpInv, OtpcInv, [FusesNext]_fuseVars PROVE OcotpInv' /\ OtpcInv'
    OBVIOUS
  <2>2. fuseAsked \in Asked
    BY <2>1, Zenon DEF OtpcInv, OtpcType
  <2>3. CASE OcotpNext /\ UNCHANGED otpc
    <3>1. OcotpInv' /\ fuseAsked'.byte = fuseAsked.byte
      BY <2>1, <2>2, <2>3, OcotpStep, AskedWord, Zenon
    <3>2. fuseAsked' \in Asked
      BY <3>1, Zenon DEF OcotpInv, OcotpType
    <3>3. QED
      BY <2>1, <2>3, <3>1, <3>2, OtpcStill, Zenon
  <2>4. CASE OtpcNext /\ UNCHANGED ocotp
    <3>1. OtpcInv' /\ fuseAsked'.word = fuseAsked.word
      BY <2>1, <2>2, <2>4, OtpcStep, AskedByte, Zenon
    <3>2. fuseAsked' \in Asked
      BY <3>1, Zenon DEF OtpcInv, OtpcType
    <3>3. QED
      BY <2>1, <2>4, <3>1, <3>2, OcotpStill, Zenon
  <2>5. CASE UNCHANGED fuseVars
    <3>1. ocotp' = ocotp /\ otpc' = otpc /\ fuseAsked' = fuseAsked
      BY <2>5, Zenon DEF fuseVars
    <3>2. QED
      BY <2>1, <2>2, <3>1, OcotpStill, OtpcStill, Zenon
  <2>6. QED
    BY <2>1, <2>3, <2>4, <2>5, Zenon DEF FusesNext
<1>3. OcotpInv /\ OtpcInv => FusesTruth
  <2>1. SUFFICES ASSUME OcotpInv, OtpcInv PROVE FusesTruth
    OBVIOUS
  <2>2. \A x \in Words : ocotp.fuses[x] \subseteq fuseAsked.word[x]
    BY <2>1, Zenon DEF OcotpInv, OcotpState
  <2>3. ocotp.at = "ok" => ocotp.value \subseteq ocotp.fuses[ocotp.word]
    BY <2>1, Zenon DEF OcotpInv, OcotpState
  <2>4. ocotp.at = "ok" \/ (ocotp.at = "idle" /\ ~ocotp.failed) =>
            \A x \in Words : ocotp.shadow[HwShadow(x)] = ocotp.fuses[x]
    BY <2>1, Zenon DEF OcotpInv, OcotpState, Synced
  <2>5. ocotp.read # <<>> /\ ocotp.read[2] < BankSize /\ ~ocotp.failed =>
            ocotp.read[3] = ocotp.fuses[Index(ocotp.read[1], ocotp.read[2])]
    BY <2>1, Zenon DEF OcotpInv, OcotpState
  <2>6. \A x \in Bytes : otpc.mem[x] \subseteq fuseAsked.byte[x]
    BY <2>1, Zenon DEF OtpcInv, OtpcState
  <2>7. ASSUME otpc.at \in {"ok", "failed"}
        PROVE  /\ Moved /\ otpc.power = FALSE /\ otpc.i \in Nat
               /\ \A k \in DOMAIN otpc.buf : k \in Nat /\ (k > otpc.i => k >= otpc.i)
               /\ otpc.at = "ok" => \A k \in DOMAIN otpc.buf : k < otpc.i
    <3>1. otpc.i \in Nat /\ otpc.buf \in Seq(SUBSET Bits)
      BY <2>1, Zenon DEF OtpcInv, OtpcType, Otpc
    <3>2. Moved /\ otpc.power = FALSE /\ (otpc.at = "ok" => otpc.i > Len(otpc.buf))
      <4>1. OtpcState /\ otpc.at \notin {"idle", "refused"}
        BY <2>1, <2>7 DEF OtpcInv
      <4>2. QED
        BY <2>7, <4>1, Zenon DEF OtpcState
    <3>3. QED
      BY <3>1, <3>2
  <2>8. ASSUME otpc.at = "ok", NEW k \in DOMAIN otpc.buf
        PROVE  IF otpc.op = "blow" THEN otpc.buf[k] \subseteq otpc.mem[otpc.off + k - 1]
               ELSE otpc.buf[k] = otpc.mem[otpc.off + k - 1]
    BY <2>7, <2>8, Zenon DEF Moved
  <2>9. ASSUME otpc.at = "failed", otpc.op = "read", NEW k \in DOMAIN otpc.buf, k > otpc.i PROVE otpc.buf[k] = {}
    BY <2>7, <2>9, Zenon DEF Moved
  <2>10. otpc.at \in {"ok", "failed"} => ~otpc.power
    BY <2>7, Zenon
  <2>11. QED
    BY <2>2, <2>3, <2>4, <2>5, <2>6, <2>8, <2>9, <2>10, Zenon DEF FusesTruth
<1>4. QED
  BY <1>1, <1>2, <1>3, PTL DEF FusesSpec

-----------------------------------------------------------------------------
(* Access control.                                                         *)

\* Arithmetic that the provers do not know: exponents in order.
PowersOfTwo ==
    \A e \in 1 .. 30 : /\ 2 ^ e \in Nat \ {0}
                       /\ \A f \in 1 .. 30 : e < f => 2 ^ e < 2 ^ f /\ 2 ^ f % 2 ^ e = 0
ASSUME PowersAssumption == PowersOfTwo

\* The registers of the units.
Entry == [addr : Nat, rwx : Levels \cup {0}, a : Modes, l : BOOLEAN]
Region == [en : BOOLEAN, low : Nat, size : Nat, sp : Levels \cup {0}]
Units ==
    [pmp : [Entries -> Entry], filter : [Entries -> Entry],
     sa : [Entries -> [ns : BOOLEAN, lock : BOOLEAN]],
     csl : [Entries \X {0, 1} -> [level : Levels \cup {0}, lock : BOOLEAN]],
     region : [Entries -> Region], bypass : BOOLEAN, locked : BOOLEAN]

\* The range of region r of the TZASC is w, what was asked for.
SameRegion(r, w) ==
    /\ r.en = w.en
    /\ r.en = TRUE => r.sp = w.sp /\ r.low = w.low /\ r.size = w.size /\ r.low % r.size = 0

\* The units hold what was granted.
UnitsInv ==
    /\ units \in Units /\ granted \in Units
    /\ units.pmp = granted.pmp /\ units.sa = granted.sa /\ units.csl = granted.csl
    /\ \A n \in Entries \ {0} : SameRegion(units.region[n], granted.region[n])

\* The first exponent found stands for the size that was asked for.
LEMMA FirstExponent ==
    ASSUME NEW size \in Nat, Exponents(size) # {}
    PROVE  /\ 2 ^ (CHOOSE e \in Exponents(size) : \A f \in Exponents(size) : e <= f) \in Nat \ {0}
           /\ 2 ^ (CHOOSE e \in Exponents(size) : \A f \in Exponents(size) : e <= f) = IF size = 0 THEN Space ELSE size
<1>1. PICK k \in 1 .. 30 : Space = 2 ^ k
  BY AccessAssumption, Zenon DEF AccessConstants
<1>2. ASSUME NEW e \in 1 .. 30 PROVE 2 ^ e % Space = IF e < k THEN 2 ^ e ELSE 0
  <2>1. CASE e < k
    <3>1. 2 ^ e \in Nat /\ Space \in Nat /\ 2 ^ e < Space
      BY <1>1, <2>1, PowersAssumption, Zenon DEF PowersOfTwo
    <3>2. QED
      BY <2>1, <3>1
  <2>2. CASE e = k
    <3>1. Space \in Nat \ {0}
      BY <1>1, PowersAssumption, Zenon DEF PowersOfTwo
    <3>2. Space % Space = 0
      BY <3>1
    <3>3. QED
      BY <1>1, <2>2, <3>2
  <2>3. CASE e > k
    <3>1. k < e /\ ~(e < k)
      BY <2>3
    <3>2. 2 ^ e % Space = 0
      BY <1>1, <3>1, PowersAssumption, Zenon DEF PowersOfTwo
    <3>3. QED
      BY <3>1, <3>2, Zenon
  <2>4. QED
    BY <2>1, <2>2, <2>3
<1>3. ASSUME NEW e \in Exponents(size)
      PROVE  /\ e \in 1 .. 64
             /\ size = 0 => k <= e
             /\ size # 0 => e \in 1 .. 30 /\ size = 2 ^ e
  <2>1. e \in 1 .. 64 /\ size = (IF e > 30 THEN 0 ELSE 2 ^ e % Space)
    BY DEF Exponents
  <2>2. CASE e > 30
    BY <2>1, <2>2
  <2>3. CASE e <= 30
    <3>0. e \in 1 .. 30 /\ ~(e > 30)
      BY <2>1, <2>3
    <3>1. e \in 1 .. 30 /\ size = IF e < k THEN 2 ^ e ELSE 0
      BY <1>2, <2>1, <3>0, Zenon
    <3>2. 2 ^ e \in Nat \ {0}
      BY <3>1, PowersAssumption, Zenon DEF PowersOfTwo
    <3>3. QED
      BY <3>1, <3>2
  <2>4. QED
    BY <2>1, <2>2, <2>3
<1>4. PICK m \in Exponents(size) : (\A f \in Exponents(size) : m <= f) /\ m \in 1 .. 30 /\ 2 ^ m = IF size = 0 THEN Space ELSE size
  <2>1. CASE size = 0
    <3>0. ~(k < k)
      OBVIOUS
    <3>1. 2 ^ k % Space = 0
      BY <1>2, <3>0, Zenon
    <3>2. k \in Exponents(size)
      BY <2>1, <3>1 DEF Exponents
    <3>3. QED
      BY <1>1, <1>3, <2>1, <3>2
  <2>2. CASE size # 0
    <3>1. PICK e \in Exponents(size) : TRUE
      OBVIOUS
    <3>2. \A f \in Exponents(size) : e <= f
      <4>1. SUFFICES ASSUME NEW f \in Exponents(size), ~(e <= f) PROVE FALSE
        OBVIOUS
      <4>2. e \in 1 .. 30 /\ f \in 1 .. 30 /\ 2 ^ e = 2 ^ f /\ f < e
        BY <1>3, <2>2, <4>1
      <4>3. 2 ^ f < 2 ^ e /\ 2 ^ e \in Nat
        BY <4>2, PowersAssumption, Zenon DEF PowersOfTwo
      <4>4. QED
        BY <4>2, <4>3
    <3>3. QED
      BY <1>3, <2>2, <3>2
  <2>3. QED
    BY <2>1, <2>2
<1>5. PICK e : e = CHOOSE x \in Exponents(size) : \A f \in Exponents(size) : x <= f
  BY Zenon
<1>6. e \in Exponents(size) /\ \A f \in Exponents(size) : e <= f
  BY <1>4, <1>5, Zenon
<1>7. e = m
  <2>1. e \in Int /\ m \in Int /\ e <= m /\ m <= e
    BY <1>3, <1>4, <1>6
  <2>2. QED
    BY <2>1
<1>8. 2 ^ m \in Nat \ {0}
  BY <1>4, PowersAssumption, Zenon DEF PowersOfTwo
<1>9. QED
  BY <1>4, <1>5, <1>7, <1>8, Zenon

\* WritePMP: an entry that is locked, or whose address is, keeps what it holds.
LEMMA UnitsPMP ==
    ASSUME UnitsInv, NEW i \in Entries, NEW addr \in Addresses, NEW a \in Modes, NEW l \in BOOLEAN, NEW rwx \in Levels,
           WritePMP(i, addr, rwx, a, l)
    PROVE  UnitsInv'
<1>1. PICK k \in Nat : k = Kept(addr)
  <2>1. addr \in Nat
    BY AccessAssumption DEF AccessConstants
  <2>2. QED
    BY <2>1 DEF Kept
<1>2. PICK lk \in BOOLEAN : lk = AddrLocked(i)
  BY Zenon DEF AddrLocked
<1>3. PICK old \in Entry : old = units.pmp[i]
  BY Zenon DEF UnitsInv, Units
<1>4. PICK new : new = [addr |-> IF lk THEN old.addr ELSE k, rwx |-> IF old.l THEN old.rwx ELSE rwx,
                        a |-> IF old.l THEN old.a ELSE a, l |-> old.l \/ l]
  BY Zenon
<1>5. new \in Entry
  BY <1>4, Zenon DEF Entry
<1>6. units' = [units EXCEPT !.pmp[i] = new]
  BY <1>1, <1>2, <1>3, <1>4, Zenon DEF WritePMP
<1>7. granted' = [granted EXCEPT !.pmp[i] = IF old.l \/ lk THEN new ELSE [addr |-> k, rwx |-> rwx, a |-> a, l |-> l]]
  BY <1>1, <1>2, <1>3, <1>4, Zenon DEF WritePMP
<1>8. ~(old.l \/ lk) => new = [addr |-> k, rwx |-> rwx, a |-> a, l |-> l]
  BY <1>4, Zenon DEF Entry
<1>9. granted' = [granted EXCEPT !.pmp[i] = new]
  BY <1>7, <1>8, Zenon
<1>10. PICK p \in [Entries -> Entry] : p = [units.pmp EXCEPT ![i] = new]
  BY <1>5, Zenon DEF UnitsInv, Units
<1>11. units' = [units EXCEPT !.pmp = p] /\ granted' = [granted EXCEPT !.pmp = p]
  BY <1>6, <1>9, <1>10, Zenon DEF UnitsInv
<1>12. units' \in Units /\ granted' \in Units
  BY <1>11, Zenon DEF UnitsInv, Units
<1>13. units'.pmp = granted'.pmp /\ units'.sa = units.sa /\ granted'.sa = granted.sa /\ units'.csl = units.csl
       /\ granted'.csl = granted.csl /\ units'.region = units.region /\ granted'.region = granted.region
  BY <1>11, Zenon DEF UnitsInv, Units
<1>14. QED
  BY <1>12, <1>13, Zenon DEF UnitsInv

\* The filter is not written at all, which AsConfigured does not cover.
LEMMA UnitsFilter ==
    ASSUME UnitsInv, NEW i \in Entries, NEW addr \in Addresses, NEW a \in Modes, NEW l \in BOOLEAN, NEW rwx \in Levels,
           FilterWritePMP(i, addr, rwx, a, l)
    PROVE  UnitsInv'
<1>1. addr \in Nat
  BY AccessAssumption, Zenon DEF AccessConstants
<1>2. PICK p \in [Entries -> Entry] : p = [granted.filter EXCEPT ![i] = [addr |-> addr, rwx |-> rwx, a |-> a, l |-> l]]
  BY <1>1, Zenon DEF UnitsInv, Units, Entry
<1>3. units' = units /\ granted' = [granted EXCEPT !.filter = p]
  BY <1>2, Zenon DEF FilterWritePMP
<1>4. granted' \in Units
  BY <1>3, Zenon DEF UnitsInv, Units
<1>5. granted'.pmp = granted.pmp /\ granted'.sa = granted.sa /\ granted'.csl = granted.csl /\ granted'.region = granted.region
  BY <1>3, Zenon DEF UnitsInv, Units
<1>6. QED
  BY <1>3, <1>4, <1>5, Zenon DEF UnitsInv

\* SetAccess of the CSU: of its own master only.
LEMMA UnitsAccess ==
    ASSUME UnitsInv, NEW id, NEW secure \in BOOLEAN, NEW lock \in BOOLEAN, SetAccess(id, secure, lock)
    PROVE  UnitsInv'
<1>1. CASE UNCHANGED <<units, granted>>
  BY <1>1, Zenon DEF UnitsInv
<1>2. CASE id \in Entries
  <2>1. PICK old \in [ns : BOOLEAN, lock : BOOLEAN] : old = units.sa[id] /\ old = granted.sa[id]
    BY <1>2, Zenon DEF UnitsInv, Units
  <2>2. PICK new : new = [ns |-> IF old.lock THEN old.ns ELSE ~secure, lock |-> old.lock \/ lock]
    BY Zenon
  <2>3. new \in [ns : BOOLEAN, lock : BOOLEAN]
    BY <2>2, Zenon
  <2>4. new = IF old.lock THEN old ELSE [ns |-> ~secure, lock |-> lock]
    BY <2>2
  <2>5. units' = [units EXCEPT !.sa[id] = new]
    BY <1>2, <2>1, <2>2, Zenon DEF SetAccess
  <2>6. granted' = [granted EXCEPT !.sa[id] = new]
    BY <1>2, <2>1, <2>4, Zenon DEF SetAccess
  <2>7. PICK p \in [Entries -> [ns : BOOLEAN, lock : BOOLEAN]] : p = [units.sa EXCEPT ![id] = new]
    BY <2>3, Zenon DEF UnitsInv, Units
  <2>8. units' = [units EXCEPT !.sa = p] /\ granted' = [granted EXCEPT !.sa = p]
    BY <2>5, <2>6, <2>7, Zenon DEF UnitsInv
  <2>9. units' \in Units /\ granted' \in Units
    BY <2>8, Zenon DEF UnitsInv, Units
  <2>10. units'.sa = granted'.sa /\ units'.pmp = units.pmp /\ granted'.pmp = granted.pmp /\ units'.csl = units.csl
       /\ granted'.csl = granted.csl /\ units'.region = units.region /\ granted'.region = granted.region
    BY <2>8, Zenon DEF UnitsInv, Units
  <2>11. QED
    BY <2>9, <2>10, Zenon DEF UnitsInv
<1>3. QED
  BY <1>1, <1>2, Zenon DEF SetAccess

\* SetSecurityLevel of the CSU: of its own peripheral and slave only.
LEMMA UnitsLevel ==
    ASSUME UnitsInv, NEW periph, NEW slave \in 0 .. 2, NEW csl \in Levels, NEW lock \in BOOLEAN,
           SetSecurityLevel(periph, slave, csl, lock)
    PROVE  UnitsInv'
<1>1. CASE UNCHANGED <<units, granted>>
  BY <1>1, Zenon DEF UnitsInv
<1>2. CASE checkArgs(periph, slave)
  <2>0. PICK q \in Entries \X {0, 1} : q = <<periph, slave>>
    <3>1. periph \in Entries /\ slave \in 0 .. 1
      BY <1>2, Zenon DEF checkArgs
    <3>2. slave \in {0, 1}
      BY <3>1
    <3>3. QED
      BY <3>1, <3>2, Zenon
  <2>1. PICK old \in [level : Levels \cup {0}, lock : BOOLEAN] : old = units.csl[q] /\ old = granted.csl[q]
    BY Zenon DEF UnitsInv, Units
  <2>2. PICK new : new = [level |-> IF old.lock THEN old.level ELSE csl, lock |-> old.lock \/ lock]
    BY Zenon
  <2>3. new \in [level : Levels \cup {0}, lock : BOOLEAN]
    BY <2>2, Zenon
  <2>4. new = IF old.lock THEN old ELSE [level |-> csl, lock |-> lock]
    BY <2>2
  <2>5. units' = [units EXCEPT !.csl[q] = new]
    BY <1>2, <2>0, <2>1, <2>2, Zenon DEF SetSecurityLevel
  <2>6. granted' = [granted EXCEPT !.csl[q] = new]
    BY <1>2, <2>0, <2>1, <2>4, Zenon DEF SetSecurityLevel
  <2>7. PICK p \in [Entries \X {0, 1} -> [level : Levels \cup {0}, lock : BOOLEAN]] : p = [units.csl EXCEPT ![q] = new]
    BY <2>3, Zenon DEF UnitsInv, Units
  <2>8. units' = [units EXCEPT !.csl = p] /\ granted' = [granted EXCEPT !.csl = p]
    BY <2>5, <2>6, <2>7, Zenon DEF UnitsInv
  <2>9. units' \in Units /\ granted' \in Units
    BY <2>8, Zenon DEF UnitsInv, Units
  <2>10. units'.csl = granted'.csl /\ units'.pmp = units.pmp /\ granted'.pmp = granted.pmp /\ units'.sa = units.sa
       /\ granted'.sa = granted.sa /\ units'.region = units.region /\ granted'.region = granted.region
    BY <2>8, Zenon DEF UnitsInv, Units
  <2>11. QED
    BY <2>9, <2>10, Zenon DEF UnitsInv
<1>3. QED
  BY <1>1, <1>2, Zenon DEF SetSecurityLevel

\* One region is written: what it holds and what was asked for.
LEMMA UnitsRegion ==
    ASSUME UnitsInv, NEW n \in Entries, NEW r \in Region, NEW w \in Region,
           n # 0 => SameRegion(r, w),
           units' = [units EXCEPT !.region[n] = r], granted' = [granted EXCEPT !.region[n] = w]
    PROVE  UnitsInv'
<1>1. PICK p \in [Entries -> Region] : p = [units.region EXCEPT ![n] = r]
  BY Zenon DEF UnitsInv, Units
<1>2. PICK q \in [Entries -> Region] : q = [granted.region EXCEPT ![n] = w]
  BY Zenon DEF UnitsInv, Units
<1>3. units' = [units EXCEPT !.region = p] /\ granted' = [granted EXCEPT !.region = q]
  BY <1>1, <1>2, Zenon
<1>4. units' \in Units /\ granted' \in Units
  BY <1>3, Zenon DEF UnitsInv, Units
<1>5. units'.pmp = units.pmp /\ granted'.pmp = granted.pmp /\ units'.sa = units.sa /\ granted'.sa = granted.sa
       /\ units'.csl = units.csl /\ granted'.csl = granted.csl /\ units'.region = p /\ granted'.region = q
  BY <1>3, Zenon DEF UnitsInv, Units
<1>6. ASSUME NEW m \in Entries \ {0} PROVE SameRegion(p[m], q[m])
  <2>1. CASE m = n
    <3>1. p[m] = r /\ q[m] = w
      BY <1>1, <1>2, <2>1, Zenon DEF UnitsInv, Units
    <3>2. QED
      BY <2>1, <3>1, Zenon
  <2>2. CASE m # n
    <3>1. p[m] = units.region[m] /\ q[m] = granted.region[m]
      BY <1>1, <1>2, <2>2, Zenon DEF UnitsInv, Units
    <3>2. QED
      BY <3>1, Zenon DEF UnitsInv
  <2>3. QED
    BY <2>1, <2>2
<1>7. QED
  BY <1>4, <1>5, <1>6, Zenon DEF UnitsInv

\* EnableRegion: the range that is written is the one that was asked for.
LEMMA UnitsEnable ==
    ASSUME UnitsInv, NEW n \in Entries \cup {-1}, NEW start \in 0 .. Space - 1, NEW size \in Sizes, NEW sp \in Levels,
           EnableRegion(n, start, size, sp)
    PROVE  UnitsInv'
<1>1. CASE UNCHANGED <<units, granted>>
  BY <1>1, Zenon DEF UnitsInv
<1>2. CASE n \in Entries /\ n = 0 /\ units' = [units EXCEPT !.region[0].sp = sp] /\ granted' = [granted EXCEPT !.region[0].sp = sp]
  <2>1. PICK r \in Region : r = [units.region[n] EXCEPT !.sp = sp]
    <3>1. units.region[n] \in Region
      BY <1>2, Zenon DEF UnitsInv, Units
    <3>2. QED
      BY <3>1, Zenon DEF Region
  <2>2. PICK w \in Region : w = [granted.region[n] EXCEPT !.sp = sp]
    <3>1. granted.region[n] \in Region
      BY <1>2, Zenon DEF UnitsInv, Units
    <3>2. QED
      BY <3>1, Zenon DEF Region
  <2>3. units' = [units EXCEPT !.region[n] = r] /\ granted' = [granted EXCEPT !.region[n] = w]
    BY <1>2, <2>1, <2>2, Zenon
  <2>4. QED
    BY <1>2, <2>3, UnitsRegion, Zenon
<1>3. ASSUME n \in Entries, n # 0, RegionFits(start, size),
             NEW x, x = 2 ^ (CHOOSE e \in Exponents(size) : \A f \in Exponents(size) : e <= f),
             units' = [units EXCEPT !.region[n] = [en |-> TRUE, low |-> 2 * (start \div 2), size |-> x, sp |-> sp]],
             granted' = [granted EXCEPT !.region[n] = [en |-> TRUE, low |-> start, sp |-> sp,
                                                       size |-> IF size = 0 THEN Space ELSE size]]
      PROVE  UnitsInv'
  <2>1. size \in Nat /\ n \in Nat
    BY <1>3, AccessAssumption DEF AccessConstants
  <2>2. x \in Nat \ {0} /\ x = IF size = 0 THEN Space ELSE size
    BY <1>3, <2>1, FirstExponent, Zenon DEF RegionFits
  <2>3. Space \in Nat
    BY AccessAssumption, PowersAssumption DEF AccessConstants, PowersOfTwo
  <2>4. start \in Nat /\ start % 2 = 0
    BY <1>3, <2>3 DEF RegionFits
  <2>5. 2 * (start \div 2) = start
    BY <2>4
  <2>6. start % x = 0
    <3>1. CASE start = 0
      <4>1. 0 % x = 0
        <5>1. x \in Nat \ {0} /\ 0 \in 0 .. x - 1
          BY <2>2
        <5>2. QED
          BY <5>1, ModSmall, Zenon
      <4>2. QED
        BY <3>1, <4>1, Zenon
    <3>2. CASE start # 0
      <4>1. ~(n > 0 /\ start % 2 = 0 /\ start # 0 /\ size = 0)
        BY Zenon DEF EnableRegion
      <4>2. size # 0
        BY <1>3, <2>1, <2>4, <3>2, <4>1
      <4>3. x = size /\ start % size = 0
        BY <1>3, <2>2, <3>2, <4>2 DEF RegionFits
      <4>4. QED
        BY <4>3
    <3>3. QED
      BY <3>1, <3>2
  <2>7. PICK r : r = [en |-> TRUE, low |-> start, size |-> x, sp |-> sp]
    BY Zenon
  <2>8. PICK w : w = [en |-> TRUE, low |-> start, sp |-> sp, size |-> x]
    BY Zenon
  <2>9. r \in Region /\ w \in Region
    BY <2>2, <2>4, <2>7, <2>8 DEF Region
  <2>10. SameRegion(r, w)
    BY <2>6, <2>7, <2>8 DEF SameRegion
  <2>11. units' = [units EXCEPT !.region[n] = r]
    BY <1>3, <2>5, <2>7, Zenon
  <2>12. granted' = [granted EXCEPT !.region[n] = w]
    BY <1>3, <2>2, <2>8, Zenon
  <2>13. QED
    BY <1>3, <2>9, <2>10, <2>11, <2>12, UnitsRegion, Zenon
<1>4. QED
  BY <1>1, <1>2, <1>3, Zenon DEF EnableRegion

\* DisableRegion keeps the range.
LEMMA UnitsDisable == ASSUME UnitsInv, NEW n \in Entries \cup {-1}, DisableRegion(n) PROVE UnitsInv'
<1>1. CASE UNCHANGED <<units, granted>>
  BY <1>1, Zenon DEF UnitsInv
<1>2. CASE n \in Entries /\ units' = [units EXCEPT !.region[n].en = FALSE] /\ granted' = [granted EXCEPT !.region[n].en = FALSE]
  <2>1. PICK r \in Region : r = [units.region[n] EXCEPT !.en = FALSE]
    <3>1. units.region[n] \in Region
      BY <1>2, Zenon DEF UnitsInv, Units
    <3>2. QED
      BY <3>1, Zenon DEF Region
  <2>2. PICK w \in Region : w = [granted.region[n] EXCEPT !.en = FALSE]
    <3>1. granted.region[n] \in Region
      BY <1>2, Zenon DEF UnitsInv, Units
    <3>2. QED
      BY <3>1, Zenon DEF Region
  <2>3. units' = [units EXCEPT !.region[n] = r] /\ granted' = [granted EXCEPT !.region[n] = w]
    BY <1>2, <2>1, <2>2, Zenon
  <2>4. r.en = FALSE /\ w.en = FALSE
    BY <1>2, <2>1, <2>2, Zenon DEF UnitsInv, Units, Region
  <2>5. SameRegion(r, w)
    BY <2>4, Zenon DEF SameRegion
  <2>6. QED
    BY <1>2, <2>3, <2>5, UnitsRegion, Zenon
<1>3. QED
  BY <1>1, <1>2, Zenon DEF DisableRegion

\* The lock and the bypass are no part of a region.
LEMMA UnitsFlags == ASSUME UnitsInv, Lock \/ BootDcd PROVE UnitsInv'
<1>1. CASE Lock
  <2>1. units' = [units EXCEPT !.locked = TRUE] /\ granted' = [granted EXCEPT !.locked = TRUE]
    BY <1>1, Zenon DEF Lock
  <2>2. units' \in Units /\ granted' \in Units
    BY <2>1, Zenon DEF UnitsInv, Units
  <2>3. units'.pmp = units.pmp /\ granted'.pmp = granted.pmp /\ units'.sa = units.sa /\ granted'.sa = granted.sa
       /\ units'.csl = units.csl /\ granted'.csl = granted.csl /\ units'.region = units.region /\ granted'.region = granted.region
    BY <2>1, Zenon DEF UnitsInv, Units
  <2>4. QED
    BY <2>2, <2>3, Zenon DEF UnitsInv
<1>2. CASE BootDcd
  <2>1. units' = [units EXCEPT !.bypass = TRUE] /\ granted' = [granted EXCEPT !.bypass = TRUE]
    BY <1>2, Zenon DEF BootDcd
  <2>2. units' \in Units /\ granted' \in Units
    BY <2>1, Zenon DEF UnitsInv, Units
  <2>3. units'.pmp = units.pmp /\ granted'.pmp = granted.pmp /\ units'.sa = units.sa /\ granted'.sa = granted.sa
       /\ units'.csl = units.csl /\ granted'.csl = granted.csl /\ units'.region = units.region /\ granted'.region = granted.region
    BY <2>1, Zenon DEF UnitsInv, Units
  <2>4. QED
    BY <2>2, <2>3, Zenon DEF UnitsInv
<1>3. QED
  BY <1>1, <1>2

\* The policy that the counter runs under: the new one once Stop has written it.
SnvsPolicy == IF snvs.at \in {"idle", "stop"} THEN snvs.sp ELSE snvs.new

\* The SNVS, field by field.
Snvss ==
    [at : {"idle", "stop", "dryice", "clear", "monitors"}, new : Policy, sp : Policy, otpmk : BOOLEAN,
     stop : BOOLEAN, en : BOOLEAN, hac : Nat, viol : BOOLEAN, ssm : {"trusted", "soft", "hard"},
     dryEn : BOOLEAN, dmcr : SUBSET Tampers, lptdcr : SUBSET Tampers, dtrr : SUBSET Tampers, lpsr : SUBSET Tampers,
     pgd : BOOLEAN, events : Nat, seen : SUBSET Tampers, ran : Nat, was : BOOLEAN]

\* The counter and what it has counted make the HAC of the policy, a hard fail is the
\* policy's, and events of a policy that is in force are recorded.
SnvsInv ==
    /\ snvs \in Snvss
    /\ SnvsPolicy.hard \in BOOLEAN /\ SnvsPolicy.hac = MaxHAC
    /\ snvs.en = SnvsPolicy.hard
    /\ snvs.en = TRUE => snvs.hac + snvs.ran = MaxHAC
    /\ snvs.ssm = "hard" /\ snvs.was = FALSE => SnvsPolicy.hard = TRUE /\ snvs.ran = MaxHAC
    /\ snvs.at \in {"idle", "stop"} => snvs.seen \subseteq snvs.lpsr \cup snvs.dtrr

\* SetPolicy begins: the old policy is still in force.
LEMMA SnvsSet == ASSUME SnvsInv, NEW sp \in Policy, SetPolicy(sp) PROVE SnvsInv'
<1>1. snvs' = [snvs EXCEPT !.at = "stop", !.new = sp] /\ snvs.at = "idle"
  BY Zenon DEF SetPolicy, Snvs
<1>2. snvs' \in Snvss
  BY <1>1, Zenon DEF SnvsInv, Snvss
<1>3. SnvsPolicy' = SnvsPolicy
  BY <1>1 DEF SnvsInv, Snvss, SnvsPolicy
<1>4. QED
  BY <1>1, <1>2, <1>3 DEF SnvsInv, Snvss

\* The counter starts anew under the new policy, or stops.
LEMMA SnvsStop == ASSUME SnvsInv, Stop PROVE SnvsInv'
<1>0. MaxHAC \in Nat
  BY AccessAssumption DEF AccessConstants
<1>1. snvs.at = "stop" /\ snvs' = [snvs EXCEPT !.at = "dryice", !.was = (snvs.ssm = "hard"), !.pgd = FALSE, !.lpsr = {}, !.viol = snvs.new.viol,
                         !.stop = ~snvs.new.hard, !.en = snvs.new.hard, !.ran = 0,
                         !.hac = IF snvs.new.hard THEN snvs.new.hac ELSE @]
  BY Zenon DEF Stop, Snvs
<1>2. snvs.new.hard \in BOOLEAN /\ snvs.new.viol \in BOOLEAN /\ snvs.new.hac = MaxHAC
  <2>1. snvs.new \in Policy
    BY Zenon DEF SnvsInv, Snvss
  <2>2. QED
    BY <2>1 DEF Policy
<1>3. snvs' \in Snvss
  <2>1. PICK h \in Nat : h = IF snvs.new.hard THEN snvs.new.hac ELSE snvs.hac
    BY <1>0, <1>2 DEF SnvsInv, Snvss
  <2>2. snvs' = [snvs EXCEPT !.at = "dryice", !.was = (snvs.ssm = "hard"), !.pgd = FALSE, !.lpsr = {}, !.viol = snvs.new.viol,
                         !.stop = ~snvs.new.hard, !.en = snvs.new.hard, !.ran = 0, !.hac = h]
    BY <1>1, <2>1, Zenon
  <2>3. PICK w \in BOOLEAN : w = (snvs.ssm = "hard")
    BY Zenon
  <2>4. PICK t \in BOOLEAN : t = ~snvs.new.hard
    BY Zenon
  <2>5. snvs' = [snvs EXCEPT !.at = "dryice", !.was = w, !.pgd = FALSE, !.lpsr = {}, !.viol = snvs.new.viol,
                         !.stop = t, !.en = snvs.new.hard, !.ran = 0, !.hac = h]
    BY <2>2, <2>3, <2>4, Zenon
  <2>6. PICK u : u = [snvs EXCEPT !.at = "dryice", !.was = w, !.pgd = FALSE, !.lpsr = {}]
    BY Zenon
  <2>7. u \in Snvss
    <3>1. {} \in SUBSET Tampers
      OBVIOUS
    <3>2. QED
      BY <2>6, <3>1, Zenon DEF SnvsInv, Snvss
  <2>8. snvs' = [u EXCEPT !.viol = snvs.new.viol, !.stop = t, !.en = snvs.new.hard, !.ran = 0, !.hac = h]
    BY <2>5, <2>6, Zenon
  <2>9. 0 \in Nat
    OBVIOUS
  <2>10. QED
    BY <1>2, <2>7, <2>8, <2>9, Zenon DEF Snvss
<1>4. SnvsPolicy' = snvs.new
  BY <1>1 DEF SnvsInv, Snvss, SnvsPolicy
<1>5. snvs'.at = "dryice" /\ snvs'.en = snvs.new.hard /\ snvs'.ran = 0 /\ snvs'.ssm = snvs.ssm
      /\ snvs'.was = (snvs.ssm = "hard") /\ (snvs.new.hard = TRUE => snvs'.hac = snvs.new.hac)
  BY <1>1, Zenon DEF SnvsInv, Snvss
<1>6. snvs.ssm = "hard" => snvs'.was # FALSE
  BY <1>5, Zenon
<1>7. (snvs'.en = TRUE) => snvs'.hac + snvs'.ran = MaxHAC
  BY <1>0, <1>2, <1>5
<1>8. QED
  BY <1>2, <1>3, <1>4, <1>5, <1>6, <1>7, Zenon DEF SnvsInv

\* The monitors of DryIce follow the policy before their records are cleared.
LEMMA SnvsDryIce == ASSUME SnvsInv, setDryIcePolicy PROVE SnvsInv'
<1>0. snvs.new.mon \in SUBSET Tampers
  <2>1. snvs.new \in Policy
    BY Zenon DEF SnvsInv, Snvss
  <2>2. QED
    BY <2>1 DEF Policy
<1>1. CASE snvs.at = "dryice" /\ snvs' = [snvs EXCEPT !.at = "clear", !.dryEn = TRUE, !.dmcr = snvs.new.mon]
  <2>1. snvs' \in Snvss
    BY <1>0, <1>1, Zenon DEF SnvsInv, Snvss
  <2>2. SnvsPolicy' = SnvsPolicy
    BY <1>1 DEF SnvsInv, Snvss, SnvsPolicy
  <2>3. QED
    BY <1>1, <2>1, <2>2 DEF SnvsInv, Snvss
<1>2. CASE snvs.at = "clear" /\ snvs' = [snvs EXCEPT !.at = "monitors", !.dtrr = {}]
  <2>1. snvs' \in Snvss
    BY <1>2, Zenon DEF SnvsInv, Snvss
  <2>2. SnvsPolicy' = SnvsPolicy
    BY <1>2 DEF SnvsInv, Snvss, SnvsPolicy
  <2>3. QED
    BY <1>2, <2>1, <2>2 DEF SnvsInv, Snvss
<1>3. QED
  BY <1>1, <1>2, Zenon DEF setDryIcePolicy, Snvs

\* From here on events are those of the new policy.
LEMMA SnvsMonitors == ASSUME SnvsInv, SetMonitors PROVE SnvsInv'
<1>0. snvs.new.mon \in SUBSET Tampers
  <2>1. snvs.new \in Policy
    BY Zenon DEF SnvsInv, Snvss
  <2>2. QED
    BY <2>1 DEF Policy
<1>1. snvs.at = "monitors" /\ snvs' = [snvs EXCEPT !.at = "idle", !.lptdcr = snvs.new.mon, !.lpsr = {}, !.pgd = FALSE,
                         !.sp = snvs.new, !.seen = {}]
  BY Zenon DEF SetMonitors, Snvs
<1>2. snvs' \in Snvss
  BY <1>0, <1>1, Zenon DEF SnvsInv, Snvss
<1>3. SnvsPolicy' = SnvsPolicy
  BY <1>1 DEF SnvsInv, Snvss, SnvsPolicy
<1>4. QED
  BY <1>1, <1>2, <1>3 DEF SnvsInv, Snvss

\* An event leaves a record in one place at least.
LEMMA SnvsTamper == ASSUME SnvsInv, NEW k \in Tampers, HwTamper(k) PROVE SnvsInv'
<1>1. PICK rec \in {{"lp"}, {"dry"}, {"lp", "dry"}} :
          snvs' = [snvs EXCEPT !.events = @ + 1, !.seen = @ \cup {k},
                               !.lpsr = IF "lp" \in rec THEN @ \cup {k} ELSE @,
                               !.dtrr = IF "dry" \in rec THEN @ \cup {k} ELSE @,
                               !.ssm = IF snvs.viol /\ @ = "trusted" THEN "soft" ELSE @]
  BY Zenon DEF HwTamper, Snvs
<1>2. PICK n \in Nat : n = snvs.events + 1
  BY DEF SnvsInv, Snvss
<1>3. PICK s \in SUBSET Tampers : s = snvs.seen \cup {k}
  BY Zenon DEF SnvsInv, Snvss
<1>4. PICK l \in SUBSET Tampers : l = IF "lp" \in rec THEN snvs.lpsr \cup {k} ELSE snvs.lpsr
  BY Zenon DEF SnvsInv, Snvss
<1>5. PICK d \in SUBSET Tampers : d = IF "dry" \in rec THEN snvs.dtrr \cup {k} ELSE snvs.dtrr
  BY Zenon DEF SnvsInv, Snvss
<1>6. PICK m \in {"trusted", "soft", "hard"} : m = IF snvs.viol /\ snvs.ssm = "trusted" THEN "soft" ELSE snvs.ssm
  BY DEF SnvsInv, Snvss
<1>7. snvs' = [snvs EXCEPT !.events = n, !.seen = s, !.lpsr = l, !.dtrr = d, !.ssm = m]
  BY <1>1, <1>2, <1>3, <1>4, <1>5, <1>6, Zenon
<1>8. snvs' \in Snvss
  BY <1>7, Zenon DEF SnvsInv, Snvss
<1>9. SnvsPolicy' = SnvsPolicy
  BY <1>7 DEF SnvsInv, Snvss, SnvsPolicy
<1>10. m = "hard" => snvs.ssm = "hard"
  BY <1>6
<1>11. snvs.seen \subseteq snvs.lpsr \cup snvs.dtrr => s \subseteq l \cup d
  BY <1>1, <1>3, <1>4, <1>5
<1>12. QED
  BY <1>7, <1>8, <1>9, <1>10, <1>11 DEF SnvsInv, Snvss

\* A power glitch is no event of the monitors.
LEMMA SnvsGlitch == ASSUME SnvsInv, HwGlitch PROVE SnvsInv'
<1>1. PICK n \in Nat : n = snvs.events + 1
  BY DEF SnvsInv, Snvss
<1>2. snvs' = [snvs EXCEPT !.pgd = TRUE, !.events = n]
  BY <1>1, Zenon DEF HwGlitch, Snvs
<1>3. snvs' \in Snvss
  BY <1>2, Zenon DEF SnvsInv, Snvss
<1>4. SnvsPolicy' = SnvsPolicy
  BY <1>2 DEF SnvsInv, Snvss, SnvsPolicy
<1>5. QED
  BY <1>2, <1>3, <1>4 DEF SnvsInv, Snvss

\* The counter runs out after its whole HAC.
LEMMA SnvsCount == ASSUME SnvsInv, HwCount PROVE SnvsInv'
<1>1. PICK h \in Nat : h = IF snvs.hac = 0 THEN 0 ELSE snvs.hac - 1
  BY DEF SnvsInv, Snvss
<1>2. PICK r \in Nat : r = IF snvs.hac = 0 THEN snvs.ran ELSE snvs.ran + 1
  BY DEF SnvsInv, Snvss
<1>3. PICK m \in {"soft", "hard"} : m = IF snvs.hac = 0 THEN "hard" ELSE "soft"
  BY Zenon
<1>4. snvs' = [snvs EXCEPT !.hac = h, !.ssm = m, !.ran = r] /\ snvs.en = TRUE
  BY <1>1, <1>2, <1>3 DEF HwCount, Snvs, SnvsInv, Snvss
<1>5. snvs' \in Snvss
  BY <1>4, Zenon DEF SnvsInv, Snvss
<1>6. SnvsPolicy' = SnvsPolicy
  BY <1>4 DEF SnvsInv, Snvss, SnvsPolicy
<1>7. snvs'.hac = h /\ snvs'.ssm = m /\ snvs'.ran = r /\ snvs'.en = snvs.en /\ snvs'.was = snvs.was
      /\ snvs'.seen = snvs.seen /\ snvs'.lpsr = snvs.lpsr /\ snvs'.dtrr = snvs.dtrr /\ snvs'.at = snvs.at
  BY <1>4, Zenon DEF SnvsInv, Snvss
<1>8. h + r = snvs.hac + snvs.ran /\ (m = "hard" => r = snvs.hac + snvs.ran)
  BY <1>1, <1>2, <1>3 DEF SnvsInv, Snvss
<1>9. QED
  BY <1>4, <1>5, <1>6, <1>7, <1>8 DEF SnvsInv

\* The BEE, field by field.
Bees ==
    [at : {"idle", "key", "nonce"}, ready : BOOLEAN, r0 : {0, 2, 8}, r1 : {0, 2, 8}, sel : {"none", "otpmk", "software"},
     key : BOOLEAN, nonce : BOOLEAN, ctr : BOOLEAN, on : BOOLEAN, lock : BOOLEAN]

\* A key is selected that exists.
Keyed == bee.sel = "otpmk" \/ (bee.sel = "software" /\ bee.key = TRUE)

\* The BEE is on, or is about to be, with a key.
BeeInv ==
    /\ bee \in Bees
    /\ bee.on = TRUE => bee.nonce = TRUE /\ bee.ctr = TRUE /\ Keyed
    /\ bee.at = "nonce" /\ bee.lock = FALSE => Keyed

\* An access to the BEE, whose registers may be locked.
LEMMA BeeStep ==
    ASSUME BeeInv, NEW t \in Bees, Bee(t),
           bee.key = TRUE => t.key = TRUE, bee.nonce = TRUE => t.nonce = TRUE,
           bee.lock = FALSE =>
              /\ t.on = TRUE => t.nonce = TRUE /\ t.ctr = TRUE /\ (t.sel = "otpmk" \/ (t.sel = "software" /\ t.key = TRUE))
              /\ t.at = "nonce" /\ t.lock = FALSE => (t.sel = "otpmk" \/ (t.sel = "software" /\ t.key = TRUE))
    PROVE  BeeInv'
<1>1. CASE bee.lock = FALSE
  <2>1. bee' = t
    BY <1>1, Zenon DEF Bee
  <2>2. QED
    BY <1>1, <2>1, Zenon DEF BeeInv, Keyed
<1>2. CASE bee.lock = TRUE
  <2>1. bee' = [bee EXCEPT !.at = t.at, !.key = t.key, !.nonce = t.nonce]
    BY <1>2, Zenon DEF Bee
  <2>2. bee' \in Bees
    BY <2>1, Zenon DEF BeeInv, Bees
  <2>3. bee'.key = t.key /\ bee'.nonce = t.nonce /\ bee'.on = bee.on /\ bee'.ctr = bee.ctr /\ bee'.sel = bee.sel
        /\ bee'.lock = TRUE
    BY <1>2, <2>1, Zenon DEF BeeInv, Bees
  <2>4. QED
    BY <2>2, <2>3, Zenon DEF BeeInv, Keyed
<1>3. QED
  BY <1>1, <1>2, Zenon DEF BeeInv, Bees

\* Init.
LEMMA BeeInitialize == ASSUME BeeInv, Initialize PROVE BeeInv'
<1>1. PICK t : t = [bee EXCEPT !.ready = TRUE, !.on = FALSE]
  BY Zenon
<1>2. t \in Bees /\ t.on = FALSE /\ t.key = bee.key /\ t.nonce = bee.nonce /\ t.at = "idle"
  BY <1>1, Zenon DEF BeeInv, Bees, Initialize
<1>3. Bee(t)
  BY <1>1, Zenon DEF Initialize
<1>4. QED
  BY <1>2, <1>3, BeeStep, Zenon

\* generateKey succeeds or ends the call.
LEMMA BeeKey == ASSUME BeeInv, GenerateKey PROVE BeeInv'
<1>1. ASSUME NEW t, t = [bee EXCEPT !.at = "nonce", !.key = TRUE, !.sel = "software"], Bee(t) PROVE BeeInv'
  <2>1. t \in Bees /\ t.key = TRUE /\ t.sel = "software" /\ t.nonce = bee.nonce /\ t.on = bee.on /\ t.ctr = bee.ctr
    BY <1>1, Zenon DEF BeeInv, Bees
  <2>2. QED
    BY <1>1, <2>1, BeeStep, Zenon DEF BeeInv
<1>2. ASSUME NEW t, t = [bee EXCEPT !.at = "idle"], Bee(t) PROVE BeeInv'
  <2>1. t \in Bees /\ t.key = bee.key /\ t.sel = bee.sel /\ t.nonce = bee.nonce /\ t.on = bee.on /\ t.ctr = bee.ctr /\ t.at = "idle"
    BY <1>2, Zenon DEF BeeInv, Bees
  <2>2. QED
    BY <1>2, <2>1, BeeStep, Zenon DEF BeeInv, Keyed
<1>3. QED
  BY <1>1, <1>2, Zenon DEF GenerateKey

\* The BEE is on only after the nonce.
LEMMA BeeNonce == ASSUME BeeInv, GenerateNonce PROVE BeeInv'
<1>1. ASSUME NEW t, t = [bee EXCEPT !.at = "idle", !.nonce = TRUE, !.ctr = TRUE, !.on = TRUE], Bee(t) PROVE BeeInv'
  <2>1. t \in Bees /\ t.key = bee.key /\ t.sel = bee.sel /\ t.nonce = TRUE /\ t.on = TRUE /\ t.ctr = TRUE /\ t.at = "idle"
    BY <1>1, Zenon DEF BeeInv, Bees
  <2>2. bee.at = "nonce"
    BY Zenon DEF GenerateNonce
  <2>3. QED
    BY <1>1, <2>1, <2>2, BeeStep, Zenon DEF BeeInv, Keyed
<1>2. ASSUME NEW t, t = [bee EXCEPT !.at = "idle"], Bee(t) PROVE BeeInv'
  <2>1. t \in Bees /\ t.key = bee.key /\ t.sel = bee.sel /\ t.nonce = bee.nonce /\ t.on = bee.on /\ t.ctr = bee.ctr /\ t.at = "idle"
    BY <1>2, Zenon DEF BeeInv, Bees
  <2>2. QED
    BY <1>2, <2>1, BeeStep, Zenon DEF BeeInv, Keyed
<1>3. QED
  BY <1>1, <1>2, Zenon DEF GenerateNonce

\* The lock.
LEMMA BeeLocks == ASSUME BeeInv, BeeLock PROVE BeeInv'
<1>1. PICK t : t = [bee EXCEPT !.lock = TRUE]
  BY Zenon
<1>2. t \in Bees /\ t.on = bee.on /\ t.key = bee.key /\ t.nonce = bee.nonce /\ t.lock = TRUE /\ t.ctr = bee.ctr /\ t.sel = bee.sel
  BY <1>1, Zenon DEF BeeInv, Bees
<1>3. Bee(t)
  BY <1>1, Zenon DEF BeeLock
<1>4. QED
  BY <1>2, <1>3, BeeStep, Zenon DEF BeeInv, Keyed

\* Enable selects the key of the SNVS only when it is available.
LEMMA BeeEnable == ASSUME BeeInv, NEW r0 \in Regions, NEW r1 \in Regions, Enable(r0, r1) PROVE BeeInv'
<1>1. CASE UNCHANGED bee
  BY <1>1, Zenon DEF BeeInv, Keyed
<1>2. ASSUME NEW t, t = [bee EXCEPT !.at = IF Available THEN "nonce" ELSE "key", !.r0 = r0.unit, !.r1 = r1.unit,
                                    !.sel = IF Available THEN "otpmk" ELSE @], Bee(t)
      PROVE  BeeInv'
  <2>1. r0.unit \in {0, 2, 8} /\ r1.unit \in {0, 2, 8}
    BY Zenon DEF Regions
  <2>2. CASE Available
    <3>1. t = [bee EXCEPT !.at = "nonce", !.r0 = r0.unit, !.r1 = r1.unit, !.sel = "otpmk"]
      BY <1>2, <2>2, Zenon
    <3>2. t \in Bees /\ t.key = bee.key /\ t.sel = "otpmk" /\ t.nonce = bee.nonce /\ t.on = bee.on /\ t.ctr = bee.ctr
      BY <2>1, <3>1, Zenon DEF BeeInv, Bees
    <3>3. QED
      BY <1>2, <3>2, BeeStep, Zenon DEF BeeInv
  <2>3. CASE ~Available
    <3>1. t = [bee EXCEPT !.at = "key", !.r0 = r0.unit, !.r1 = r1.unit, !.sel = bee.sel]
      BY <1>2, <2>3, Zenon
    <3>2. t \in Bees /\ t.key = bee.key /\ t.sel = bee.sel /\ t.nonce = bee.nonce /\ t.on = bee.on /\ t.ctr = bee.ctr /\ t.at = "key"
      BY <2>1, <3>1, Zenon DEF BeeInv, Bees
    <3>3. QED
      BY <1>2, <3>2, BeeStep, Zenon DEF BeeInv, Keyed
  <2>4. QED
    BY <2>2, <2>3
<1>3. QED
  BY <1>1, <1>2, Zenon DEF Enable

\* All units together.
AccessInv == UnitsInv /\ SnvsInv /\ BeeInv

\* A step of one of the units leaves the others alone.
LEMMA UnitsStep == ASSUME UnitsInv, UnitsNext PROVE UnitsInv' /\ UNCHANGED <<snvs, bee>>
<1>1. ASSUME NEW i \in Entries, NEW addr \in Addresses, NEW a \in Modes, NEW l \in BOOLEAN, NEW rwx \in Levels,
             WritePMP(i, addr, rwx, a, l) \/ FilterWritePMP(i, addr, rwx, a, l)
      PROVE  UnitsInv' /\ UNCHANGED <<snvs, bee>>
  <2>1. UNCHANGED <<snvs, bee>>
    BY <1>1, Zenon DEF WritePMP, FilterWritePMP, Configures
  <2>2. QED
    BY <1>1, <2>1, UnitsPMP, UnitsFilter, Zenon
<1>2. ASSUME NEW i \in Entries \cup {-1}, NEW v \in BOOLEAN, NEW l \in BOOLEAN, SetAccess(i, v, l)
      PROVE  UnitsInv' /\ UNCHANGED <<snvs, bee>>
  BY <1>2, UnitsAccess, Zenon DEF SetAccess, Configures
<1>3. ASSUME NEW i \in Entries \cup {-1}, NEW l \in BOOLEAN, NEW sl \in 0 .. 2, NEW c \in Levels, SetSecurityLevel(i, sl, c, l)
      PROVE  UnitsInv' /\ UNCHANGED <<snvs, bee>>
  <2>1. UNCHANGED <<snvs, bee>>
    BY <1>3, Zenon DEF SetSecurityLevel, Configures
  <2>2. QED
    BY <1>3, <2>1, UnitsLevel, Zenon
<1>4. ASSUME NEW n \in Entries \cup {-1}, DisableRegion(n) PROVE UnitsInv' /\ UNCHANGED <<snvs, bee>>
  BY <1>4, UnitsDisable, Zenon DEF DisableRegion, Configures
<1>5. ASSUME NEW n \in Entries \cup {-1}, NEW start \in 0 .. Space - 1, NEW size \in Sizes, NEW sp \in Levels,
             EnableRegion(n, start, size, sp)
      PROVE  UnitsInv' /\ UNCHANGED <<snvs, bee>>
  <2>1. UNCHANGED <<snvs, bee>>
    BY <1>5, Zenon DEF EnableRegion, Configures
  <2>2. QED
    BY <1>5, <2>1, UnitsEnable, Zenon
<1>6. CASE Lock \/ BootDcd
  BY <1>6, UnitsFlags, Zenon DEF Lock, BootDcd, Configures
<1>7. QED
  BY <1>1, <1>2, <1>3, <1>4, <1>5, <1>6, Zenon DEF UnitsNext

\* Neither does one of the SNVS or of the BEE change a register of them.
LEMMA GuardStep == ASSUME AccessInv, GuardNext PROVE AccessInv'
<1>1. UnitsInv /\ SnvsInv /\ BeeInv
  BY Zenon DEF AccessInv
<1>2. CASE UNCHANGED <<units, granted, bee>> /\ SnvsInv'
  BY <1>1, <1>2, Zenon DEF AccessInv, UnitsInv, BeeInv, Keyed
<1>3. CASE UNCHANGED <<units, granted, snvs>> /\ BeeInv'
  <2>1. units' = units /\ granted' = granted /\ snvs' = snvs
    BY <1>3, Zenon
  <2>2. SnvsInv'
    BY <1>1, <2>1, Zenon DEF SnvsInv, SnvsPolicy
  <2>3. UnitsInv'
    BY <1>1, <2>1, Zenon DEF UnitsInv
  <2>4. QED
    BY <1>3, <2>2, <2>3, Zenon DEF AccessInv
<1>4. CASE \E sp \in Policy : SetPolicy(sp)
  BY <1>1, <1>2, <1>4, SnvsSet, Zenon DEF SetPolicy, Snvs
<1>5. CASE Stop \/ setDryIcePolicy \/ SetMonitors
  <2>1. UNCHANGED <<units, granted, bee>>
    BY <1>5, Zenon DEF Stop, setDryIcePolicy, SetMonitors, Snvs
  <2>2. QED
    BY <1>1, <1>2, <1>5, <2>1, SnvsStop, SnvsDryIce, SnvsMonitors, Zenon
<1>6. CASE HwGlitch \/ HwCount \/ \E k \in Tampers : HwTamper(k)
  <2>1. UNCHANGED <<units, granted, bee>>
    BY <1>6, Zenon DEF HwGlitch, HwCount, HwTamper, Snvs
  <2>2. QED
    BY <1>1, <1>2, <1>6, <2>1, SnvsGlitch, SnvsCount, SnvsTamper, Zenon
<1>7. CASE Initialize \/ GenerateKey \/ GenerateNonce \/ BeeLock
  <2>1. UNCHANGED <<units, granted, snvs>>
    BY <1>7, Zenon DEF Initialize, GenerateKey, GenerateNonce, BeeLock, Bee
  <2>2. QED
    BY <1>1, <1>3, <1>7, <2>1, BeeInitialize, BeeKey, BeeNonce, BeeLocks, Zenon
<1>8. CASE \E r0 \in Regions, r1 \in Regions : Enable(r0, r1)
  <2>1. UNCHANGED <<units, granted, snvs>>
    BY <1>8, Zenon DEF Enable, Bee
  <2>2. QED
    BY <1>1, <1>3, <1>8, <2>1, BeeEnable, Zenon
<1>9. QED
  BY <1>4, <1>5, <1>6, <1>7, <1>8, Zenon DEF GuardNext

\* After reset.
LEMMA AccessBegins == ASSUME AccessInit PROVE AccessInv
<1>1. 0 \in Nat /\ MaxHAC \in Nat /\ {} \in SUBSET Tampers
  BY AccessAssumption DEF AccessConstants
<1>2. UnitsInv
  <2>1. NoEntry \in Entry /\ NoRegion \in Region
    BY <1>1, Zenon DEF NoEntry, NoRegion, Entry, Region, Modes
  <2>2. units \in Units
    BY <1>1, <2>1, Zenon DEF AccessInit, UnitsInit, Units
  <2>3. granted = units
    BY Zenon DEF AccessInit, UnitsInit
  <2>4. \A n \in Entries : units.region[n] = NoRegion
    BY Zenon DEF AccessInit, UnitsInit
  <2>5. \A n \in Entries : SameRegion(units.region[n], granted.region[n])
    <3>1. NoRegion.en = FALSE
      BY Zenon DEF NoRegion
    <3>2. SameRegion(NoRegion, NoRegion)
      BY <3>1 DEF SameRegion
    <3>3. QED
      BY <2>3, <2>4, <3>2, Zenon
  <2>6. QED
    BY <2>2, <2>3, <2>5, Zenon DEF UnitsInv
<1>3. SnvsInv
  <2>1. snvs = [at |-> "idle", new |-> NoPolicy, sp |-> NoPolicy, otpmk |-> TRUE,
            stop |-> FALSE, en |-> FALSE, hac |-> MaxHAC, viol |-> FALSE, ssm |-> "trusted",
            dryEn |-> FALSE, dmcr |-> {}, lptdcr |-> {}, dtrr |-> {}, lpsr |-> {}, pgd |-> FALSE,
            events |-> 0, seen |-> {}, ran |-> 0, was |-> FALSE]
    BY Zenon DEF AccessInit, SnvsInit
  <2>2. snvs \in Snvss
    <3>1. NoPolicy \in Policy
      BY Zenon DEF NoPolicy, Policy
    <3>2. QED
      BY <1>1, <2>1, <3>1, Zenon DEF Snvss
  <2>3. snvs.at = "idle" /\ snvs.sp = NoPolicy /\ snvs.en = FALSE /\ snvs.ssm = "trusted" /\ snvs.seen = {}
    BY <2>1, Zenon
  <2>4. SnvsPolicy = NoPolicy /\ NoPolicy.hard = FALSE /\ NoPolicy.hac = MaxHAC
    BY <2>3, Zenon DEF SnvsPolicy, NoPolicy
  <2>5. QED
    BY <2>2, <2>3, <2>4, Zenon DEF SnvsInv
<1>4. BeeInv
  <2>1. bee \in Bees /\ bee.on = FALSE /\ bee.at = "idle"
    BY Zenon DEF AccessInit, BeeInit, Bees
  <2>2. QED
    BY <2>1, Zenon DEF BeeInv
<1>5. QED
  BY <1>2, <1>3, <1>4, Zenon DEF AccessInv

\* The invariant is more than PolicyHolds.
LEMMA AccessShows == ASSUME AccessInv PROVE PolicyHolds
<1>1. UnitsInv /\ SnvsInv /\ BeeInv
  BY Zenon DEF AccessInv
<1>2. AsConfigured
  <2>1. \A i \in Entries : ReadPMP(i) = granted.pmp[i] /\ GetAccess(i) = granted.sa[i]
    BY <1>1, Zenon DEF UnitsInv, ReadPMP, GetAccess
  <2>2. \A p \in Entries \X {0, 1} : GetSecurityLevel(p) = granted.csl[p]
    BY <1>1, Zenon DEF UnitsInv, GetSecurityLevel
  <2>3. ASSUME NEW n \in Entries \ {0}
        PROVE  SameRegion(units.region[n], granted.region[n]) /\ units.region[n].en \in BOOLEAN
    BY <1>1, Zenon DEF UnitsInv, Units, Region
  <2>4. QED
    BY <2>1, <2>2, <2>3, Zenon DEF AsConfigured, SameRegion
<1>3. GuardHolds
  <2>1. snvs \in Snvss /\ bee \in Bees /\ MaxHAC \in Nat
    BY <1>1, AccessAssumption, Zenon DEF SnvsInv, BeeInv, AccessConstants
  <2>2. ASSUME snvs.ssm = "hard", ~snvs.was, snvs.at = "idle" PROVE snvs.sp.hard /\ snvs.ran >= snvs.sp.hac
    <3>1. SnvsPolicy = snvs.sp
      BY <2>2 DEF SnvsPolicy
    <3>2. snvs.was = FALSE
      BY <2>1, <2>2, Zenon DEF Snvss
    <3>3. snvs.sp.hard = TRUE /\ snvs.ran = MaxHAC /\ snvs.sp.hac = MaxHAC
      BY <1>1, <2>2, <3>1, <3>2, Zenon DEF SnvsInv
    <3>4. QED
      BY <2>1, <3>3
  <2>3. snvs.at = "idle" => snvs.seen \subseteq snvs.lpsr \cup snvs.dtrr
    BY <1>1 DEF SnvsInv
  <2>4. snvs.seen \subseteq {"C", "T", "V"}
    BY <2>1, Zenon DEF Snvss, Tampers
  <2>5. ASSUME snvs.at = "idle", snvs.seen # {} PROVE Monitor.Clock \/ Monitor.Temperature \/ Monitor.Voltage
    BY <2>3, <2>4, <2>5, Zenon DEF Monitor
  <2>6. ASSUME snvs.at = "idle", "C" \in snvs.seen PROVE Monitor.Clock
    BY <2>3, <2>6, Zenon DEF Monitor
  <2>7. ASSUME bee.on PROVE bee.nonce /\ bee.ctr /\ IF bee.sel = "software" THEN bee.key ELSE bee.sel = "otpmk"
    <3>1. bee.on = TRUE
      BY <2>1, <2>7, Zenon DEF Bees
    <3>2. QED
      BY <1>1, <3>1 DEF BeeInv, Keyed
  <2>8. QED
    BY <2>2, <2>5, <2>6, <2>7, Zenon DEF GuardHolds
<1>4. QED
  BY <1>2, <1>3, Zenon DEF PolicyHolds

\* PolicyHolds holds for any number of entries, masters and regions, any sizes that
\* are asked for and any value of the counter.
THEOREM AccessAsConfigured == AccessSpec => []PolicyHolds
<1>1. AccessInit => AccessInv
  BY AccessBegins, Zenon
<1>2. AccessInv /\ [UnitsNext \/ GuardNext]_accessVars => AccessInv'
  <2>1. SUFFICES ASSUME AccessInv, [UnitsNext \/ GuardNext]_accessVars PROVE AccessInv'
    OBVIOUS
  <2>2. CASE UnitsNext
    <3>1. UnitsInv' /\ snvs' = snvs /\ bee' = bee
      BY <2>1, <2>2, UnitsStep, Zenon DEF AccessInv
    <3>2. SnvsInv'
      BY <2>1, <3>1, Zenon DEF AccessInv, SnvsInv, SnvsPolicy
    <3>3. BeeInv'
      BY <2>1, <3>1, Zenon DEF AccessInv, BeeInv, Keyed
    <3>4. QED
      BY <3>1, <3>2, <3>3, Zenon DEF AccessInv
  <2>3. CASE GuardNext
    BY <2>1, <2>3, GuardStep, Zenon
  <2>4. CASE UNCHANGED accessVars
    <3>1. units' = units /\ granted' = granted /\ snvs' = snvs /\ bee' = bee
      BY <2>4, Zenon DEF accessVars
    <3>2. SnvsInv' /\ BeeInv'
      BY <2>1, <3>1, Zenon DEF AccessInv, SnvsInv, SnvsPolicy, BeeInv, Keyed
    <3>3. UnitsInv'
      BY <2>1, <3>1, Zenon DEF AccessInv, UnitsInv
    <3>4. QED
      BY <3>2, <3>3, Zenon DEF AccessInv
  <2>5. QED
    BY <2>1, <2>2, <2>3, <2>4, Zenon
<1>3. AccessInv => PolicyHolds
  BY AccessShows, Zenon
<1>4. QED
  BY <1>1, <1>2, <1>3, PTL DEF AccessSpec

-----------------------------------------------------------------------------
(* Random numbers.                                                         *)

\* A byte is one of the four of a word of the generator.
Byte == Nat \X (1 .. 4)
Gens ==
    [kind : Sources, state : {"off", "testing", "tested", "failed", "seeding", "seeded"}, serial : Nat, fifo : Seq(Nat),
     regs : [0 .. Regs - 1 -> Nat], valid : BOOLEAN, error : BOOLEAN]
\* A call of GetRandomData.
Calls == [at : {"init", "idle", "loop", "panic"}, need : Nat, buf : Seq(Byte), reg : 0 .. Regs - 1, polls : Nat, calls : Nat]

\* The bytes handed out so far, those of the current call included.
Handed == out \o call.buf
Unused(w) == w \in 1 .. gen.serial /\ \A k \in DOMAIN Handed : Handed[k][1] # w

\* Types.
SourceType == gen \in Gens /\ call \in Calls /\ out \in Seq(Byte)
\* What was handed out, what waits in the FIFO and in the registers, and the states in
\* which bytes are taken.
HandedInv == Distinct(Handed) /\ \A k \in DOMAIN Handed : Handed[k][1] \in 1 .. gen.serial
FifoInv ==
    /\ Distinct(gen.fifo)
    /\ \A j \in DOMAIN gen.fifo : Unused(gen.fifo[j])
    /\ gen.fifo # <<>> => gen.kind \in {"rngb", "bcm", "trng"}
RegsInv ==
    /\ call.reg # 0 => gen.valid = TRUE
    /\ gen.valid = TRUE =>
          /\ gen.kind \in {"caam", "prng"}
          /\ \A r \in call.reg .. Regs - 1 : Unused(gen.regs[r])
          /\ \A q, r \in call.reg .. Regs - 1 : gen.regs[q] = gen.regs[r] => q = r
StateInv ==
    /\ call.at \in {"idle", "loop"} => gen.state = "seeded"
    /\ call.at \in {"init", "idle"} => call.buf = <<>>

SourceInv == SourceType /\ HandedInv /\ FifoInv /\ RegsInv /\ StateInv

\* Sequence s has no byte twice and none of word w; t adds bytes of w only.
Lacks(s, w) == Distinct(s) /\ \A k \in DOMAIN s : s[k][1] # w
Adds(s, t, w) == Distinct(t) /\ \A k \in DOMAIN t : (k \in DOMAIN s /\ t[k] = s[k]) \/ t[k][1] = w

\* The bytes of a word that was not handed out before.
LEMMA HandOut ==
    ASSUME NEW o \in Seq(Byte), NEW b \in Seq(Byte), NEW w \in Nat, NEW need \in Nat, Len(b) < need, Lacks(o \o b, w)
    PROVE  Fill(b, need, w) \in Seq(Byte) /\ Adds(o \o b, o \o Fill(b, need, w), w)
<1>0. PICK s, t, c : s = o \o b /\ c = Fill(b, need, w) /\ t = o \o c
  BY Zenon
<1>a. Distinct(s) /\ \A k \in DOMAIN s : s[k][1] # w
  BY <1>0, Zenon DEF Lacks
<1>1. PICK m \in 1 .. 4 : m = IF need - Len(b) < 4 THEN need - Len(b) ELSE 4
  <2>1. Len(b) \in Nat
    OBVIOUS
  <2>2. QED
    BY <2>1
<1>2. PICK f : f = [k \in 1 .. m |-> <<w, k>>]
  BY Zenon
<1>3. f \in Seq(Byte) /\ Len(f) = m /\ \A k \in 1 .. m : f[k] = <<w, k>>
  <2>1. \A k \in 1 .. m : <<w, k>> \in Byte
    BY DEF Byte
  <2>2. f \in [1 .. m -> Byte]
    BY <1>2, <2>1, Zenon
  <2>3. m \in Nat
    OBVIOUS
  <2>4. f \in Seq(Byte) /\ Len(f) = m
    BY <2>2, <2>3
  <2>5. QED
    BY <1>2, <2>4, Zenon
<1>4. c = b \o f
  BY <1>0, <1>1, <1>2, Zenon DEF Fill
<1>5. t = o \o (b \o f)
  BY <1>0, <1>4, Zenon
<1>6. s = o \o b
  BY <1>0, Zenon
<1>7. s \in Seq(Byte) /\ t \in Seq(Byte) /\ b \o f \in Seq(Byte) /\ Len(s) = Len(o) + Len(b) /\ Len(t) = Len(s) + m
  <2>1. s \in Seq(Byte) /\ Len(s) = Len(o) + Len(b)
    BY <1>6
  <2>2. b \o f \in Seq(Byte) /\ Len(b \o f) = Len(b) + m
    BY <1>3
  <2>3. c \in Seq(Byte) /\ Len(c) = Len(b) + m
    BY <1>4, <2>2, Zenon
  <2>4. t \in Seq(Byte) /\ Len(t) = Len(o) + Len(c)
    <3>1. t = o \o c
      BY <1>0, Zenon
    <3>2. t \in Seq(Byte)
      BY <2>3, <3>1
    <3>3. Len(t) = Len(o) + Len(c)
      <4>1. c \in Seq(Byte)
        BY <2>3
      <4>2. Len(o \o c) = Len(o) + Len(c)
        BY <4>1
      <4>3. QED
        BY <3>1, <4>2, Zenon
    <3>4. QED
      BY <3>2, <3>3
  <2>5. QED
    BY <2>1, <2>2, <2>3, <2>4
<1>8. ASSUME NEW k \in 1 .. Len(s) PROVE t[k] = s[k]
  BY <1>3, <1>5, <1>6, <1>7
<1>9. ASSUME NEW k \in 1 .. m PROVE t[Len(s) + k] = <<w, k>>
  BY <1>3, <1>5, <1>6, <1>7
<1>10. ASSUME NEW k \in 1 .. Len(t), k \notin 1 .. Len(s) PROVE t[k] = <<w, k - Len(s)>>
  <2>1. PICK j : j = k - Len(s)
    BY Zenon
  <2>2. Len(s) \in Nat /\ Len(t) = Len(s) + m
    BY <1>7
  <2>3. j \in 1 .. m /\ k = Len(s) + j
    BY <1>10, <2>1, <2>2
  <2>4. t[Len(s) + j] = <<w, j>>
    BY <1>9, <2>3, Zenon
  <2>5. QED
    BY <2>1, <2>3, <2>4, Zenon
<1>11. \A k \in DOMAIN t : (k \in DOMAIN s /\ t[k] = s[k]) \/ t[k][1] = w
  <2>1. DOMAIN s = 1 .. Len(s) /\ DOMAIN t = 1 .. Len(t)
    BY <1>7
  <2>2. \A k : <<w, k - Len(s)>>[1] = w
    OBVIOUS
  <2>3. QED
    <3>1. SUFFICES ASSUME NEW k \in 1 .. Len(t) PROVE (k \in 1 .. Len(s) /\ t[k] = s[k]) \/ t[k][1] = w
      BY <2>1, Zenon
    <3>2. CASE k \in 1 .. Len(s)
      BY <1>8, <3>2, Zenon
    <3>3. CASE k \notin 1 .. Len(s)
      BY <1>10, <2>2, <3>3, Zenon
    <3>4. QED
      BY <3>2, <3>3, Zenon
<1>12. Distinct(t)
  <2>1. SUFFICES ASSUME NEW j \in 1 .. Len(t), NEW k \in 1 .. Len(t), t[j] = t[k] PROVE j = k
    BY <1>7 DEF Distinct
  <2>2. DOMAIN s = 1 .. Len(s)
    BY <1>7
  <2>3. CASE j \in 1 .. Len(s) /\ k \in 1 .. Len(s)
    BY <1>a, <1>8, <2>1, <2>2, <2>3, Zenon DEF Distinct
  <2>4. CASE j \notin 1 .. Len(s) /\ k \notin 1 .. Len(s)
    <3>1. <<w, j - Len(s)>> = <<w, k - Len(s)>>
      BY <1>10, <2>1, <2>4, Zenon
    <3>2. QED
      BY <1>7, <3>1
  <2>5. CASE j \in 1 .. Len(s) /\ k \notin 1 .. Len(s)
    <3>0. <<w, k - Len(s)>>[1] = w
      OBVIOUS
    <3>1. t[j] = s[j] /\ t[k] = <<w, k - Len(s)>> /\ s[j][1] # w
      BY <1>a, <1>8, <1>10, <2>2, <2>5, Zenon
    <3>2. QED
      BY <2>1, <3>0, <3>1, Zenon
  <2>6. CASE j \notin 1 .. Len(s) /\ k \in 1 .. Len(s)
    <3>0. <<w, j - Len(s)>>[1] = w
      OBVIOUS
    <3>1. t[k] = s[k] /\ t[j] = <<w, j - Len(s)>> /\ s[k][1] # w
      BY <1>a, <1>8, <1>10, <2>2, <2>6, Zenon
    <3>2. QED
      BY <2>1, <3>0, <3>1, Zenon
  <2>7. QED
    BY <2>3, <2>4, <2>5, <2>6, Zenon
<1>13. QED
  BY <1>0, <1>4, <1>7, <1>11, <1>12, Zenon DEF Adds

\* Nothing is handed out and no number is taken back.
LEMMA SameBytes ==
    ASSUME SourceInv, Handed' = Handed, gen'.serial \in Nat, gen.serial <= gen'.serial
    PROVE  HandedInv' /\ \A w : Unused(w) => Unused(w)'
<1>1. gen.serial \in Nat
  BY DEF SourceInv, SourceType, Gens
<1>2. \A w \in 1 .. gen.serial : w \in 1 .. gen'.serial
  BY <1>1
<1>3. HandedInv'
  BY <1>2, Zenon DEF SourceInv, HandedInv
<1>4. QED
  BY <1>2, <1>3, Zenon DEF Unused

\* And nothing new is taken to be handed out.
LEMMA SourceSame ==
    ASSUME SourceInv, gen' \in Gens, call' \in Calls, out' \in Seq(Byte), Handed' = Handed, gen.serial <= gen'.serial,
           gen'.kind = gen.kind, gen'.fifo = gen.fifo, gen'.regs = gen.regs, gen'.valid = gen.valid, call'.reg = call.reg,
           StateInv'
    PROVE  SourceInv'
<1>1. HandedInv' /\ \A w : Unused(w) => Unused(w)'
  BY SameBytes, Zenon DEF Gens
<1>2. FifoInv'
  BY <1>1, Zenon DEF SourceInv, FifoInv
<1>3. RegsInv'
  <2>1. (call.reg # 0 => gen.valid = TRUE)'
    BY Zenon DEF SourceInv, RegsInv
  <2>2. ASSUME gen'.valid = TRUE
        PROVE  /\ gen'.kind \in {"caam", "prng"}
               /\ \A r \in call'.reg .. Regs - 1 : Unused(gen.regs[r])'
               /\ \A q, r \in call'.reg .. Regs - 1 : gen'.regs[q] = gen'.regs[r] => q = r
    <3>1. gen.valid = TRUE /\ RegsInv
      BY <2>2, Zenon DEF SourceInv
    <3>2. \A r \in call.reg .. Regs - 1 : Unused(gen.regs[r])
      BY <3>1, Zenon DEF RegsInv
    <3>3. ASSUME NEW r \in call'.reg .. Regs - 1 PROVE Unused(gen.regs[r])'
      <4>1. r \in call.reg .. Regs - 1 /\ gen'.regs[r] = gen.regs[r]
        BY Zenon
      <4>2. Unused(gen.regs[r])
        BY <3>2, <4>1, Zenon
      <4>3. QED
        BY <1>1, <4>1, <4>2, Zenon DEF Unused
    <3>4. \A q, r \in call'.reg .. Regs - 1 : gen'.regs[q] = gen'.regs[r] => q = r
      BY <3>1, Zenon DEF RegsInv
    <3>5. gen'.kind \in {"caam", "prng"}
      BY <3>1, Zenon DEF RegsInv
    <3>6. QED
      BY <3>3, <3>4, <3>5, Zenon
  <2>3. QED
    BY <2>1, <2>2, Zenon DEF RegsInv
<1>4. QED
  BY <1>1, <1>2, <1>3, Zenon DEF SourceInv, SourceType

\* Steps that change the state of the generator or the call.
LEMMA SourceState ==
    ASSUME SourceInv, NEW s \in {"off", "testing", "tested", "failed", "seeding", "seeded"}, gen.state # "seeded" \/ s = "seeded",
           NEW n \in Nat, gen.serial <= n,
           gen' = [gen EXCEPT !.state = s, !.serial = n], UNCHANGED <<call, out>>
    PROVE  SourceInv'
<1>1. gen' \in Gens /\ gen'.state = s /\ gen'.serial = n /\ gen'.kind = gen.kind /\ gen'.fifo = gen.fifo /\ gen'.regs = gen.regs
      /\ gen'.valid = gen.valid
  BY Zenon DEF SourceInv, SourceType, Gens
<1>2. call' = call /\ out' = out /\ Handed' = Handed
  BY Zenon DEF Handed
<1>3. StateInv'
  BY <1>1, <1>2, Zenon DEF SourceInv, StateInv
<1>4. QED
  BY <1>1, <1>2, <1>3, SourceSame, Zenon DEF SourceInv, SourceType

\* A generator starts: nothing has been handed out.
LEMMA SourceStart ==
    ASSUME SourceInv, RngbInit \/ HwSelfTest \/ CaamInit \/ Seed
    PROVE  SourceInv'
<1>1. gen.serial \in Nat /\ gen.serial <= gen.serial /\ gen.serial + Regs \in Nat /\ gen.serial <= gen.serial + Regs
  BY RngAssumption DEF RngConstants, SourceInv, SourceType, Gens
<1>2. gen = [gen EXCEPT !.serial = gen.serial]
  BY Zenon DEF SourceInv, SourceType, Gens
<1>3. ASSUME NEW s \in {"off", "testing", "tested", "failed", "seeding", "seeded"}, gen.state # "seeded" \/ s = "seeded",
             Source([gen EXCEPT !.state = s])
      PROVE  SourceInv'
  <2>1. gen' = [gen EXCEPT !.state = s, !.serial = gen.serial] /\ UNCHANGED <<call, out>>
    BY <1>3, Zenon DEF Source, SourceInv, SourceType, Gens
  <2>2. QED
    BY <1>1, <1>3, <2>1, SourceState, Zenon
<1>4. CASE RngbInit
  BY <1>3, <1>4, Zenon DEF RngbInit
<1>5. CASE HwSelfTest
  BY <1>3, <1>5, Zenon DEF HwSelfTest
<1>6. CASE CaamInit
  BY <1>3, <1>6, Zenon DEF CaamInit
<1>7. CASE Seed
  <2>1. PICK n \in Nat : n = gen.serial + Regs /\ gen.serial <= n
    BY <1>1, Zenon
  <2>2. gen' = [gen EXCEPT !.state = "seeded", !.serial = n] /\ UNCHANGED <<call, out>>
    BY <1>7, <2>1, Zenon DEF Seed, Source
  <2>3. QED
    BY <2>1, <2>2, SourceState, Zenon
<1>8. QED
  BY <1>4, <1>5, <1>6, <1>7, Zenon

\* Init has ended.
LEMMA SourceInitialized == ASSUME SourceInv, Initialized PROVE SourceInv'
<1>1. PICK a \in {"idle", "panic"} : a = (IF gen.state = "seeded" THEN "idle" ELSE "panic") /\ call' = [call EXCEPT !.at = a]
      /\ gen' = gen /\ out' = out /\ call.at = "init"
  BY Zenon DEF Initialized
<1>2. call' \in Calls /\ call'.at = a /\ call'.buf = call.buf /\ call'.reg = call.reg
  BY <1>1, Zenon DEF SourceInv, SourceType, Calls
<1>3. Handed' = Handed
  BY <1>1, <1>2, Zenon DEF Handed
<1>4. StateInv'
  BY <1>1, <1>2 DEF SourceInv, StateInv
<1>5. gen.serial <= gen.serial
  BY DEF SourceInv, SourceType, Gens
<1>6. QED
  BY <1>1, <1>2, <1>3, <1>4, <1>5, SourceSame, Zenon DEF SourceInv, SourceType

\* A call begins with an empty buffer.
LEMMA SourceGet == ASSUME SourceInv, NEW need \in Needs, GetRandomData(need) PROVE SourceInv'
<1>0. need \in Nat
  BY RngAssumption, Zenon DEF RngConstants
<1>1. PICK n \in Nat, z \in Nat : n = call.calls + 1 /\ z = 0
  BY DEF SourceInv, SourceType, Calls
<1>2. call' = [call EXCEPT !.at = "loop", !.need = need, !.buf = <<>>, !.calls = n, !.polls = z] /\ call.at = "idle"
      /\ gen' = gen /\ out' = out
  BY <1>1, Zenon DEF GetRandomData
<1>3. <<>> \in Seq(Byte)
  OBVIOUS
<1>4. call' \in Calls /\ call'.at = "loop" /\ call'.buf = <<>> /\ call'.reg = call.reg
  BY <1>0, <1>2, <1>3, Zenon DEF SourceInv, SourceType, Calls
<1>5. Handed' = Handed
  BY <1>2, <1>4, Zenon DEF Handed, SourceInv, StateInv
<1>6. StateInv'
  BY <1>2, <1>4, Zenon DEF SourceInv, StateInv
<1>7. gen.serial <= gen.serial
  BY DEF SourceInv, SourceType, Gens
<1>8. QED
  BY <1>2, <1>4, <1>5, <1>6, <1>7, SourceSame, Zenon DEF SourceInv, SourceType

\* A call that panics hands out nothing more.
LEMMA SourcePanic == ASSUME SourceInv, Panic PROVE SourceInv'
<1>1. call' = [call EXCEPT !.at = "panic"] /\ gen' = gen /\ out' = out
  BY Zenon DEF Panic
<1>2. call' \in Calls /\ call'.at = "panic" /\ call'.buf = call.buf /\ call'.reg = call.reg
  BY <1>1, Zenon DEF SourceInv, SourceType, Calls
<1>3. Handed' = Handed
  BY <1>1, <1>2, Zenon DEF Handed
<1>4. StateInv'
  BY <1>1, <1>2 DEF StateInv
<1>5. gen.serial <= gen.serial
  BY DEF SourceInv, SourceType, Gens
<1>6. QED
  BY <1>1, <1>2, <1>3, <1>4, <1>5, SourceSame, Zenon DEF SourceInv, SourceType

\* A call that returns hands out its buffer.
LEMMA SourceReturn == ASSUME SourceInv, GetReturn PROVE SourceInv'
<1>1. call' = [call EXCEPT !.at = "idle", !.buf = <<>>] /\ gen' = gen /\ out' = Handed /\ call.at = "loop"
  BY Zenon DEF GetReturn, Handed
<1>2. <<>> \in Seq(Byte)
  OBVIOUS
<1>3. call' \in Calls /\ call'.at = "idle" /\ call'.buf = <<>> /\ call'.reg = call.reg
  BY <1>1, <1>2, Zenon DEF SourceInv, SourceType, Calls
<1>4. call.buf \in Seq(Byte) /\ out \in Seq(Byte)
  BY Zenon DEF SourceInv, SourceType, Calls
<1>5. out' \in Seq(Byte)
  BY <1>1, <1>4 DEF Handed
<1>6. Handed' = Handed
  <2>1. out' \o <<>> = out'
    BY <1>5
  <2>2. QED
    BY <1>1, <1>3, <2>1, Zenon DEF Handed
<1>7. StateInv'
  BY <1>1, <1>3, Zenon DEF SourceInv, StateInv
<1>8. gen.serial <= gen.serial
  BY DEF SourceInv, SourceType, Gens
<1>9. QED
  BY <1>1, <1>3, <1>5, <1>6, <1>7, <1>8, SourceSame, Zenon DEF SourceInv, SourceType

\* An error of the generator.
LEMMA SourceError == ASSUME SourceInv, HwError PROVE SourceInv'
<1>1. gen' = [gen EXCEPT !.error = TRUE] /\ call' = call /\ out' = out
  BY Zenon DEF HwError, Source
<1>2. gen' \in Gens /\ gen'.kind = gen.kind /\ gen'.fifo = gen.fifo /\ gen'.regs = gen.regs /\ gen'.valid = gen.valid
      /\ gen'.serial = gen.serial /\ gen'.state = gen.state
  BY <1>1, Zenon DEF SourceInv, SourceType, Gens
<1>3. Handed' = Handed
  BY <1>1, Zenon DEF Handed
<1>4. StateInv'
  BY <1>1, <1>2, Zenon DEF SourceInv, StateInv
<1>5. gen.serial <= gen.serial
  BY DEF SourceInv, SourceType, Gens
<1>6. QED
  BY <1>1, <1>2, <1>3, <1>4, <1>5, SourceSame, Zenon DEF SourceInv, SourceType

\* A word is taken that was not handed out before.
LEMMA TakeWord ==
    ASSUME SourceInv, More, NEW w, NEW t \in Gens, NEW reg \in 0 .. Regs - 1, Took(w, t, reg),
           gen.serial <= t.serial, w \in 1 .. t.serial, \A k \in DOMAIN Handed : Handed[k][1] # w, t.state = gen.state
    PROVE  /\ SourceType' /\ HandedInv' /\ StateInv' /\ gen' = t /\ call'.reg = reg
           /\ \A v : Unused(v) /\ v # w => Unused(v)'
<1>1. gen' = t /\ out' = out
  BY Zenon DEF Took
<1>2. PICK b : b = Fill(call.buf, call.need, w)
  BY Zenon
<1>3. PICK z \in Nat : z = 0
  OBVIOUS
<1>4. call' = [call EXCEPT !.buf = b, !.reg = reg, !.polls = z]
  BY <1>2, <1>3, Zenon DEF Took
<1>5. gen.serial \in Nat /\ t.serial \in Nat /\ w \in Nat
  <2>1. gen \in Gens
    BY Zenon DEF SourceInv, SourceType
  <2>2. gen.serial \in Nat /\ t.serial \in Nat
    BY <2>1, Zenon DEF Gens
  <2>3. QED
    BY <2>2
<1>6. /\ b \in Seq(Byte) /\ Distinct(out \o b)
      /\ \A k \in DOMAIN (out \o b) : (k \in DOMAIN Handed /\ (out \o b)[k] = Handed[k]) \/ (out \o b)[k][1] = w
  <2>1. out \in Seq(Byte) /\ call.buf \in Seq(Byte) /\ call.need \in Nat /\ Len(call.buf) < call.need
    BY Zenon DEF SourceInv, SourceType, Calls, More
  <2>2. Lacks(out \o call.buf, w)
    BY Zenon DEF SourceInv, HandedInv, Handed, Lacks
  <2>3. b \in Seq(Byte) /\ Adds(out \o call.buf, out \o b, w)
    BY <1>2, <1>5, <2>1, <2>2, HandOut, Zenon
  <2>4. QED
    BY <2>3, Zenon DEF Adds, Handed
<1>7. call' \in Calls /\ call'.buf = b /\ call'.at = call.at /\ call'.reg = reg
  BY <1>4, <1>6, Zenon DEF SourceInv, SourceType, Calls
<1>8. Handed' = out \o b
  BY <1>1, <1>7, Zenon DEF Handed
<1>9. SourceType'
  BY <1>1, <1>7, Zenon DEF SourceInv, SourceType
<1>10. \A v \in 1 .. gen.serial : v \in 1 .. t.serial
  BY <1>5
<1>11. HandedInv'
  BY <1>1, <1>6, <1>8, <1>10, Zenon DEF SourceInv, HandedInv
<1>12. StateInv'
  BY <1>1, <1>7 DEF SourceInv, StateInv, More
<1>13. ASSUME NEW v, Unused(v), v # w PROVE Unused(v)'
  BY <1>1, <1>6, <1>8, <1>10, <1>13, Zenon DEF Unused
<1>14. QED
  BY <1>1, <1>7, <1>9, <1>11, <1>12, <1>13, Zenon

\* The first word of the FIFO leaves it.
LEMMA TakeFifo ==
    ASSUME SourceInv, More, gen.fifo # <<>>, NEW rest \in {Tail(gen.fifo), <<>>},
           Took(Head(gen.fifo), [gen EXCEPT !.fifo = rest], 0)
    PROVE  SourceInv'
<1>1. PICK w : w = Head(gen.fifo)
  BY Zenon
<1>2. gen.fifo \in Seq(Nat) /\ 0 \in 0 .. Regs - 1
  BY RngAssumption DEF RngConstants, SourceInv, SourceType, Gens
<1>3. 1 \in DOMAIN gen.fifo /\ w = gen.fifo[1]
  BY <1>1, <1>2
<1>4. rest \in Seq(Nat) /\ \A j \in DOMAIN rest : j + 1 \in DOMAIN gen.fifo /\ rest[j] = gen.fifo[j + 1] /\ j + 1 # 1 /\ j \in Int
  <2>1. CASE rest = Tail(gen.fifo)
    BY <1>2, <2>1
  <2>2. CASE rest = <<>>
    BY <1>2, <2>2
  <2>3. QED
    BY <2>1, <2>2
<1>5. PICK t : t = [gen EXCEPT !.fifo = rest]
  BY Zenon
<1>6. t \in Gens /\ t.serial = gen.serial /\ t.state = gen.state /\ t.fifo = rest /\ t.valid = gen.valid /\ t.kind = gen.kind
  BY <1>4, <1>5, Zenon DEF SourceInv, SourceType, Gens
<1>7. gen.serial <= gen.serial
  BY DEF SourceInv, SourceType, Gens
<1>8. Unused(w)
  BY <1>3, Zenon DEF SourceInv, FifoInv
<1>9. Took(w, t, 0)
  BY <1>1, <1>5, Zenon
<1>10. /\ SourceType' /\ HandedInv' /\ StateInv' /\ gen' = t /\ call'.reg = 0
       /\ \A v : Unused(v) /\ v # w => Unused(v)'
  BY <1>2, <1>6, <1>7, <1>8, <1>9, TakeWord, Zenon DEF Unused
<1>11. FifoInv'
  <2>1. Distinct(rest)
    <3>1. SUFFICES ASSUME NEW j \in DOMAIN rest, NEW k \in DOMAIN rest, rest[j] = rest[k] PROVE j = k
      BY Zenon DEF Distinct
    <3>2. j + 1 = k + 1 /\ j \in Int /\ k \in Int
      BY <1>4, <3>1, Zenon DEF SourceInv, FifoInv, Distinct
    <3>3. QED
      BY <3>2
  <2>2. ASSUME NEW j \in DOMAIN rest PROVE Unused(rest[j])'
    <3>1. rest[j] = gen.fifo[j + 1] /\ Unused(gen.fifo[j + 1]) /\ gen.fifo[j + 1] # w
      BY <1>3, <1>4, Zenon DEF SourceInv, FifoInv, Distinct
    <3>2. QED
      BY <1>10, <3>1, Zenon DEF Unused
  <2>3. gen.kind \in {"rngb", "bcm", "trng"}
    BY Zenon DEF SourceInv, FifoInv
  <2>4. gen'.fifo = rest /\ gen'.kind = gen.kind
    BY <1>6, <1>10, Zenon
  <2>5. QED
    BY <2>1, <2>2, <2>3, <2>4, Zenon DEF FifoInv, Unused
<1>12. RegsInv'
  <2>1. gen.valid # TRUE
    BY Zenon DEF SourceInv, FifoInv, RegsInv
  <2>2. QED
    BY <1>6, <1>10, <2>1, Zenon DEF RegsInv
<1>13. QED
  BY <1>10, <1>11, <1>12, Zenon DEF SourceInv

\* An entropy register is read once.
LEMMA TakeReg ==
    ASSUME SourceInv, More, gen.valid = TRUE, NEW v \in BOOLEAN, NEW reg \in 0 .. Regs - 1,
           Took(gen.regs[call.reg], [gen EXCEPT !.valid = v], reg),
           v = TRUE => reg = call.reg + 1, v = FALSE => reg = 0
    PROVE  SourceInv'
<1>1. PICK w : w = gen.regs[call.reg]
  BY Zenon
<1>2. call.reg \in 0 .. Regs - 1 /\ call.reg \in call.reg .. Regs - 1
  BY RngAssumption DEF RngConstants, SourceInv, SourceType, Calls
<1>3. PICK t : t = [gen EXCEPT !.valid = v]
  BY Zenon
<1>4. t \in Gens /\ t.serial = gen.serial /\ t.state = gen.state /\ t.fifo = gen.fifo /\ t.valid = v /\ t.kind = gen.kind
      /\ t.regs = gen.regs
  BY <1>3, Zenon DEF SourceInv, SourceType, Gens
<1>5. gen.serial <= gen.serial
  BY DEF SourceInv, SourceType, Gens
<1>6. Unused(w)
  BY <1>1, <1>2, Zenon DEF SourceInv, RegsInv
<1>7. Took(w, t, reg)
  BY <1>1, <1>3, Zenon
<1>8. /\ SourceType' /\ HandedInv' /\ StateInv' /\ gen' = t /\ call'.reg = reg
      /\ \A u : Unused(u) /\ u # w => Unused(u)'
  BY <1>4, <1>5, <1>6, <1>7, TakeWord, Zenon DEF Unused
<1>9. FifoInv'
  <2>1. gen.fifo = <<>>
    BY DEF SourceInv, FifoInv, RegsInv
  <2>2. gen'.fifo = <<>>
    BY <1>4, <1>8, <2>1, Zenon
  <2>3. QED
    BY <2>2 DEF FifoInv, Distinct
<1>10. RegsInv'
  <2>1. gen'.valid = v /\ gen'.kind = gen.kind /\ gen'.regs = gen.regs /\ call'.reg = reg
    BY <1>4, <1>8, Zenon
  <2>2. (reg # 0) => v = TRUE
    BY Zenon
  <2>3. ASSUME v = TRUE
        PROVE  /\ gen'.kind \in {"caam", "prng"}
               /\ \A r \in reg .. Regs - 1 : Unused(gen.regs[r])'
               /\ \A q, r \in reg .. Regs - 1 : gen'.regs[q] = gen'.regs[r] => q = r
    <3>1. \A r \in reg .. Regs - 1 : r \in call.reg .. Regs - 1 /\ r # call.reg
      BY <1>2, <2>3, RngAssumption DEF RngConstants
    <3>2. ASSUME NEW r \in reg .. Regs - 1 PROVE Unused(gen.regs[r])'
      <4>1. Unused(gen.regs[r]) /\ gen.regs[r] # w
        BY <1>1, <1>2, <3>1, Zenon DEF SourceInv, RegsInv
      <4>2. QED
        BY <1>8, <2>1, <4>1, Zenon DEF Unused
    <3>3. ASSUME NEW q \in reg .. Regs - 1, NEW r \in reg .. Regs - 1, gen'.regs[q] = gen'.regs[r] PROVE q = r
      <4>1. gen.regs[q] = gen.regs[r]
        BY <2>1, <3>3, Zenon
      <4>2. q \in call.reg .. Regs - 1 /\ r \in call.reg .. Regs - 1
        BY <3>1, Zenon
      <4>3. QED
        BY <4>1, <4>2, Zenon DEF SourceInv, RegsInv
    <3>4. gen'.kind \in {"caam", "prng"}
      BY <2>1, Zenon DEF SourceInv, RegsInv
    <3>5. QED
      BY <3>2, <3>3, <3>4, Zenon
  <2>4. QED
    BY <2>1, <2>2, <2>3, Zenon DEF RegsInv
<1>11. QED
  BY <1>8, <1>9, <1>10, Zenon DEF SourceInv

\* RNGB, BCM2835 and TRNG.
LEMMA SourceFifo == ASSUME SourceInv, RngbWord \/ BcmWord \/ TrngWord PROVE SourceInv'
<1>1. CASE RngbWord
  BY <1>1, SourcePanic, TakeFifo, Zenon DEF RngbWord
<1>2. CASE BcmWord
  BY <1>2, TakeFifo, Zenon DEF BcmWord
<1>3. CASE TrngWord
  <2>1. CASE gen.fifo # <<>>
    BY <1>3, <2>1, TakeFifo, Zenon DEF TrngWord
  <2>2. CASE Panic
    BY <2>2, SourcePanic
  <2>3. CASE call' = [call EXCEPT !.polls = call.polls + 1] /\ UNCHANGED <<gen, out>>
    <3>1. PICK n \in Nat : n = call.polls + 1
      BY DEF SourceInv, SourceType, Calls
    <3>2. call' = [call EXCEPT !.polls = n] /\ gen' = gen /\ out' = out
      BY <2>3, <3>1, Zenon
    <3>3. call' \in Calls /\ call'.at = call.at /\ call'.buf = call.buf /\ call'.reg = call.reg
      BY <3>2, Zenon DEF SourceInv, SourceType, Calls
    <3>4. Handed' = Handed
      BY <3>2, <3>3, Zenon DEF Handed
    <3>5. StateInv'
      BY <3>2, <3>3, Zenon DEF SourceInv, StateInv
    <3>6. gen.serial <= gen.serial
      BY DEF SourceInv, SourceType, Gens
    <3>7. QED
      BY <3>2, <3>3, <3>4, <3>5, <3>6, SourceSame, Zenon DEF SourceInv, SourceType
  <2>4. QED
    BY <1>3, <2>1, <2>2, <2>3, Zenon DEF TrngWord
<1>4. QED
  BY <1>1, <1>2, <1>3, Zenon

\* CAAM: register after register, and a new word after the last.
LEMMA SourceCaam == ASSUME SourceInv, CaamWord PROVE SourceInv'
<1>1. gen.valid = TRUE
  BY Zenon DEF CaamWord, SourceInv, RegsInv, SourceType, Gens
<1>2. call.reg \in 0 .. Regs - 1 /\ Regs \in Nat \ {0}
  BY RngAssumption, Zenon DEF RngConstants, SourceInv, SourceType, Calls
<1>3. CASE call.reg = Regs - 1
  <2>1. (call.reg + 1) % Regs = 0 /\ 0 \in 0 .. Regs - 1
    BY <1>2, <1>3
  <2>2. Took(gen.regs[call.reg], [gen EXCEPT !.valid = FALSE], 0) /\ More
    BY <1>1, <1>3, <2>1, Zenon DEF CaamWord
  <2>3. QED
    BY <1>1, <2>1, <2>2, TakeReg, Zenon
<1>4. CASE call.reg # Regs - 1
  <2>1. call.reg + 1 \in 0 .. Regs - 1
    BY <1>2, <1>4
  <2>2. (call.reg + 1) % Regs = call.reg + 1
    BY <1>2, <2>1, ModSmall, Zenon
  <2>3. Took(gen.regs[call.reg], [gen EXCEPT !.valid = TRUE], call.reg + 1) /\ More
    BY <1>1, <1>4, <2>2, Zenon DEF CaamWord
  <2>4. QED
    BY <1>1, <2>1, <2>3, TakeReg, Zenon
<1>5. QED
  BY <1>3, <1>4

\* PRNG.
LEMMA SourcePrng == ASSUME SourceInv, PrngWord PROVE SourceInv'
<1>1. gen.valid = TRUE /\ More
  BY Zenon DEF PrngWord, SourceInv, SourceType, Gens
<1>2. call.reg \in 0 .. Regs - 1 /\ Regs \in Nat \ {0}
  BY RngAssumption, Zenon DEF RngConstants, SourceInv, SourceType, Calls
<1>3. PICK last \in BOOLEAN : last = (call.reg = Regs - 1 \/ call.need - Len(call.buf) <= 4)
  BY Zenon
<1>4. Took(gen.regs[call.reg], [gen EXCEPT !.valid = ~last], IF last THEN 0 ELSE call.reg + 1)
  BY <1>3, Zenon DEF PrngWord
<1>5. CASE last = TRUE
  <2>1. 0 \in 0 .. Regs - 1
    BY <1>2
  <2>2. ~last = FALSE
    BY <1>5, Zenon
  <2>3. Took(gen.regs[call.reg], [gen EXCEPT !.valid = FALSE], 0)
    BY <1>4, <1>5, <2>2, Zenon
  <2>4. QED
    BY <1>1, <2>1, <2>3, TakeReg, Zenon
<1>6. CASE last = FALSE
  <2>1. call.reg # Regs - 1
    BY <1>3, <1>6, Zenon
  <2>2. call.reg + 1 \in 0 .. Regs - 1
    BY <1>2, <2>1
  <2>3. ~last = TRUE
    BY <1>6, Zenon
  <2>4. Took(gen.regs[call.reg], [gen EXCEPT !.valid = TRUE], call.reg + 1)
    BY <1>4, <1>6, <2>3, Zenon
  <2>5. QED
    BY <1>1, <2>2, <2>4, TakeReg, Zenon
<1>7. QED
  BY <1>5, <1>6, Zenon

\* RDRAND makes a word for each call.
LEMMA SourceRdrand == ASSUME SourceInv, Rdrand PROVE SourceInv'
<1>1. PICK n \in Nat : n = gen.serial + 1 /\ gen.serial <= n /\ n \in 1 .. n /\ n \notin 1 .. gen.serial
  <2>1. PICK s \in Nat : s = gen.serial
    BY Zenon DEF SourceInv, SourceType, Gens
  <2>2. s + 1 \in Nat /\ s <= s + 1 /\ s + 1 \in 1 .. s + 1 /\ s + 1 \notin 1 .. s
    OBVIOUS
  <2>3. QED
    BY <2>1, <2>2, Zenon
<1>2. PICK t : t = [gen EXCEPT !.serial = n]
  BY Zenon
<1>3. t \in Gens /\ t.serial = n /\ t.state = gen.state /\ t.fifo = gen.fifo /\ t.valid = gen.valid /\ t.kind = gen.kind
  BY <1>2, Zenon DEF SourceInv, SourceType, Gens
<1>4. Took(n, t, 0) /\ More /\ gen.kind = "rdrand"
  BY <1>1, <1>2, Zenon DEF Rdrand
<1>5. \A k \in DOMAIN Handed : Handed[k][1] # n
  BY <1>1, Zenon DEF SourceInv, HandedInv
<1>6. 0 \in 0 .. Regs - 1
  BY RngAssumption DEF RngConstants
<1>7. /\ SourceType' /\ HandedInv' /\ StateInv' /\ gen' = t /\ call'.reg = 0
  <2>1. gen.serial <= t.serial /\ n \in 1 .. t.serial /\ t \in Gens /\ t.state = gen.state
    BY <1>1, <1>3, Zenon
  <2>2. QED
    BY <1>4, <1>5, <1>6, <2>1, TakeWord, Zenon
<1>8. gen.fifo = <<>> /\ gen.valid # TRUE
  BY <1>4, Zenon DEF SourceInv, FifoInv, RegsInv
<1>9. gen'.fifo = <<>> /\ gen'.valid # TRUE
  BY <1>3, <1>7, <1>8, Zenon
<1>10. FifoInv'
  BY <1>9 DEF FifoInv, Distinct
<1>11. RegsInv'
  BY <1>7, <1>9, Zenon DEF RegsInv
<1>12. QED
  BY <1>7, <1>10, <1>11, Zenon DEF SourceInv

\* A generator adds a word to its FIFO.
LEMMA SourceWord == ASSUME SourceInv, HwWord PROVE SourceInv'
<1>1. PICK n \in Nat : n = gen.serial + 1 /\ gen.serial <= n /\ n \in 1 .. n /\ n \notin 1 .. gen.serial
  <2>1. PICK s \in Nat : s = gen.serial
    BY Zenon DEF SourceInv, SourceType, Gens
  <2>2. s + 1 \in Nat /\ s <= s + 1 /\ s + 1 \in 1 .. s + 1 /\ s + 1 \notin 1 .. s
    OBVIOUS
  <2>3. QED
    BY <2>1, <2>2, Zenon
<1>2. PICK f : f = Append(gen.fifo, n)
  BY Zenon
<1>3. gen.fifo \in Seq(Nat)
  BY Zenon DEF SourceInv, SourceType, Gens
<1>4. f \in Seq(Nat) /\ \A j \in DOMAIN f : (j \in DOMAIN gen.fifo /\ f[j] = gen.fifo[j]) \/ (j = Len(gen.fifo) + 1 /\ f[j] = n)
  BY <1>2, <1>3
<1>5. gen' = [gen EXCEPT !.fifo = f, !.serial = n] /\ call' = call /\ out' = out /\ gen.kind \in {"rngb", "bcm", "trng"}
  BY <1>1, <1>2, Zenon DEF HwWord, Source
<1>6. gen' \in Gens /\ gen'.serial = n /\ gen'.state = gen.state /\ gen'.fifo = f /\ gen'.valid = gen.valid /\ gen'.kind = gen.kind
  BY <1>4, <1>5, Zenon DEF SourceInv, SourceType, Gens
<1>7. Handed' = Handed
  BY <1>5, Zenon DEF Handed
<1>8. HandedInv' /\ \A w : Unused(w) => Unused(w)'
  BY <1>1, <1>6, <1>7, SameBytes, Zenon
<1>9. Unused(n)'
  BY <1>1, <1>6, <1>7, Zenon DEF Unused, SourceInv, HandedInv
<1>10. FifoInv'
  <2>1. \A j \in DOMAIN gen.fifo : gen.fifo[j] # n
    BY <1>1, Zenon DEF SourceInv, FifoInv, Unused
  <2>2. Distinct(f)
    BY <1>4, <2>1, Zenon DEF Distinct, SourceInv, FifoInv
  <2>3. ASSUME NEW j \in DOMAIN f PROVE Unused(f[j])'
    <3>1. CASE f[j] = n
      BY <1>9, <3>1, Zenon DEF Unused
    <3>2. CASE j \in DOMAIN gen.fifo /\ f[j] = gen.fifo[j]
      <4>1. Unused(gen.fifo[j])
        BY <3>2, Zenon DEF SourceInv, FifoInv
      <4>2. QED
        BY <1>8, <3>2, <4>1, Zenon DEF Unused
    <3>3. QED
      BY <1>4, <3>1, <3>2, Zenon
  <2>4. QED
    BY <1>5, <1>6, <2>2, <2>3, Zenon DEF FifoInv, Unused
<1>11. RegsInv'
  <2>1. gen.valid # TRUE
    BY <1>5, Zenon DEF SourceInv, RegsInv
  <2>2. QED
    BY <1>5, <1>6, <2>1, Zenon DEF SourceInv, RegsInv
<1>12. SourceType' /\ StateInv'
  BY <1>5, <1>6, Zenon DEF SourceInv, SourceType, StateInv
<1>13. QED
  BY <1>8, <1>10, <1>11, <1>12, Zenon DEF SourceInv

\* A generator fills its registers with words that are new.
LEMMA SourceRegs == ASSUME SourceInv, HwEntropy \/ PrngGenerate PROVE SourceInv'
<1>1. PICK s \in Nat : s = gen.serial
  BY Zenon DEF SourceInv, SourceType, Gens
<1>2. PICK n \in Nat : n = gen.serial + Regs /\ gen.serial <= n /\ n = s + Regs /\ Regs \in Nat
  BY <1>1, RngAssumption DEF RngConstants
<1>3. PICK g : g = [r \in 0 .. Regs - 1 |-> s + r + 1]
  BY Zenon
<1>4. \A r \in 0 .. Regs - 1 : s + r + 1 \in Nat /\ s + r + 1 \in 1 .. n /\ s + r + 1 \notin 1 .. s
  BY <1>2
<1>5. g \in [0 .. Regs - 1 -> Nat] /\ \A r \in 0 .. Regs - 1 : g[r] \in 1 .. n /\ g[r] \notin 1 .. s
  BY <1>3, <1>4, Zenon
<1>6. \A q, r \in 0 .. Regs - 1 : g[q] = g[r] => q = r
  BY <1>3
<1>7. gen' = [gen EXCEPT !.valid = TRUE, !.serial = n, !.regs = g] /\ call' = call /\ out' = out /\ gen.kind \in {"caam", "prng"}
      /\ call.reg = 0
  BY <1>1, <1>2, <1>3, Zenon DEF HwEntropy, PrngGenerate, Source
<1>8. gen' \in Gens /\ gen'.serial = n /\ gen'.state = gen.state /\ gen'.fifo = gen.fifo /\ gen'.valid = TRUE /\ gen'.kind = gen.kind
      /\ gen'.regs = g
  BY <1>5, <1>7, Zenon DEF SourceInv, SourceType, Gens
<1>9. Handed' = Handed
  BY <1>7, Zenon DEF Handed
<1>10. HandedInv' /\ \A w : Unused(w) => Unused(w)'
  BY <1>2, <1>8, <1>9, SameBytes, Zenon
<1>11. \A r \in 0 .. Regs - 1 : Unused(g[r])'
  BY <1>1, <1>5, <1>8, <1>9, Zenon DEF Unused, SourceInv, HandedInv
<1>12. FifoInv'
  BY <1>8, <1>10, Zenon DEF SourceInv, FifoInv
<1>13. RegsInv'
  <2>1. ASSUME NEW r \in 0 .. Regs - 1 PROVE Unused(gen.regs[r])'
    BY <1>8, <1>11, Zenon DEF Unused
  <2>2. \A q, r \in 0 .. Regs - 1 : gen'.regs[q] = gen'.regs[r] => q = r
    BY <1>6, <1>8, Zenon
  <2>3. call'.reg = 0 /\ gen'.kind \in {"caam", "prng"}
    BY <1>7, <1>8, Zenon
  <2>4. QED
    BY <1>8, <2>1, <2>2, <2>3, Zenon DEF RegsInv
<1>14. SourceType' /\ StateInv'
  BY <1>7, <1>8, Zenon DEF SourceInv, SourceType, StateInv
<1>15. QED
  BY <1>10, <1>12, <1>13, <1>14, Zenon DEF SourceInv

-----------------------------------------------------------------------------
\* Calls of the DRBG.
Callings == [at : {"idle", "erase", "blocks"}, key : Nat, counter : Nat, left : Nat]
DrbgType == seed \in Nat /\ mutex \in BOOLEAN /\ drbg \in [Callers -> Callings] /\ blocks \in Seq(Nat \X Nat)

\* The seed has encrypted nothing, and is the key of the one caller that replaces it;
\* other callers have keys of their own, and counters that go up.
BlocksInv == Distinct(blocks) /\ \A k \in DOMAIN blocks : blocks[k][1] < seed
EraseInv ==
    \A p \in Callers : drbg[p].at = "erase" =>
        mutex = TRUE /\ drbg[p].key = seed /\ \A q \in Callers : drbg[q].at = "erase" => p = q
Below(p) == \A k \in DOMAIN blocks : blocks[k][1] = drbg[p].key => blocks[k][2] < drbg[p].counter
\* Two calls have two keys, and the blocks made with a key so far are below its counter.
KeysInv ==
    \A p \in Callers : drbg[p].at = "blocks" =>
        /\ drbg[p].key < seed /\ Below(p)
        /\ \A q \in Callers : drbg[q].at = "blocks" /\ drbg[q].key = drbg[p].key => p = q
DrbgInv == DrbgType /\ BlocksInv /\ EraseInv /\ KeysInv

\* Callers leave the blocks, and none enters.
LEMMA KeysKept ==
    ASSUME KeysInv, seed' = seed, blocks' = blocks, \A q \in Callers : drbg'[q].at = "blocks" => drbg'[q] = drbg[q]
    PROVE  KeysInv'
<1>1. SUFFICES ASSUME NEW p \in Callers, drbg'[p].at = "blocks"
               PROVE  /\ drbg'[p].key < seed /\ Below(p)'
                      /\ \A q \in Callers : drbg'[q].at = "blocks" /\ drbg'[q].key = drbg'[p].key => p = q
  BY Zenon DEF KeysInv
<1>2. drbg'[p] = drbg[p] /\ drbg[p].at = "blocks"
  BY <1>1, Zenon
<1>3. drbg'[p].key < seed /\ Below(p)'
  BY <1>2, Zenon DEF KeysInv, Below
<1>4. ASSUME NEW q \in Callers, drbg'[q].at = "blocks", drbg'[q].key = drbg'[p].key PROVE p = q
  <2>1. drbg[q].at = "blocks" /\ drbg[q].key = drbg[p].key
    BY <1>2, <1>4, Zenon
  <2>2. QED
    BY <1>2, <2>1, Zenon DEF KeysInv
<1>5. QED
  BY <1>3, <1>4, Zenon

\* A call takes the seed.
LEMMA DrbgStart ==
    ASSUME DrbgInv, NEW p \in Callers, NEW n \in 0 .. MaxBlocks, DrbgCipher(p, n)
    PROVE  DrbgInv'
<1>1. PICK z \in Nat, m \in Nat : z = 0 /\ m = n
  BY Z3
<1>2. PICK t \in Callings : t = [at |-> "erase", key |-> seed, counter |-> z, left |-> m]
  BY Zenon DEF DrbgInv, DrbgType, Callings
<1>3. drbg' = [drbg EXCEPT ![p] = t] /\ seed' = seed /\ blocks' = blocks /\ mutex = FALSE /\ mutex' = TRUE
  BY <1>1, <1>2, Zenon DEF DrbgCipher, Drbg, DrbgInv, DrbgType
<1>4. DrbgType'
  BY <1>3, Zenon DEF DrbgInv, DrbgType
<1>5. t.at = "erase" /\ t.key = seed
  BY <1>2, Zenon
<1>6. \A q \in Callers : drbg'[q] = IF q = p THEN t ELSE drbg[q]
  BY <1>3, Zenon DEF DrbgInv, DrbgType
<1>7. \A q \in Callers : drbg[q].at # "erase"
  BY <1>3, Zenon DEF DrbgInv, EraseInv
<1>8. EraseInv'
  <2>1. \A q \in Callers : drbg'[q].at = "erase" => q = p
    BY <1>6, <1>7, Zenon
  <2>2. drbg'[p].key = seed'
    BY <1>3, <1>5, <1>6, Zenon
  <2>3. QED
    BY <1>3, <2>1, <2>2, Zenon DEF EraseInv
<1>9. BlocksInv'
  BY <1>3, Zenon DEF DrbgInv, BlocksInv
<1>10. \A q \in Callers : drbg'[q].at = "blocks" => q # p /\ drbg'[q] = drbg[q]
  BY <1>5, <1>6, Zenon
<1>11. KeysInv'
  BY <1>3, <1>10, KeysKept, Zenon DEF DrbgInv
<1>12. QED
  BY <1>4, <1>8, <1>9, <1>11, Zenon DEF DrbgInv

\* The seed is replaced before the mutex is released.
LEMMA DrbgErases ==
    ASSUME DrbgInv, NEW p \in Callers, DrbgErase(p)
    PROVE  DrbgInv'
<1>1. PICK key \in Nat, n \in Nat, z \in Nat : key = seed /\ n = seed + 1 /\ z = 2
  BY DEF DrbgInv, DrbgType
<1>2. drbg[p].at = "erase" /\ drbg[p].key = key /\ drbg[p] \in Callings
  BY <1>1, Zenon DEF DrbgErase, DrbgInv, EraseInv, DrbgType
<1>3. PICK t : t = [drbg[p] EXCEPT !.at = "blocks", !.counter = z]
  BY Zenon
<1>4. t \in Callings /\ t.at = "blocks" /\ t.key = key /\ t.counter = z
  BY <1>2, <1>3, Zenon DEF Callings
<1>5. drbg' = [drbg EXCEPT ![p] = t] /\ mutex' = FALSE /\ seed' = n /\ blocks' = blocks \o <<<<key, 0>>, <<key, 1>>>>
  BY <1>1, <1>2, <1>3, Zenon DEF DrbgErase, Drbg
<1>6. blocks \in Seq(Nat \X Nat)
  BY Zenon DEF DrbgInv, DrbgType
<1>7. /\ blocks' \in Seq(Nat \X Nat)
      /\ \A k \in DOMAIN blocks' : \/ k \in DOMAIN blocks /\ blocks'[k] = blocks[k]
                                   \/ k = Len(blocks) + 1 /\ blocks'[k] = <<key, 0>>
                                   \/ k = Len(blocks) + 2 /\ blocks'[k] = <<key, 1>>
  BY <1>5, <1>6
<1>8. DrbgType'
  BY <1>4, <1>5, <1>7, Zenon DEF DrbgInv, DrbgType
<1>9. \A k \in DOMAIN blocks : blocks[k][1] # key /\ blocks[k][1] < n /\ blocks[k] \in Nat \X Nat
  <2>1. \A k \in DOMAIN blocks : blocks[k][1] < seed
    BY Zenon DEF DrbgInv, BlocksInv
  <2>2. \A k \in DOMAIN blocks : blocks[k] \in Nat \X Nat
    BY <1>6
  <2>3. QED
    BY <1>1, <2>1, <2>2
<1>10. <<key, 0>>[1] = key /\ <<key, 1>>[1] = key /\ <<key, 0>>[2] = 0 /\ <<key, 1>>[2] = 1 /\ <<key, 0>> # <<key, 1>>
       /\ key < n /\ 0 < z /\ 1 < z
  BY <1>1
<1>11. BlocksInv'
  <2>1. Distinct(blocks')
    <3>1. SUFFICES ASSUME NEW j \in DOMAIN blocks', NEW k \in DOMAIN blocks', blocks'[j] = blocks'[k] PROVE j = k
      BY Zenon DEF Distinct
    <3>2. CASE j \in DOMAIN blocks /\ blocks'[j] = blocks[j]
      <4>1. blocks'[k][1] # key
        BY <1>9, <3>1, <3>2, Zenon
      <4>2. k \in DOMAIN blocks /\ blocks'[k] = blocks[k]
        BY <1>7, <1>10, <4>1, Zenon
      <4>3. QED
        BY <3>1, <3>2, <4>2, Zenon DEF DrbgInv, BlocksInv, Distinct
    <3>3. CASE j = Len(blocks) + 1 /\ blocks'[j] = <<key, 0>>
      BY <1>7, <1>9, <1>10, <3>1, <3>3, Zenon
    <3>4. CASE j = Len(blocks) + 2 /\ blocks'[j] = <<key, 1>>
      BY <1>7, <1>9, <1>10, <3>1, <3>4, Zenon
    <3>5. QED
      BY <1>7, <3>2, <3>3, <3>4, Zenon
  <2>2. \A k \in DOMAIN blocks' : blocks'[k][1] < n
    BY <1>7, <1>9, <1>10, Zenon
  <2>3. QED
    BY <1>5, <2>1, <2>2, Zenon DEF BlocksInv
<1>12. \A q \in Callers : drbg'[q] = IF q = p THEN t ELSE drbg[q]
  BY <1>5, Zenon DEF DrbgInv, DrbgType
<1>13. EraseInv'
  <2>1. \A q \in Callers : drbg'[q].at # "erase"
    BY <1>2, <1>4, <1>12, Zenon DEF DrbgInv, EraseInv
  <2>2. QED
    BY <2>1, Zenon DEF EraseInv
<1>14. KeysInv'
  <2>1. ASSUME NEW q \in Callers, q # p, drbg[q].at = "blocks" PROVE drbg[q].key < n /\ drbg[q].key # key
    <3>1. drbg[q].key \in Nat /\ drbg[q].key < seed
      BY <2>1, Zenon DEF DrbgInv, DrbgType, Callings, KeysInv
    <3>2. QED
      BY <1>1, <3>1
  <2>2. ASSUME NEW q \in Callers, drbg'[q].at = "blocks" PROVE drbg'[q].key < n /\ Below(q)'
    <3>1. CASE q = p
      <4>1. drbg'[q] = t
        BY <1>12, <3>1, Zenon
      <4>2. QED
        BY <1>4, <1>7, <1>9, <1>10, <4>1, Zenon DEF Below
    <3>2. CASE q # p
      <4>1. drbg'[q] = drbg[q]
        BY <1>12, <3>2, Zenon
      <4>2. Below(q) /\ drbg[q].key < n /\ drbg[q].key # key
        BY <2>1, <2>2, <3>2, <4>1, Zenon DEF DrbgInv, KeysInv
      <4>3. QED
        BY <1>7, <1>10, <4>1, <4>2, Zenon DEF Below
    <3>3. QED
      BY <3>1, <3>2
  <2>3. ASSUME NEW q \in Callers, NEW o \in Callers, drbg'[q].at = "blocks", drbg'[o].at = "blocks", drbg'[o].key = drbg'[q].key
        PROVE  q = o
    <3>1. CASE q # p /\ o # p
      BY <1>12, <2>3, <3>1, Zenon DEF DrbgInv, KeysInv
    <3>2. CASE q = p /\ o # p
      BY <1>4, <1>12, <2>1, <2>3, <3>2, Zenon
    <3>3. CASE q # p /\ o = p
      BY <1>4, <1>12, <2>1, <2>3, <3>3, Zenon
    <3>4. QED
      BY <3>1, <3>2, <3>3, Zenon
  <2>4. QED
    BY <1>5, <2>2, <2>3, Zenon DEF KeysInv
<1>15. QED
  BY <1>8, <1>11, <1>13, <1>14, Zenon DEF DrbgInv

\* A block of a key and counter not used before.
LEMMA DrbgBlocks ==
    ASSUME DrbgInv, NEW p \in Callers, DrbgBlock(p)
    PROVE  DrbgInv'
<1>1. drbg[p].at = "blocks" /\ drbg[p] \in Callings /\ seed' = seed /\ mutex' = mutex
  BY Zenon DEF DrbgBlock, DrbgInv, DrbgType
<1>2. CASE drbg[p].left = 0
  <2>1. PICK z \in Nat : z = 0
    OBVIOUS
  <2>2. PICK t : t = [drbg[p] EXCEPT !.at = "idle", !.key = z, !.counter = z]
    BY Zenon
  <2>3. t \in Callings /\ t.at = "idle"
    BY <1>1, <2>2, Zenon DEF Callings
  <2>4. drbg' = [drbg EXCEPT ![p] = t] /\ blocks' = blocks
    BY <1>2, <2>1, <2>2, Zenon DEF DrbgBlock, Drbg
  <2>5. \A q \in Callers : drbg'[q] = IF q = p THEN t ELSE drbg[q]
    BY <2>4, Zenon DEF DrbgInv, DrbgType
  <2>6. \A q \in Callers : drbg'[q].at # "idle" => drbg'[q] = drbg[q]
    BY <2>3, <2>5, Zenon
  <2>7. DrbgType'
    BY <1>1, <2>3, <2>4, Zenon DEF DrbgInv, DrbgType
  <2>8. \A q \in Callers : drbg'[q].at \in {"erase", "blocks"} => drbg'[q] = drbg[q]
    BY <2>6
  <2>9. EraseInv'
    BY <1>1, <2>8, Zenon DEF DrbgInv, EraseInv
  <2>10. KeysInv'
    BY <1>1, <2>4, <2>8, KeysKept, Zenon DEF DrbgInv
  <2>11. BlocksInv'
    BY <1>1, <2>4, Zenon DEF DrbgInv, BlocksInv
  <2>12. QED
    BY <2>7, <2>9, <2>10, <2>11, Zenon DEF DrbgInv
<1>3. CASE drbg[p].left # 0
  <2>1. PICK c \in Nat, n \in Nat, m \in Nat : c = drbg[p].counter /\ n = drbg[p].counter + 1 /\ m = drbg[p].left - 1 /\ c < n
                                              /\ \A i \in Nat : i < c => i < n
    BY <1>1, <1>3 DEF Callings
  <2>2. PICK key \in Nat : key = drbg[p].key
    BY <1>1, Zenon DEF Callings
  <2>3. PICK t : t = [drbg[p] EXCEPT !.counter = n, !.left = m]
    BY Zenon
  <2>4. t \in Callings /\ t.at = "blocks" /\ t.key = key /\ t.counter = n
    BY <1>1, <2>2, <2>3, Zenon DEF Callings
  <2>5. drbg' = [drbg EXCEPT ![p] = t] /\ blocks' = Append(blocks, <<key, c>>)
    BY <1>3, <2>1, <2>2, <2>3, Zenon DEF DrbgBlock, Drbg
  <2>6. blocks \in Seq(Nat \X Nat)
    BY Zenon DEF DrbgInv, DrbgType
  <2>7. /\ blocks' \in Seq(Nat \X Nat)
        /\ \A k \in DOMAIN blocks' : \/ k \in DOMAIN blocks /\ blocks'[k] = blocks[k]
                                     \/ k = Len(blocks) + 1 /\ blocks'[k] = <<key, c>>
    BY <2>5, <2>6
  <2>8. \A q \in Callers : drbg'[q] = IF q = p THEN t ELSE drbg[q]
    BY <2>5, Zenon DEF DrbgInv, DrbgType
  <2>9. DrbgType'
    BY <1>1, <2>4, <2>5, <2>7, Zenon DEF DrbgInv, DrbgType
  <2>10. \A k \in DOMAIN blocks : blocks[k][1] = key => blocks[k][2] < c
    BY <1>1, <2>1, <2>2, Zenon DEF DrbgInv, KeysInv, Below
  <2>11. <<key, c>>[1] = key /\ <<key, c>>[2] = c /\ ~(c < c)
    OBVIOUS
  <2>12. \A k \in DOMAIN blocks : blocks[k] # <<key, c>>
    BY <2>10, <2>11, Zenon
  <2>13. key < seed
    BY <1>1, <2>2, Zenon DEF DrbgInv, KeysInv
  <2>14. BlocksInv'
    <3>1. Distinct(blocks')
      BY <2>7, <2>12, Zenon DEF Distinct, DrbgInv, BlocksInv
    <3>2. \A k \in DOMAIN blocks' : blocks'[k][1] < seed
      BY <2>7, <2>11, <2>13, Zenon DEF DrbgInv, BlocksInv
    <3>3. QED
      BY <1>1, <3>1, <3>2, Zenon DEF BlocksInv
  <2>15. EraseInv'
    <3>1. \A q \in Callers : drbg'[q].at = "erase" => drbg'[q] = drbg[q]
      BY <2>4, <2>8, Zenon
    <3>2. QED
      BY <1>1, <3>1, Zenon DEF DrbgInv, EraseInv
  <2>16. \A q \in Callers : drbg'[q].at = drbg[q].at /\ drbg'[q].key = drbg[q].key
    BY <1>1, <2>2, <2>4, <2>8, Zenon
  <2>17. ASSUME NEW q \in Callers, drbg[q].at = "blocks" PROVE Below(q)'
    <3>1. CASE q = p
      <4>1. drbg'[q] = t
        BY <2>8, <3>1, Zenon
      <4>2. \A k \in DOMAIN blocks : blocks[k][2] \in Nat
        BY <2>6
      <4>3. QED
        BY <2>1, <2>4, <2>7, <2>10, <2>11, <4>1, <4>2, Zenon DEF Below
    <3>2. CASE q # p
      <4>1. drbg'[q] = drbg[q]
        BY <2>8, <3>2, Zenon
      <4>2. Below(q) /\ drbg[q].key # key
        BY <1>1, <2>2, <2>17, <3>2, Zenon DEF DrbgInv, KeysInv
      <4>3. QED
        BY <2>7, <2>11, <4>1, <4>2, Zenon DEF Below
    <3>3. QED
      BY <3>1, <3>2
  <2>18. KeysInv'
    <3>1. ASSUME NEW q \in Callers, drbg'[q].at = "blocks" PROVE drbg'[q].key < seed' /\ Below(q)'
      <4>1. drbg[q].at = "blocks" /\ drbg'[q].key = drbg[q].key
        BY <2>16, <3>1, Zenon
      <4>2. drbg[q].key < seed
        BY <4>1, Zenon DEF DrbgInv, KeysInv
      <4>3. QED
        BY <1>1, <2>17, <4>1, <4>2, Zenon
    <3>2. ASSUME NEW q \in Callers, NEW o \in Callers, drbg'[q].at = "blocks", drbg'[o].at = "blocks", drbg'[o].key = drbg'[q].key
          PROVE  q = o
      BY <2>16, <3>2, Zenon DEF DrbgInv, KeysInv
    <3>3. QED
      BY <3>1, <3>2, Zenon DEF KeysInv
  <2>19. QED
    BY <2>9, <2>14, <2>15, <2>18, Zenon DEF DrbgInv
<1>4. QED
  BY <1>2, <1>3

-----------------------------------------------------------------------------
\* After power on.
LEMMA SourceBegins == SourceInit => SourceInv
<1>1. SUFFICES ASSUME SourceInit PROVE SourceInv
  OBVIOUS
<1>2. Regs \in Nat \ {0} /\ 0 \in 0 .. Regs - 1 /\ 0 \in Nat /\ <<>> \in Seq(Byte) /\ <<>> \in Seq(Nat)
  BY RngAssumption DEF RngConstants
<1>3. PICK k \in Sources :
           gen = [kind |-> k, state |-> IF k \in Self THEN "seeded" ELSE "off", serial |-> 0, fifo |-> <<>>,
                  regs |-> [r \in 0 .. Regs - 1 |-> 0], valid |-> FALSE, error |-> FALSE]
  BY <1>1, Zenon DEF SourceInit
<1>4. call = [at |-> "init", need |-> 0, buf |-> <<>>, reg |-> 0, polls |-> 0, calls |-> 0] /\ out = <<>>
  BY <1>1, Zenon DEF SourceInit
<1>5. call \in Calls /\ call.at = "init" /\ call.buf = <<>> /\ call.reg = 0
  BY <1>2, <1>4, Zenon DEF Calls
<1>6. gen \in Gens /\ gen.fifo = <<>> /\ gen.valid = FALSE
  <2>1. PICK st \in {"seeded", "off"} : st = IF k \in Self THEN "seeded" ELSE "off"
    BY Zenon
  <2>2. PICK g \in [0 .. Regs - 1 -> Nat] : g = [r \in 0 .. Regs - 1 |-> 0]
    BY <1>2, Zenon
  <2>3. gen = [kind |-> k, state |-> st, serial |-> 0, fifo |-> <<>>, regs |-> g, valid |-> FALSE, error |-> FALSE]
    BY <1>3, <2>1, <2>2, Zenon
  <2>4. QED
    BY <1>2, <2>3, Zenon DEF Gens
<1>7. DOMAIN Handed = {} /\ DOMAIN gen.fifo = {}
  <2>1. Handed = <<>>
    BY <1>4, <1>5 DEF Handed
  <2>2. DOMAIN <<>> = {}
    OBVIOUS
  <2>3. QED
    BY <1>6, <2>1, <2>2, Zenon
<1>8. HandedInv /\ FifoInv
  BY <1>6, <1>7, Zenon DEF HandedInv, FifoInv, Distinct
<1>9. RegsInv /\ StateInv
  BY <1>5, <1>6, Zenon DEF RegsInv, StateInv
<1>10. QED
  BY <1>2, <1>4, <1>5, <1>6, <1>8, <1>9, Zenon DEF SourceInv, SourceType

\* Before the first call.
LEMMA DrbgBegins == DrbgInit => DrbgInv
<1>1. SUFFICES ASSUME DrbgInit PROVE DrbgInv
  OBVIOUS
<1>2. seed = 1 /\ mutex = FALSE /\ blocks = <<>> /\ drbg = [p \in Callers |-> [at |-> "idle", key |-> 0, counter |-> 0, left |-> 0]]
  BY <1>1, Zenon DEF DrbgInit
<1>3. 0 \in Nat /\ 1 \in Nat /\ <<>> \in Seq(Nat \X Nat) /\ DOMAIN <<>> = {}
  OBVIOUS
<1>4. \A p \in Callers : drbg[p].at = "idle"
  BY <1>2, Zenon
<1>5. drbg \in [Callers -> Callings]
  BY <1>2, <1>3, Zenon DEF Callings
<1>6. DrbgType
  BY <1>2, <1>3, <1>5, Zenon DEF DrbgType
<1>7. EraseInv /\ KeysInv
  BY <1>4, Zenon DEF EraseInv, KeysInv
<1>8. BlocksInv
  BY <1>2, <1>3, Zenon DEF BlocksInv, Distinct
<1>9. QED
  BY <1>6, <1>7, <1>8, Zenon DEF DrbgInv

\* A step of a generator or of a call of it keeps the invariant.
LEMMA SourceStep == ASSUME SourceInv, SourceNext PROVE SourceInv'
<1>1. CASE \E n \in Needs : GetRandomData(n)
  BY <1>1, SourceGet, Zenon
<1>2. CASE RngbInit \/ HwSelfTest \/ CaamInit \/ Seed
  BY <1>2, SourceStart, Zenon
<1>3. CASE Initialized \/ GetReturn \/ HwError
  BY <1>3, SourceInitialized, SourceReturn, SourceError, Zenon
<1>4. CASE RngbWord \/ BcmWord \/ TrngWord
  BY <1>4, SourceFifo, Zenon
<1>5. CASE CaamWord \/ PrngWord \/ Rdrand
  BY <1>5, SourceCaam, SourcePrng, SourceRdrand, Zenon
<1>6. CASE HwWord \/ HwEntropy \/ PrngGenerate
  BY <1>6, SourceWord, SourceRegs, Zenon
<1>7. QED
  BY <1>1, <1>2, <1>3, <1>4, <1>5, <1>6, Zenon DEF SourceNext

\* A generator and the DRBG have no state in common.
LEMMA SourceApart == ASSUME SourceNext PROVE UNCHANGED drbgVars
<1>1. CASE RngbInit \/ HwSelfTest \/ CaamInit \/ Seed \/ HwWord \/ HwEntropy \/ HwError \/ PrngGenerate
  BY <1>1, Zenon DEF RngbInit, HwSelfTest, CaamInit, Seed, HwWord, HwEntropy, HwError, PrngGenerate, Source
<1>2. CASE Initialized \/ GetReturn \/ \E n \in Needs : GetRandomData(n)
  BY <1>2, Zenon DEF Initialized, GetReturn, GetRandomData
<1>3. CASE RngbWord \/ BcmWord \/ TrngWord
  BY <1>3, Zenon DEF RngbWord, BcmWord, TrngWord, Took, Panic
<1>4. CASE CaamWord \/ PrngWord \/ Rdrand
  BY <1>4, Zenon DEF CaamWord, PrngWord, Rdrand, Took
<1>5. QED
  BY <1>1, <1>2, <1>3, <1>4, Zenon DEF SourceNext

\* Both generators.
RngInv == SourceInv /\ DrbgInv

\* Nothing changes.
LEMMA SourceStutter == ASSUME SourceInv, UNCHANGED <<gen, call, out>> PROVE SourceInv'
<1>1. gen' = gen /\ call' = call /\ out' = out
  BY Zenon
<1>2. SourceType' /\ HandedInv' /\ StateInv'
  BY <1>1, Zenon DEF SourceInv, SourceType, HandedInv, StateInv, Handed
<1>3. FifoInv'
  BY <1>1, Zenon DEF SourceInv, FifoInv, Unused, Handed
<1>4. RegsInv'
  BY <1>1, Zenon DEF SourceInv, RegsInv, Unused, Handed
<1>5. QED
  BY <1>2, <1>3, <1>4, Zenon DEF SourceInv

\* Nothing changes.
LEMMA DrbgStutter == ASSUME DrbgInv, UNCHANGED drbgVars PROVE DrbgInv'
<1>1. seed' = seed /\ mutex' = mutex /\ drbg' = drbg /\ blocks' = blocks
  BY Zenon DEF drbgVars
<1>2. DrbgType' /\ BlocksInv' /\ EraseInv'
  BY <1>1, Zenon DEF DrbgInv, DrbgType, BlocksInv, EraseInv
<1>3. KeysInv'
  BY <1>1, Zenon DEF DrbgInv, KeysInv, Below
<1>4. QED
  BY <1>2, <1>3, Zenon DEF DrbgInv

\* Every step keeps the invariant.
LEMMA RngStep == ASSUME RngInv, [SourceNext \/ DrbgNext]_rngVars PROVE RngInv'
<1>1. CASE SourceNext
  BY <1>1, SourceStep, SourceApart, DrbgStutter, Zenon DEF RngInv
<1>2. CASE DrbgNext
  <2>1. UNCHANGED <<gen, call, out>>
    BY <1>2, Zenon DEF DrbgNext, DrbgCipher, DrbgErase, DrbgBlock, Drbg
  <2>2. DrbgInv'
    BY <1>2, DrbgStart, DrbgErases, DrbgBlocks, Zenon DEF DrbgNext, RngInv
  <2>3. QED
    BY <2>1, <2>2, SourceStutter, Zenon DEF RngInv
<1>3. CASE UNCHANGED rngVars
  <2>1. UNCHANGED <<gen, call, out>> /\ UNCHANGED drbgVars
    BY <1>3, Zenon DEF rngVars, drbgVars
  <2>2. QED
    BY <2>1, SourceStutter, DrbgStutter, Zenon DEF RngInv
<1>4. QED
  BY <1>1, <1>2, <1>3, Zenon

\* The invariant is more than EntropyFresh.
LEMMA RngShows == ASSUME RngInv PROVE EntropyFresh
<1>1. Distinct(out \o call.buf)
  BY Zenon DEF RngInv, SourceInv, HandedInv, Handed
<1>2. ASSUME NEW k \in DOMAIN call.buf PROVE call.buf[k][1] \in 1 .. gen.serial
  <2>1. out \in Seq(Byte) /\ call.buf \in Seq(Byte)
    BY Zenon DEF RngInv, SourceInv, SourceType, Calls
  <2>2. Len(out) + k \in DOMAIN (out \o call.buf) /\ (out \o call.buf)[Len(out) + k] = call.buf[k]
    BY <2>1
  <2>3. QED
    BY <2>2, Zenon DEF RngInv, SourceInv, HandedInv, Handed
<1>3. ASSUME NEW p \in Callers, drbg[p].at = "blocks" PROVE drbg[p].key # seed
  <2>1. drbg[p].key \in Nat /\ seed \in Nat /\ drbg[p].key < seed
    BY <1>3, Zenon DEF RngInv, DrbgInv, DrbgType, KeysInv, Callings
  <2>2. QED
    BY <2>1
<1>4. QED
  BY <1>1, <1>2, <1>3, Zenon DEF EntropyFresh, RngInv, SourceInv, StateInv, DrbgInv, BlocksInv

\* EntropyFresh holds of generators with any number of registers and words, for calls
\* of any length, and for any number of callers of the DRBG.
THEOREM RandomOnce == RngSpec => []EntropyFresh
<1>1. RngInit => RngInv
  BY SourceBegins, DrbgBegins, Zenon DEF RngInit, RngInv
<1>2. RngInv /\ [SourceNext \/ DrbgNext]_rngVars => RngInv'
  BY RngStep, Zenon
<1>3. RngInv => EntropyFresh
  BY RngShows, Zenon
<1>4. QED
  BY <1>1, <1>2, <1>3, PTL DEF RngSpec
=============================================================================
