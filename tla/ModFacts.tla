----------------------------- MODULE ModFacts -----------------------------
(***************************************************************************)
(* Facts about % for a positive divisor, used by the proofs about rings:   *)
(* a slot index is a counter modulo the size of the ring.                  *)
(***************************************************************************)
EXTENDS Integers, TLAPS

\* A number has one quotient and remainder: the slot of a counter is what is
\* left once whole laps of the ring are taken away.
LEMMA DivUnique ==
    ASSUME NEW s \in Nat \ {0}, NEW x \in Int, NEW y \in Int,
           NEW t \in 0 .. s - 1, NEW u \in 0 .. s - 1, s * x + t = s * y + u
    PROVE  x = y /\ t = u
<1>1. ASSUME NEW a \in Int, NEW b \in Int, a > b PROVE s * a >= s * b + s
  <2>1. PICK d \in Nat : a = b + 1 + d
    <3>1. a - b - 1 \in Nat /\ a = b + 1 + (a - b - 1)
      BY <1>1
    <3>2. QED BY <3>1
  <2>2. s * a = s * b + s + s * d
    BY <2>1
  <2>3. s * d >= 0
    BY <2>1
  <2>4. s * a \in Int /\ s * b \in Int /\ s * d \in Int
    BY <2>1
  <2>5. QED BY <2>2, <2>3, <2>4
<1>2. s * x \in Int /\ s * y \in Int
  OBVIOUS
<1>3. ~(x > y)
  BY <1>1, <1>2
<1>4. ~(y > x)
  BY <1>1, <1>2
<1>5. x = y
  BY <1>3, <1>4
<1>6. QED BY <1>5, <1>2

\* The definition of % and \div for a positive divisor.
LEMMA DivMod ==
    ASSUME NEW s \in Nat \ {0}, NEW a \in Int
    PROVE  /\ a % s \in 0 .. s - 1
           /\ a \div s \in Int
           /\ a = s * (a \div s) + (a % s)
OBVIOUS

\* A slot index is never negative.
LEMMA ModNat ==
    ASSUME NEW s \in Nat \ {0}, NEW a \in Int
    PROVE  a % s \in Nat
BY DivMod

\* The same, with the quotient and the remainder as names.
LEMMA DivModPick ==
    ASSUME NEW s \in Nat \ {0}, NEW a \in Int
    PROVE  \E x \in Int, t \in 0 .. s - 1 : a = s * x + t /\ a % s = t
<1>1. /\ a % s \in 0 .. s - 1
      /\ a \div s \in Int
      /\ a = s * (a \div s) + (a % s)
  BY DivMod
<1>2. QED BY <1>1

\* In the first lap the slot is the counter.
LEMMA ModSmall ==
    ASSUME NEW s \in Nat \ {0}, NEW a \in 0 .. s - 1
    PROVE  a % s = a
<1>0. a \in Int
  OBVIOUS
<1>1. PICK x \in Int, t \in 0 .. s - 1 : a = s * x + t /\ a % s = t
  BY <1>0, DivModPick, Zenon
<1>2. PICK z \in Int : z = 0
  OBVIOUS
<1>3. s * z = 0
  BY <1>2
<1>4. s * x + t = s * z + a
  BY <1>1, <1>3
<1>5. t = a
  BY <1>4, DivUnique
<1>6. QED BY <1>1, <1>5

\* Adding whole laps does not change the slot.
LEMMA ModShift ==
    ASSUME NEW s \in Nat \ {0}, NEW a \in Int, NEW k \in Int
    PROVE  (a + s * k) % s = a % s
<1>1. PICK b \in Int : b = a + s * k
  OBVIOUS
<1>2. PICK x \in Int, t \in 0 .. s - 1 : b = s * x + t /\ b % s = t
  BY DivModPick, Zenon
<1>3. PICK y \in Int, u \in 0 .. s - 1 : a = s * y + u /\ a % s = u
  BY DivModPick, Zenon
<1>4. PICK z \in Int : z = y + k
  OBVIOUS
<1>5. s * z = s * y + s * k
  BY <1>4
<1>6. s * y \in Int /\ s * k \in Int /\ s * x \in Int /\ s * z \in Int
  OBVIOUS
<1>7. s * z + u = s * x + t
  BY <1>1, <1>2, <1>3, <1>5, <1>6
<1>8. u = t
  BY <1>7, DivUnique
<1>9. QED BY <1>1, <1>2, <1>3, <1>8

\* A counter one lap back is in the same slot.
LEMMA ModLap ==
    ASSUME NEW s \in Nat \ {0}, NEW a \in Int
    PROVE  (a - s) % s = a % s
<1>1. PICK k \in Int : k = -1
  OBVIOUS
<1>2. (a + s * k) % s = a % s
  BY ModShift, Zenon
<1>3. a + s * k = a - s
  BY <1>1
<1>4. QED BY <1>2, <1>3

\* Two counters less than a lap apart never share a slot.
LEMMA ModApart ==
    ASSUME NEW s \in Nat \ {0}, NEW a \in Int, NEW b \in Int,
           a < b, b < a + s
    PROVE  a % s # b % s
<1>1. SUFFICES ASSUME a % s = b % s PROVE FALSE
  OBVIOUS
<1>2. PICK x \in Int, t \in 0 .. s - 1 : a = s * x + t /\ a % s = t
  BY DivModPick, Zenon
<1>3. PICK y \in Int, u \in 0 .. s - 1 : b = s * y + u /\ b % s = u
  BY DivModPick, Zenon
<1>4. PICK d \in 0 .. s - 1 : d = b - a
  OBVIOUS
<1>5. s * x \in Int /\ s * y \in Int /\ 0 \in 0 .. s - 1
  OBVIOUS
<1>6. s * y + 0 = s * x + d
  BY <1>1, <1>2, <1>3, <1>4, <1>5
<1>7. 0 = d
  BY <1>4, <1>5, <1>6, DivUnique
<1>8. QED BY <1>4, <1>7

\* The newest older counter in the same slot is one lap back.
LEMMA LapBack ==
    ASSUME NEW s \in Nat \ {0}, NEW a \in Int, NEW b \in Int,
           a % s = b % s, b - s <= a, a < b
    PROVE  a = b - s
<1>1. ~(b < a + s)
  BY ModApart, Zenon
<1>2. QED BY <1>1

\* Within one lap a slot determines the counter.
LEMMA SameLap ==
    ASSUME NEW s \in Nat \ {0}, NEW a \in Int, NEW b \in Int, NEW p \in Int,
           a % s = b % s, p - s <= a, a < p, p - s <= b, b < p
    PROVE  a = b
<1>1. b < a + s /\ a < b + s
  OBVIOUS
<1>2. ASSUME a < b PROVE FALSE
  BY <1>1, <1>2, ModApart, Zenon
<1>3. ASSUME b < a PROVE FALSE
  BY <1>1, <1>3, ModApart, Zenon
<1>4. QED BY <1>2, <1>3

\* The difference of two wrapping counters less than a range apart is exact.
LEMMA WrapDiff ==
    ASSUME NEW m \in Nat \ {0}, NEW a \in Int, NEW b \in Int,
           a - b \in 0 .. m - 1
    PROVE  ((a % m) - b) % m = a - b
<1>1. PICK x \in Int, t \in 0 .. m - 1 : a = m * x + t /\ a % m = t
  BY DivModPick, Zenon
<1>2. PICK c \in Int : c = t - b
  OBVIOUS
<1>3. (c + m * x) % m = c % m
  BY ModShift, Zenon
<1>4. m * x \in Int
  OBVIOUS
<1>5. c + m * x = a - b
  BY <1>1, <1>2, <1>4
<1>6. (a - b) % m = a - b
  OBVIOUS
<1>7. QED BY <1>1, <1>2, <1>3, <1>5, <1>6

\* The same when it is the lower counter that has wrapped.
LEMMA WrapDiff2 ==
    ASSUME NEW m \in Nat \ {0}, NEW a \in Int, NEW b \in Int,
           a - b \in 0 .. m - 1
    PROVE  (a - (b % m)) % m = a - b
<1>1. PICK x \in Int, t \in 0 .. m - 1 : b = m * x + t /\ b % m = t
  BY DivModPick
<1>2. PICK c \in Int : c = a - b
  OBVIOUS
<1>3. (c + m * x) % m = c % m
  BY ModShift, Zenon
<1>4. m * x \in Int
  OBVIOUS
<1>5. c + m * x = a - t
  BY <1>1, <1>2, <1>4
<1>6. c % m = c
  BY <1>2
<1>7. QED BY <1>1, <1>2, <1>3, <1>5, <1>6

\* A slot index computed from a counter that wraps at a multiple of the ring
\* size is the one computed from the count itself.
LEMMA ModMod ==
    ASSUME NEW s \in Nat \ {0}, NEW m \in Nat \ {0}, NEW a \in Int,
           NEW q \in Nat \ {0}, m = s * q
    PROVE  (a % m) % s = a % s
<1>1. m = s * q
  OBVIOUS
<1>2. PICK x \in Int, t \in 0 .. m - 1 : a = m * x + t /\ a % m = t
  BY DivModPick, Zenon
<1>3. PICK k \in Int : k = q * x
  OBVIOUS
<1>4. m * x = s * k
  BY <1>1, <1>3
<1>5. m * x \in Int /\ s * k \in Int /\ t \in Int
  OBVIOUS
<1>6. a = t + s * k
  BY <1>2, <1>4, <1>5
<1>7. (t + s * k) % s = t % s
  BY <1>5, ModShift, Zenon
<1>8. QED BY <1>1, <1>2, <1>6, <1>7

=============================================================================
