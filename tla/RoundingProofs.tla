--------------------------- MODULE RoundingProofs ---------------------------
(***************************************************************************)
(* What the proofs need of decimal numbers, for every table of powers of    *)
(* ten: laws of the table, of the number of digits, of division, and of the *)
(* digit that stands for a rest.                                            *)
(*                                                                         *)
(* And what libfpfd/round.c computes, for every precision and exponent      *)
(* range: two successive truncations may be rounded on the one remainder    *)
(* that fpfd32_impl_round2 makes of theirs, and a number with an honest     *)
(* remainder is rounded as the reference says, except in the mode RNDNA.    *)
(* "Honest" is the contract of fpfd_impl.h:86-108, as RemClass states it.   *)
(*                                                                         *)
(* The table is described by a recurrence, so its laws are proved by        *)
(* induction.  A law is turned into the set of the numbers that obey it,    *)
(* and a nonempty set of natural numbers has a least element.               *)
(***************************************************************************)
EXTENDS Rounding, WellFoundedInduction, TLAPS

LEMMA LeastNumber ==
  ASSUME NEW T \in SUBSET Nat, T # {}
  PROVE  \E x \in T : \A y \in T : x <= y
<1>1. PICK x \in T : \A y \in T : <<y, x>> \notin OpToRel(<, Nat)
  BY NatLessThanWellFounded, WFMin, Zenon
<1>2. \A y \in T : ~(y < x)
  BY <1>1, Zenon DEF OpToRel
<1> QED
  BY <1>2

\* Induction for sets: one that has zero and is closed under successors is Nat.
LEMMA SetInduction ==
  ASSUME NEW S \in SUBSET Nat, 0 \in S, \A k \in S : k + 1 \in S
  PROVE  S = Nat
<1> SUFFICES ASSUME Nat \ S # {} PROVE FALSE
  OBVIOUS
<1>1. PICK x \in Nat \ S : \A y \in Nat \ S : x <= y
  BY LeastNumber
<1>2. x # 0 /\ x - 1 \in Nat
  BY <1>1
<1>3. x - 1 \in S
  BY <1>1, <1>2
<1> QED
  BY <1>1, <1>3

-----------------------------------------------------------------------------
(* Integer arithmetic                                                      *)

\* f is defined by recursion up to n.
Recursive(f, z, step, n) == f[0] = z /\ \A k \in 1..n : f[k] = step[<<k, f[k-1]>>]

RecursionEnds(S, z, step, n) == \E f \in [0..n -> S] : Recursive(f, z, step, n)

\* Such functions exist.
LEMMA Recursion ==
  ASSUME NEW S, NEW z \in S, NEW step \in [Nat \X S -> S], NEW n \in Nat
  PROVE  RecursionEnds(S, z, step, n)
<1> DEFINE Good(f, i) == f \in [0..i -> S] /\ f[0] = z /\ \A k \in 1..i : f[k] = step[<<k, f[k-1]>>]
           T == {i \in Nat : \E f : Good(f, i)}
<1>1. 0 \in T
  <2> DEFINE f == [k \in 0..0 |-> z]
  <2>1. f \in [0..0 -> S] /\ f[0] = z /\ 1..0 = {}
    OBVIOUS
  <2>2. Good(f, 0)
    BY <2>1
  <2> QED BY <2>2
<1>2. ASSUME NEW i \in T PROVE i + 1 \in T
  <2>1. i \in Nat
    BY <1>2
  <2>2. PICK f : Good(f, i)
    BY <1>2
  <2>3. i \in 0..i /\ f[i] \in S /\ <<i + 1, f[i]>> \in Nat \X S
    BY <2>1, <2>2
  <2> DEFINE y == step[<<i + 1, f[i]>>]
             g == [k \in 0..(i + 1) |-> IF k = i + 1 THEN y ELSE f[k]]
  <2>4. y \in S
    BY <2>3
  <2>5. \A k \in 0..i : k \in 0..(i + 1) /\ k # i + 1
    BY <2>1
  <2>6. \A k \in 0..(i + 1) : k = i + 1 \/ k \in 0..i
    BY <2>1
  <2>7. \A k \in 0..i : g[k] = f[k] /\ f[k] \in S
    BY <2>2, <2>5
  <2>8. i + 1 \in 0..(i + 1) /\ g[i + 1] = y
    BY <2>1
  <2>9. g \in [0..(i + 1) -> S]
    <3> HIDE DEF y
    <3> QED BY <2>2, <2>4, <2>6
  <2>10. g[0] = z
    <3>1. 0 \in 0..i
      BY <2>1
    <3> QED BY <2>2, <2>7, <3>1
  <2>11. ASSUME NEW k \in 1..(i + 1) PROVE g[k] = step[<<k, g[k-1]>>]
    <3> HIDE DEF g
    <3>1. CASE k = i + 1
      <4>1. k - 1 = i
        BY <2>1, <3>1
      <4>2. g[i] = f[i]
        BY <2>3, <2>7
      <4> QED BY <2>8, <3>1, <4>1, <4>2
    <3>2. CASE k # i + 1
      <4>1. k \in 1..i /\ k \in 0..i /\ k - 1 \in 0..i
        BY <2>1, <3>2
      <4> QED BY <2>2, <2>7, <4>1
    <3> QED BY <3>1, <3>2
  <2>12. Good(g, i + 1)
    <3> HIDE DEF g
    <3> QED BY <2>9, <2>10, <2>11
  <2> HIDE DEF Good, g
  <2> QED BY <2>1, <2>12
<1>3. T = Nat
  <2>1. T \in SUBSET Nat
    OBVIOUS
  <2> HIDE DEF T
  <2> QED BY <1>1, <1>2, <2>1, SetInduction
<1>4. PICK f : Good(f, n)
  BY <1>3
<1> QED BY <1>4 DEF RecursionEnds, Recursive

-----------------------------------------------------------------------------
(* mul                                                                     *)

\* Multiplication preserves the order of natural numbers.
LEMMA TimesMonotonic ==
  ASSUME NEW x \in Nat, NEW y \in Nat, NEW z \in Nat, x <= y
  PROVE  x * z \in Nat /\ y * z \in Nat /\ x * z <= y * z
OBVIOUS

\* The division theorem for the natural numbers, with the bound that the
\* quotient inherits from the dividend.
LEMMA DivMod ==
  ASSUME NEW x \in Nat, NEW y \in Nat \ {0}
  PROVE  /\ x \div y \in Nat
         /\ x % y \in 0..(y - 1)
         /\ ((x \div y) * y) + (x % y) = x
         /\ x \div y <= x
<1>1. x \div y \in Int /\ x % y \in Int
  OBVIOUS
<1>2. x = y * (x \div y) + (x % y) /\ 0 <= x % y /\ x % y < y
  OBVIOUS
<1>3. x \div y >= 0
  OBVIOUS
<1> DEFINE d == x \div y
           m == x % y
<1>4. d \in Nat /\ m \in Nat /\ x = y * d + m
  BY <1>1, <1>2, <1>3
<1>5. d <= x
  <2> HIDE DEF d, m
  <2>1. 1 * d <= y * d /\ y * d \in Nat
    BY <1>4, TimesMonotonic
  <2> QED
    BY <1>4, <2>1
<1> QED
  BY <1>1, <1>2, <1>3, <1>5

\* The quotient is the largest number whose product fits.
LEMMA DivLargest ==
  ASSUME NEW x \in Nat, NEW y \in Nat \ {0}, NEW g \in Nat
  PROVE  (g * y <= x) <=> (g <= x \div y)
<1> DEFINE d == x \div y
           m == x % y
<1>1. d \in Nat /\ m \in 0..(y - 1) /\ (d * y) + m = x
  BY DivMod
<1> HIDE DEF d, m
<1>2. ASSUME g <= d PROVE g * y <= x
  BY <1>1, <1>2, TimesMonotonic
<1>3. ASSUME g * y <= x, d + 1 <= g PROVE FALSE
  <2>1. (d + 1) * y <= g * y /\ g * y \in Nat /\ d * y \in Nat
    BY <1>1, <1>3, TimesMonotonic
  <2>2. (d + 1) * y = (d * y) + y
    BY <1>1
  <2> QED BY <1>1, <1>3, <2>1, <2>2
<1> QED BY <1>1, <1>2, <1>3 DEF d

\* Quotient and remainder are determined by the equation.
LEMMA DivModUnique ==
  ASSUME NEW x \in Nat, NEW y \in Nat \ {0}, NEW d \in Int, NEW m \in 0..(y - 1),
         x = d * y + m
  PROVE  x \div y = d /\ x % y = m
<1> DEFINE e == x \div y
           n == x % y
<1>1. e \in Nat /\ n \in 0..(y - 1) /\ (e * y) + n = x
  BY DivMod
<1> HIDE DEF e, n
<1>2. ASSUME e < d PROVE FALSE
  <2>1. d \in Nat /\ (e + 1) * y <= d * y
    BY <1>1, <1>2, TimesMonotonic
  <2>2. (e + 1) * y = (e * y) + y
    BY <1>1
  <2>3. e * y \in Nat /\ d * y \in Nat
    BY <1>1, <2>1
  <2> QED
    BY <1>1, <2>1, <2>2, <2>3
<1>3. ASSUME d < e PROVE FALSE
  <2>1. e * y - d * y = (e - d) * y
    BY <1>1
  <2>2. 1 * y <= (e - d) * y
    BY <1>1, <1>3, TimesMonotonic
  <2>3. e * y \in Int /\ d * y \in Int
    BY <1>1
  <2> QED
    BY <1>1, <2>1, <2>2, <2>3
<1>4. e = d
  BY <1>1, <1>2, <1>3
<1>5. n = m
  <2>1. d * y \in Int
    OBVIOUS
  <2> QED
    BY <1>1, <1>4, <2>1
<1> QED
  BY <1>4, <1>5 DEF e, n

\* A value below the modulus is its own residue.
LEMMA ModSmall ==
  ASSUME NEW x \in Nat, NEW y \in Nat, x < y
  PROVE  x % y = x
OBVIOUS

\* A remainder scaled by k gives a quotient below k.
LEMMA ScaledQuotient ==
  ASSUME NEW x \in Nat, NEW y \in Nat \ {0}, NEW k \in Nat \ {0}, x < y
  PROVE  (x * k) \div y \in 0..(k - 1)
<1> DEFINE n == x * k
           d == n \div y
<1>1. n \in Nat /\ n < k * y
  OBVIOUS
<1>2. d \in Nat /\ d * y <= n
  <2> HIDE DEF n
  <2>1. d \in Nat /\ (n % y) \in Nat /\ (d * y) + (n % y) = n
    BY <1>1, DivMod
  <2>2. d * y \in Int
    BY <2>1
  <2> QED
    BY <2>1, <2>2, <1>1
<1>3. ASSUME d >= k PROVE FALSE
  <2> HIDE DEF n, d
  <2>1. d * y >= k * y
    BY <1>2, <1>3
  <2> QED
    BY <2>1, <1>1, <1>2
<1> QED
  BY <1>2, <1>3

-----------------------------------------------------------------------------
(* The table of powers of ten                                              *)

LEMMA PowerType == \A k \in 0..MaxShift : Pow10[k] \in Nat \ {0}
<1> DEFINE S == {k \in Nat : k <= MaxShift => Pow10[k] \in Nat \ {0}}
<1>1. 0 \in S
  BY DecimalAssumption
<1>2. \A k \in S : k + 1 \in S
  BY DecimalAssumption
<1>3. S = Nat
  <2> HIDE DEF S
  <2>1. S \in SUBSET Nat
    BY DEF S
  <2> QED
    BY <1>1, <1>2, <2>1, SetInduction
<1>4. \A k \in 0..MaxShift : k \in Nat /\ k <= MaxShift
  BY DecimalAssumption
<1> QED
  BY <1>3, <1>4

LEMMA PowerStep ==
  ASSUME NEW k \in 0..MaxShift, k < MaxShift
  PROVE  Pow10[k+1] = 10 * Pow10[k]
BY DecimalAssumption

LEMMA PowerSum ==
  ASSUME NEW a \in Nat, NEW b \in Nat, a + b <= MaxShift
  PROVE  Pow10[a + b] = Pow10[a] * Pow10[b]
<1> DEFINE S == {c \in Nat : a + c <= MaxShift => Pow10[a + c] = Pow10[a] * Pow10[c]}
<1>1. 0 \in S
  BY PowerType, DecimalAssumption
<1>2. ASSUME NEW c \in S PROVE c + 1 \in S
  <2> SUFFICES ASSUME a + (c + 1) <= MaxShift PROVE Pow10[a + (c + 1)] = Pow10[a] * Pow10[c + 1]
    BY <1>2
  <2>1. a + c <= MaxShift /\ c \in Nat /\ MaxShift \in Nat /\ c < MaxShift
    BY <1>2, DecimalAssumption
  <2>2. Pow10[a + c] = Pow10[a] * Pow10[c]
    BY <1>2, <2>1
  <2>3. Pow10[a + (c + 1)] = 10 * Pow10[a + c] /\ Pow10[c + 1] = 10 * Pow10[c]
    BY <2>1, DecimalAssumption
  <2>4. Pow10[a] \in Nat /\ Pow10[c] \in Nat
    BY <2>1, PowerType
  <2> HIDE DEF S
  <2> QED
    BY <2>2, <2>3, <2>4
<1>3. S = Nat
  <2> HIDE DEF S
  <2>1. S \in SUBSET Nat
    BY DEF S
  <2> QED
    BY <1>1, <1>2, <2>1, SetInduction
<1>4. b \in S
  BY <1>3
<1> QED
  BY <1>4

LEMMA PowerFactor ==
  ASSUME NEW a \in 0..MaxShift, NEW b \in 0..MaxShift, a <= b
  PROVE  \E c \in 0..MaxShift : b = a + c /\ Pow10[b] = Pow10[a] * Pow10[c]
<1>1. PICK c \in Nat : b = a + c
  <2>1. b - a \in Nat /\ b = a + (b - a)
    BY DecimalAssumption
  <2> QED
    BY <2>1
<1>2. a \in Nat /\ a + c <= MaxShift /\ c \in 0..MaxShift
  BY <1>1, DecimalAssumption
<1> QED
  BY <1>1, <1>2, PowerSum

\* A larger index is at least ten times the power.
LEMMA PowerOrder ==
  ASSUME NEW a \in 0..MaxShift, NEW b \in 0..MaxShift
  PROVE  /\ a <= b => Pow10[a] <= Pow10[b]
         /\ a < b  => 10 * Pow10[a] <= Pow10[b]
         /\ Pow10[a] < Pow10[b] => a < b
<1>1. ASSUME NEW c \in 0..MaxShift, NEW d \in 0..MaxShift, c <= d
      PROVE  Pow10[c] <= Pow10[d] /\ (c < d => 10 * Pow10[c] <= Pow10[d])
  <2>1. PICK k \in 0..MaxShift : d = c + k /\ Pow10[d] = Pow10[c] * Pow10[k]
    BY <1>1, PowerFactor
  <2>2. Pow10[c] \in Nat \ {0} /\ Pow10[k] \in Nat \ {0}
    BY PowerType
  <2>3. c < d => Pow10[k] >= 10
    <3> SUFFICES ASSUME c < d PROVE Pow10[k] >= 10
      OBVIOUS
    <3>1. k \in 1..MaxShift /\ k - 1 \in 0..MaxShift
      BY <2>1, DecimalAssumption
    <3>2. Pow10[k] = 10 * Pow10[k-1] /\ Pow10[k-1] \in Nat \ {0}
      BY <3>1, DecimalAssumption, PowerType
    <3> QED
      BY <3>2
  <2>4. \A t \in Nat : t <= Pow10[k] => t * Pow10[c] <= Pow10[k] * Pow10[c]
    BY <2>2, TimesMonotonic
  <2>5. Pow10[k] * Pow10[c] = Pow10[d]
    BY <2>1, <2>2
  <2> QED
    BY <2>2, <2>3, <2>4, <2>5
<1>2. a <= b \/ b < a
  BY DecimalAssumption
<1>3. b < a => Pow10[b] <= Pow10[a]
  BY <1>1, DecimalAssumption
<1>4. Pow10[a] \in Nat /\ Pow10[b] \in Nat
  BY PowerType
<1>5. a < b => a <= b
  BY DecimalAssumption
<1>6. a = b \/ a < b \/ b < a
  BY DecimalAssumption
<1> QED
  BY <1>1, <1>2, <1>3, <1>4, <1>5, <1>6

\* Beyond the first, the powers are even.
LEMMA PowerEven ==
  ASSUME NEW k \in 1..MaxShift
  PROVE  Pow10[k] % 2 = 0 /\ Pow10[k] >= 10
<1>1. Pow10[k] = 10 * Pow10[k-1] /\ Pow10[k-1] \in Nat \ {0}
  BY DecimalAssumption, PowerType
<1> QED
  BY <1>1

-----------------------------------------------------------------------------
(* The number of digits                                                    *)

IsDigits(n, m) == n \in 1..MaxShift /\ m < Pow10[n] /\ (n = 1 \/ Pow10[n-1] <= m)

\* Two lengths of one number are the same.
LEMMA DigitsUnique ==
  ASSUME NEW m \in Nat, NEW a, NEW b, IsDigits(a, m), IsDigits(b, m)
  PROVE  a = b
<1>1. ASSUME NEW c \in 1..MaxShift, NEW d \in 1..MaxShift, c < d,
             m < Pow10[c], Pow10[d-1] <= m
      PROVE FALSE
  <2>1. c \in 0..MaxShift /\ d - 1 \in 0..MaxShift /\ c <= d - 1
    BY <1>1, DecimalAssumption
  <2>2. Pow10[c] <= Pow10[d-1] /\ Pow10[c] \in Nat /\ Pow10[d-1] \in Nat
    BY <2>1, PowerOrder, PowerType
  <2> QED
    BY <1>1, <2>2
<1>2. a \in 1..MaxShift /\ b \in 1..MaxShift /\ (a < b \/ b < a \/ a = b)
  BY DecimalAssumption DEF IsDigits
<1>3. ~(a < b)
  BY <1>1, <1>2 DEF IsDigits
<1>4. ~(b < a)
  BY <1>1, <1>2 DEF IsDigits
<1> QED
  BY <1>2, <1>3, <1>4

LEMMA DigitsExist ==
  ASSUME NEW m \in Nat, m < Pow10[MaxShift]
  PROVE  \E n : IsDigits(n, m)
<1> DEFINE T == {n \in Nat : n \in 1..MaxShift /\ m < Pow10[n]}
<1>1. MaxShift \in T
  BY DecimalAssumption
<1>2. PICK n \in T : \A y \in T : n <= y
  <2> HIDE DEF T
  <2>1. T \in SUBSET Nat
    BY DEF T
  <2> QED
    BY <1>1, <2>1, LeastNumber
<1>3. n \in 1..MaxShift /\ m < Pow10[n]
  BY <1>2
<1>4. ASSUME n # 1 PROVE Pow10[n-1] <= m
  <2>1. n - 1 \in 1..MaxShift /\ n - 1 \in Nat /\ Pow10[n-1] \in Nat
    BY <1>3, <1>4, PowerType, DecimalAssumption
  <2>2. n - 1 \notin T
    BY <1>2, <2>1
  <2> QED
    BY <2>1, <2>2
<1> QED
  BY <1>3, <1>4 DEF IsDigits

\* Digits is what it says it is, and the only such number.
LEMMA DigitsMeaning ==
  ASSUME NEW m \in Nat, m < Pow10[MaxShift]
  PROVE  /\ IsDigits(Digits(m), m)
         /\ \A n : IsDigits(n, m) => Digits(m) = n
<1>1. Digits(m) = CHOOSE n \in 1..MaxShift : IsDigits(n, m)
  BY Zenon DEF Digits, IsDigits
<1>2. \E n \in 1..MaxShift : IsDigits(n, m)
  BY DigitsExist DEF IsDigits
<1>3. IsDigits(Digits(m), m)
  BY <1>1, <1>2, Zenon
<1> QED
  BY <1>3, DigitsUnique

-----------------------------------------------------------------------------
(* The class of a rest                                                     *)

\* The fraction f/d of a unit, in the classes of Position.
Fraction(f, d) ==
  CASE f < 0 \/ f >= d        -> "OUT"
    [] f = 0                  -> "EXACT"
    [] f > 0 /\ 2 * f < d     -> "BELOW"
    [] 2 * f = d              -> "TIE"
    [] 2 * f > d /\ f < d     -> "ABOVE"

\* Each class says what it should of the fraction.
LEMMA FractionMeaning ==
  ASSUME NEW f \in Int, NEW d \in Nat \ {0}
  PROVE  /\ Fraction(f, d) = "EXACT" <=> f = 0
         /\ Fraction(f, d) = "BELOW" <=> 0 < f /\ 2 * f < d
         /\ Fraction(f, d) = "TIE"   <=> 2 * f = d
         /\ Fraction(f, d) = "ABOVE" <=> d < 2 * f /\ f < d
         /\ Fraction(f, d) \in {"OUT", "EXACT", "BELOW", "TIE", "ABOVE"}
         /\ Fraction(f, d) = "OUT" <=> f < 0 \/ f >= d
BY DEF Fraction

\* What a remainder digit g must say of the rest x of a division by y.
Classifies(g, x, y) ==
  /\ g \in 0..9
  /\ g = 0       <=> x = 0
  /\ g \in 1..4  <=> 0 < x /\ 2 * x < y
  /\ g = 5       <=> 2 * x = y
  /\ g \in 6..9  <=> 2 * x > y

\* A first digit d of x / y, made unequal to 0 and 5 when something follows.
LEMMA StickyClass ==
  ASSUME NEW x \in Nat, NEW y \in Nat \ {0}, x < y,
         NEW d \in Int, NEW t \in 0..(y - 1), 10 * x = d * y + t,
         NEW g, g = IF d \in {0, 5} /\ t # 0 THEN d + 1 ELSE d
  PROVE  Classifies(g, x, y)
<1>0. d * y \in Int /\ t < y /\ t >= 0
  OBVIOUS
<1>1. d \in 0..9
  <2>1. ASSUME d < 0 PROVE FALSE
    <3>1. (-d) \in Nat /\ 1 <= -d /\ 1 * y <= (-d) * y
      BY <2>1, TimesMonotonic
    <3>2. (-d) * y = -(d * y)
      OBVIOUS
    <3> QED
      BY <1>0, <3>1, <3>2
  <2>2. ASSUME d > 9 PROVE FALSE
    <3>1. d \in Nat /\ 10 <= d /\ 10 * y <= d * y
      BY <2>2, TimesMonotonic
    <3> QED
      BY <1>0, <3>1
  <2> QED
    BY <2>1, <2>2
<1> USE DEF Classifies
<1>4. CASE d = 0
  BY <1>4
<1>5. CASE d \in 1..4
  <2>1. d * y >= y /\ d * y <= 4 * y
    BY <1>5
  <2> QED
    BY <1>0, <1>5, <2>1
<1>6. CASE d = 5
  BY <1>6
<1>7. CASE d \in 6..9
  <2>1. d * y >= 6 * y
    BY <1>7
  <2> QED
    BY <1>0, <1>7, <2>1
<1> QED
  BY <1>1, <1>4, <1>5, <1>6, <1>7

\* The same for the quotient and the remainder of a division.
LEMMA FirstDigitClass ==
  ASSUME NEW x \in Nat, NEW y \in Nat \ {0}, x < y,
         NEW g, g = IF (10 * x) \div y \in {0, 5} /\ (10 * x) % y # 0
                    THEN (10 * x) \div y + 1 ELSE (10 * x) \div y
  PROVE  Classifies(g, x, y)
<1> DEFINE n == 10 * x
<1>1. n \in Nat
  OBVIOUS
<1>2. n \div y \in Int /\ n % y \in 0..(y - 1) /\ n = (n \div y) * y + (n % y)
  <2> HIDE DEF n
  <2> QED
    BY <1>1, DivMod
<1> QED
  BY <1>2, StickyClass

\* In the terms of the reference.
LEMMA ClassifiesFraction ==
  ASSUME NEW x \in Nat, NEW y \in Nat \ {0}, x < y, NEW g, Classifies(g, x, y)
  PROVE  RemClass(g) = Fraction(x, y) /\ RemClass(16 + g) = Fraction(x, y)
<1>1. g \in 0..9
  BY DEF Classifies
<1>2. CASE g = 0
  BY <1>2 DEF Classifies, RemClass, Fraction
<1>3. CASE g \in 1..4
  BY <1>3 DEF Classifies, RemClass, Fraction
<1>4. CASE g = 5
  BY <1>4 DEF Classifies, RemClass, Fraction
<1>5. CASE g \in 6..9
  BY <1>5 DEF Classifies, RemClass, Fraction
<1> QED
  BY <1>1, <1>2, <1>3, <1>4, <1>5

\* A fraction does not change when both parts are multiplied.
LEMMA FractionScaled ==
  ASSUME NEW x \in Int, NEW y \in Nat \ {0}, NEW k \in Nat \ {0}
  PROVE  Fraction(x * k, y * k) = Fraction(x, y)
<1> DEFINE a == x * k
           b == y * k
<1>1. a \in Int /\ b \in Nat \ {0}
  OBVIOUS
<1>2. (a < 0 <=> x < 0) /\ (a = 0 <=> x = 0)
  BY SMTT(30)
<1>3. \A u, v \in Int : u < v => u * k < v * k
  BY SMTT(30)
<1>4. (a < b <=> x < y)
  BY <1>3, SMTT(30)
<1>5. (2 * x) * k = 2 * a
  OBVIOUS
<1>6. (2 * a < b <=> 2 * x < y) /\ (2 * a = b <=> 2 * x = y)
  BY <1>3, <1>5, SMTT(30)
<1> HIDE DEF a, b
<1>7. Fraction(a, b) = Fraction(x, y)
  BY <1>1, <1>2, <1>4, <1>6 DEF Fraction
<1> QED
  BY <1>7 DEF a, b

-----------------------------------------------------------------------------
(* Digits of scaled numbers                                                *)

\* A number of n digits fits in the table.
LEMMA FitsTable ==
  ASSUME NEW m \in Nat, NEW n \in 0..MaxShift, m < Pow10[n]
  PROVE  m < Pow10[MaxShift]
<1>1. MaxShift \in 0..MaxShift /\ n <= MaxShift
  BY DecimalAssumption
<1>2. Pow10[n] <= Pow10[MaxShift] /\ Pow10[n] \in Nat /\ Pow10[MaxShift] \in Nat
  BY <1>1, PowerOrder, PowerType
<1> QED
  BY <1>2

LEMMA DigitsTimes ==
  ASSUME NEW m \in Nat \ {0}, NEW n, IsDigits(n, m), NEW k \in Nat, n + k <= MaxShift
  PROVE  /\ m * Pow10[k] \in Nat \ {0}
         /\ IsDigits(n + k, m * Pow10[k])
<1>1. /\ n \in 1..MaxShift /\ n \in Nat /\ n - 1 \in Nat /\ k \in 0..MaxShift
      /\ n \in 0..MaxShift /\ n - 1 \in 0..MaxShift /\ (n - 1) + k <= MaxShift
  BY DecimalAssumption DEF IsDigits
<1>2. Pow10[n + k] = Pow10[n] * Pow10[k] /\ Pow10[(n - 1) + k] = Pow10[n-1] * Pow10[k]
  BY <1>1, PowerSum
<1>3. Pow10[k] \in Nat \ {0} /\ Pow10[n] \in Nat \ {0} /\ Pow10[n-1] \in Nat \ {0}
  BY <1>1, PowerType
<1>4. m < Pow10[n] /\ Pow10[n-1] <= m
  BY <1>1, DecimalAssumption DEF IsDigits
<1>5. \A u, v \in Nat : u <= v => u * Pow10[k] <= v * Pow10[k]
  BY <1>3, TimesMonotonic
<1>6. Pow10[n-1] * Pow10[k] <= m * Pow10[k]
  BY <1>3, <1>4, <1>5
<1>7. m * Pow10[k] < Pow10[n] * Pow10[k]
  <2>1. (m + 1) * Pow10[k] <= Pow10[n] * Pow10[k]
    BY <1>3, <1>4, <1>5
  <2>2. (m + 1) * Pow10[k] = m * Pow10[k] + Pow10[k]
    BY <1>3
  <2> QED
    BY <1>3, <2>1, <2>2
<1>8. m * Pow10[k] \in Nat \ {0}
  BY <1>3
<1>9. n + k \in 1..MaxShift /\ (n + k) - 1 = (n - 1) + k
  BY <1>1, DecimalAssumption
<1> QED
  BY <1>2, <1>6, <1>7, <1>8, <1>9 DEF IsDigits

\* A mantissa of the format has at most P digits.
LEMMA Mantissa ==
  ASSUME NEW m \in 1..MaxMant
  PROVE  m \in Nat \ {0} /\ Digits(m) \in 1..P /\ IsDigits(Digits(m), m)
<1>1. P \in 1..MaxShift /\ P \in 0..MaxShift /\ P \in Nat /\ Pow10[P] \in Nat
  BY DecimalAssumption
<1>2. m \in Nat \ {0} /\ m < Pow10[P]
  BY <1>1 DEF MaxMant
<1>3. m < Pow10[MaxShift]
  BY <1>1, <1>2, FitsTable
<1>4. IsDigits(Digits(m), m)
  BY <1>2, <1>3, DigitsMeaning
<1> DEFINE n == Digits(m)
<1> HIDE DEF n
<1>5. n \in 1..MaxShift /\ (n = 1 \/ Pow10[n-1] <= m)
  BY <1>4 DEF IsDigits, n
<1>6. n <= P
  <2> SUFFICES ASSUME n # 1 PROVE n <= P
    BY <1>1
  <2>1. n - 1 \in 0..MaxShift
    BY <1>1, <1>5, DecimalAssumption
  <2>2. Pow10[n-1] < Pow10[P]
    BY <1>1, <1>2, <1>5, <2>1, PowerType
  <2>3. n - 1 < P
    BY <1>1, <2>1, <2>2, PowerOrder
  <2> QED BY <1>1, <1>5, <2>3, DecimalAssumption
<1> QED BY <1>1, <1>2, <1>4, <1>5, <1>6, DecimalAssumption DEF n

\* Cutting k of n digits off leaves n - k.
LEMMA DigitsCut ==
  ASSUME NEW m \in Nat, NEW n, IsDigits(n, m), NEW k \in Nat, k < n
  PROVE  /\ m \div Pow10[k] \in Nat /\ m % Pow10[k] \in 0..(Pow10[k] - 1)
         /\ m = ((m \div Pow10[k]) * Pow10[k]) + (m % Pow10[k])
         /\ IsDigits(n - k, m \div Pow10[k])
<1>1. n \in 1..MaxShift /\ n \in Nat /\ k \in 0..MaxShift /\ n - k \in 1..MaxShift
  BY DecimalAssumption DEF IsDigits
<1> DEFINE x == Pow10[k]
           u == m \div x
           v == m % x
<1>2. x \in Nat \ {0}
  BY <1>1, PowerType
<1>3. u \in Nat /\ v \in 0..(x - 1) /\ m = u * x + v
  <2> HIDE DEF x
  <2> QED
    BY <1>2, DivMod
<1>4. Pow10[n] = Pow10[n - k] * x /\ Pow10[n - k] \in Nat \ {0}
  <2>1. n - k \in Nat /\ (n - k) + k = n
    BY <1>1
  <2>2. Pow10[(n - k) + k] = Pow10[n - k] * x
    BY <1>1, <2>1, PowerSum, DecimalAssumption
  <2> QED
    BY <1>1, <2>1, <2>2, PowerType
<1>5. m < Pow10[n]
  BY DEF IsDigits
<1>6. u < Pow10[n - k]
  <2> SUFFICES ASSUME Pow10[n - k] <= u PROVE FALSE
    BY <1>3, <1>4
  <2> HIDE DEF x, u, v
  <2>1. Pow10[n - k] * x <= u * x /\ u * x \in Nat
    BY <1>2, <1>3, <1>4, TimesMonotonic
  <2> QED
    BY <1>2, <1>3, <1>4, <1>5, <2>1
<1>7. n - k # 1 => Pow10[n - k - 1] <= u
  <2> SUFFICES ASSUME n - k # 1, u < Pow10[n - k - 1] PROVE FALSE
    <3>1. n - k # 1 => n - k - 1 \in 0..MaxShift
      BY <1>1, DecimalAssumption
    <3> QED
      BY <1>3, <3>1, PowerType
  <2>1. n - k - 1 \in Nat /\ (n - k - 1) + k = n - 1 /\ n # 1 /\ n - 1 \in 0..MaxShift
    BY <1>1, DecimalAssumption
  <2> DEFINE w == Pow10[n - k - 1]
  <2>2. Pow10[(n - k - 1) + k] = w * x /\ w \in Nat
    BY <1>1, <2>1, PowerSum, PowerType, DecimalAssumption
  <2>3. Pow10[n-1] = w * x
    BY <2>1, <2>2
  <2>4. Pow10[n-1] <= m
    BY <2>1 DEF IsDigits
  <2>5. u < w
    OBVIOUS
  <2> HIDE DEF x, u, v, w
  <2>6. (u + 1) * x <= w * x /\ (u + 1) * x = u * x + x
    BY <1>2, <1>3, <2>2, <2>5, TimesMonotonic
  <2>7. u * x \in Nat /\ w * x \in Nat
    BY <1>2, <1>3, <2>2
  <2> QED
    BY <1>2, <1>3, <2>3, <2>4, <2>6, <2>7
<1> QED
  BY <1>1, <1>3, <1>6, <1>7 DEF IsDigits

-----------------------------------------------------------------------------
(* Remainders                                                              *)

\* The remainders that fpfd_impl.h:86-100 allows for a truncated number: a
\* digit, with or without the subnormalised bit.
Remainder == 0..9 \cup 16..25

LEMMA PositionIsFraction ==
  ASSUME NEW s \in Sign, NEW n \in Nat, NEW d \in Nat \ {0}, NEW m \in Nat
  PROVE  Position(Exact(s, n, d, 0), m, 0) = Fraction(n - m * d, d)
<1> DEFINE v == Exact(s, n, d, 0)
<1>1. MaxOf(v.e - 0, 0) = 0 /\ MaxOf(0 - v.e, 0) = 0
  BY DEF MaxOf, Exact
<1>2. Pow10[0] = 1
  BY DecimalAssumption
<1>3. NumAt(v, 0) = n /\ DenAt(v, 0) = d
  BY <1>1, <1>2 DEF NumAt, DenAt, Exact
<1> HIDE DEF v
<1>4. Position(v, m, 0) = Fraction(n - m * d, d)
  <2> DEFINE p == m * d
  <2>1. p \in Nat
    OBVIOUS
  <2>2. NumAt(v, 0) - m * DenAt(v, 0) = n - p
    BY <1>3
  <2> QED
    BY <1>3, <2>1, <2>2 DEF Position, Fraction
<1> QED
  BY <1>4 DEF v

-----------------------------------------------------------------------------
(* Two truncations                                                         *)

LEMMA RemClassMeaning ==
  ASSUME NEW rem \in Remainder
  PROVE  /\ RemClass(rem) = "EXACT" <=> rem % 16 = 0
         /\ RemClass(rem) = "TIE"   <=> rem % 16 = 5
         /\ RemClass(rem) \in {"EXACT", "BELOW", "TIE", "ABOVE"}
BY DEF RemClass, Remainder

\* f/d of a unit is left by a first truncation; the second cuts off r of k
\* units.  Together they cut off (r + f/d) / k of the larger unit.
LEMMA TwoFractions ==
  ASSUME NEW f \in Int, NEW d \in Nat \ {0}, NEW r \in Nat, NEW k \in Nat \ {0},
         k % 2 = 0, 0 <= f, f < d, r < k
  PROVE  /\ Fraction(r * d + f, d * k) =
              IF f = 0 THEN Fraction(r, k)
              ELSE CASE Fraction(r, k) = "EXACT" -> "BELOW"
                     [] Fraction(r, k) = "TIE"   -> "ABOVE"
                     [] OTHER                    -> Fraction(r, k)
         /\ Fraction(r, k) # "OUT"
<1> DEFINE rd == r * d
           kd == d * k
<1>1. rd \in Nat /\ kd \in Nat \ {0}
  OBVIOUS
<1>2. r + 1 <= k => rd + d <= kd
  <2>1. (r + 1) * d = rd + d
    OBVIOUS
  <2> QED
    BY <2>1, SMTT(30)
<1>3. 2 * r + 2 <= k => 2 * rd + 2 * d <= kd
  <2>1. (2 * r + 2) * d = 2 * rd + 2 * d
    OBVIOUS
  <2> QED
    BY <2>1, SMTT(30)
<1>4. 2 * r = k => 2 * rd = kd
  OBVIOUS
<1>5. 2 * r > k => 2 * rd > kd
  BY SMTT(30)
<1>6. 2 * r < k => 2 * r + 2 <= k
  OBVIOUS
<1>7. r = 0 <=> rd = 0
  OBVIOUS
<1> HIDE DEF rd, kd
<1>8. rd + f \in Int
  BY <1>1
<1>9. CASE r = 0
  <2>1. Fraction(r, k) = "EXACT" /\ k >= 2
    BY <1>9 DEF Fraction
  <2>2. r * d + f = f /\ d * k = kd
    BY <1>9 DEF kd
  <2>3. 2 * d <= kd
    BY <1>1, <1>3, <1>7, <1>9, <2>1
  <2>4. f # 0 => Fraction(f, kd) = "BELOW"
    BY <1>1, <2>3 DEF Fraction
  <2>5. f = 0 => Fraction(f, kd) = "EXACT"
    BY <1>1 DEF Fraction
  <2> QED
    BY <2>1, <2>2, <2>4, <2>5
<1>10. CASE r # 0 /\ 2 * r < k
  BY <1>1, <1>2, <1>3, <1>6, <1>7, <1>8, <1>10 DEF Fraction
<1>11. CASE 2 * r = k
  BY <1>1, <1>2, <1>4, <1>8, <1>11 DEF Fraction
<1>12. CASE 2 * r > k
  BY <1>1, <1>2, <1>5, <1>8, <1>12 DEF Fraction
<1> QED
  BY <1>9, <1>10, <1>11, <1>12

LEMMA CombineClass ==
  ASSUME NEW rem1 \in Remainder, NEW rem2 \in Remainder
  PROVE  /\ Combine(rem1, rem2) \in Remainder
         /\ RemClass(Combine(rem1, rem2)) =
              IF RemClass(rem1) = "EXACT" THEN RemClass(rem2)
              ELSE CASE RemClass(rem2) = "EXACT" -> "BELOW"
                     [] RemClass(rem2) = "TIE"   -> "ABOVE"
                     [] OTHER                    -> RemClass(rem2)
<1>1. (rem2 \div 32) % 2 = 0
  BY DEF Remainder
<1>2. CASE rem2 % 16 \in {0, 5} /\ rem1 % 16 # 0
  <2>1. Combine(rem1, rem2) = rem2 + 1
    BY <1>1, <1>2 DEF Combine
  <2> QED
    BY <1>2, <2>1 DEF Remainder, RemClass
<1>3. CASE ~(rem2 % 16 \in {0, 5} /\ rem1 % 16 # 0)
  <2>1. Combine(rem1, rem2) = rem2
    BY <1>1, <1>3 DEF Combine
  <2> QED
    BY <1>3, <2>1 DEF Remainder, RemClass
<1> QED
  BY <1>2, <1>3

\* The double rounding that fpfd32_impl_round2 is there to avoid does not
\* happen: when n/d was truncated to m with an honest remainder and m to a
\* multiple of k (any even number, a power of ten in the code) with another,
\* the combined remainder is honest about the place of n/d itself.
THEOREM CombineIsHonest ==
  ASSUME NEW s \in Sign, NEW n \in Nat, NEW d \in Nat \ {0}, NEW m \in Nat,
         NEW k \in Nat \ {0}, k % 2 = 0,
         NEW rem1 \in Remainder, NEW rem2 \in Remainder,
         Position(Exact(s, n, d, 0), m, 0) = RemClass(rem1),
         Position(Exact(s, m, k, 0), m \div k, 0) = RemClass(rem2)
  PROVE  /\ Combine(rem1, rem2) \in Remainder
         /\ Position(Exact(s, n, d * k, 0), m \div k, 0) = RemClass(Combine(rem1, rem2))
<1> DEFINE t == m \div k
           r == m % k
           f == n - m * d
<1>1. t \in Nat /\ r \in Nat /\ r < k /\ m = k * t + r
  <2>1. t \in Nat /\ r \in 0..(k - 1) /\ (t * k) + r = m
    BY DivMod
  <2> HIDE DEF t, r
  <2> QED
    BY <2>1
<1>2. f \in Int
  OBVIOUS
<1>3. Fraction(f, d) = RemClass(rem1) /\ Fraction(m - t * k, k) = RemClass(rem2)
  <2>1. Position(Exact(s, n, d, 0), m, 0) = Fraction(n - m * d, d)
    BY PositionIsFraction
  <2>2. \A u \in Nat : Position(Exact(s, m, k, 0), u, 0) = Fraction(m - u * k, k)
    BY PositionIsFraction
  <2>3. Position(Exact(s, m, k, 0), t, 0) = Fraction(m - t * k, k)
    <3> HIDE DEF t
    <3> QED
      BY <1>1, <2>2
  <2> QED
    BY <2>1, <2>3
<1>4. m - t * k = r
  BY <1>1
<1>5. 0 <= f /\ f < d /\ (f = 0 <=> RemClass(rem1) = "EXACT")
  <2>1. Fraction(f, d) # "OUT"
    BY <1>3, RemClassMeaning
  <2> HIDE DEF f
  <2> QED
    BY <1>2, <1>3, <2>1, FractionMeaning
<1>6. n - t * (d * k) = r * d + f
  <2> DEFINE tk == k * t
             rd == r * d
  <2>1. t * (d * k) = tk * d
    BY <1>1, SMTT(30)
  <2>2. (tk + r) * d = tk * d + rd
    BY <1>1, SMTT(30)
  <2>3. m * d = tk * d + rd
    BY <1>1, <2>2
  <2> QED
    <3> DEFINE tkd == tk * d
    <3>1. tkd \in Nat /\ rd \in Nat
      BY <1>1
    <3>2. t * (d * k) = tkd /\ f = n - (tkd + rd)
      BY <2>1, <2>3
    <3> HIDE DEF t, f, tk, rd, tkd
    <3> QED
      BY <3>1, <3>2 DEF rd
<1>7. d * k \in Nat \ {0}
  OBVIOUS
<1> HIDE DEF t, r, f
<1>8. Position(Exact(s, n, d * k, 0), t, 0) = Fraction(r * d + f, d * k)
  BY <1>1, <1>6, <1>7, PositionIsFraction
<1>9. Fraction(r * d + f, d * k) =
        IF f = 0 THEN Fraction(r, k)
        ELSE CASE Fraction(r, k) = "EXACT" -> "BELOW"
               [] Fraction(r, k) = "TIE"   -> "ABOVE"
               [] OTHER                    -> Fraction(r, k)
  BY <1>1, <1>2, <1>5, TwoFractions
<1>10. Position(Exact(s, n, d * k, 0), t, 0) = RemClass(Combine(rem1, rem2))
  BY <1>3, <1>4, <1>5, <1>8, <1>9, CombineClass
<1> QED
  BY <1>10, CombineClass DEF t

-----------------------------------------------------------------------------
(* Rounding on an honest remainder                                         *)

LEMMA DigitNotTotal ==
  ASSUME NEW rem \in Remainder
  PROVE  rem # TotalOverflow /\ rem # TotalUnderflow
BY DEF Remainder, TotalOverflow, TotalUnderflow

\* The action that fpfd_round chooses moves the number exactly when the
\* reference moves it.
LEMMA ActionRoundsUp ==
  ASSUME NEW x \in Impl, x.special = "NUMBER", NEW rem \in Remainder,
         NEW rnd \in Rnd \ {"RNDNA"}
  PROVE  LET act == RoundAction(x, rem, rnd)
         IN  /\ (act = "RMSIGN" \/ (act = "RMSIGNO" /\ Odd(x)))
                  <=> RoundsUp(rnd, x.sign, RemClass(rem), x.mant)
             /\ act = "RZERO" <=> RemClass(rem) = "EXACT"
<1>1. x.sign \in {-1, 1} /\ rnd \in {"RNDN", "RNDZ", "RNDU", "RNDD"}
  BY DEF Impl, Sign, Rnd
<1>2. rem # TotalOverflow /\ rem # TotalUnderflow
  BY DigitNotTotal
<1>3. CASE rem % 16 = 0
  <2>1. RemClass(rem) = "EXACT" /\ RoundAction(x, rem, rnd) = "RZERO"
    BY <1>2, <1>3 DEF RemClass, RoundAction
  <2> QED
    BY <2>1 DEF RoundsUp
<1>4. CASE rem % 16 # 0 /\ rnd \in {"RNDU", "RNDD"}
  <2>1. RoundAction(x, rem, rnd) = DirectedAction(rnd, x.sign)
    BY <1>2, <1>4 DEF RoundAction
  <2>2. RemClass(rem) # "EXACT"
    BY <1>4, RemClassMeaning
  <2> QED
    BY <1>1, <1>4, <2>1, <2>2 DEF RoundsUp, DirectedAction, AwayFromZero
<1>5. CASE rem % 16 # 0 /\ rnd \in {"RNDN", "RNDZ"}
  <2>1. RoundAction(x, rem, rnd) = NearestAction(rnd, rem % 16)
    BY <1>2, <1>5 DEF RoundAction
  <2>2. rem % 16 \in 1..9
    BY <1>5 DEF Remainder
  <2>3. RemClass(rem) = IF rem % 16 < 5 THEN "BELOW" ELSE IF rem % 16 = 5 THEN "TIE" ELSE "ABOVE"
    BY <2>2 DEF RemClass
  <2> QED
    BY <1>5, <2>1, <2>2, <2>3 DEF RoundsUp, NearestAction, Odd
<1> QED
  BY <1>1, <1>3, <1>4, <1>5

\* fpfd32_impl_round on a number whose remainder is honest: the number moves
\* by one unit exactly when the reference says so, and the ternary value is
\* zero for an exact result and otherwise has the sign of (exact - result).
\* RNDNA is excepted: see RndnaTruncates.
THEOREM RoundIsCorrect ==
  ASSUME NEW x \in Impl, x.special = "NUMBER", NEW rem \in Remainder,
         NEW rnd \in Rnd \ {"RNDNA"}
  PROVE  LET pos == RemClass(rem)
             up  == RoundsUp(rnd, x.sign, pos, x.mant)
             res == Round(x, rem, rnd)
         IN  /\ res.x = IF up THEN Inc(x) ELSE x
             /\ res.tern = IF pos = "EXACT" THEN 0 ELSE IF up THEN -x.sign ELSE x.sign
<1> DEFINE act == RoundAction(x, rem, rnd)
           up  == RoundsUp(rnd, x.sign, RemClass(rem), x.mant)
<1>1. SignOfZero(x, rnd) = x
  BY DEF SignOfZero
<1>2. /\ (act = "RMSIGN" \/ (act = "RMSIGNO" /\ Odd(x))) <=> up
      /\ act = "RZERO" <=> RemClass(rem) = "EXACT"
  BY ActionRoundsUp
<1> HIDE DEF up
<1>3. Round(x, rem, rnd).x = IF up THEN Inc(x) ELSE x
  BY <1>1, <1>2 DEF Round
<1>4. Round(x, rem, rnd).tern = IF RemClass(rem) = "EXACT" THEN 0 ELSE IF up THEN -x.sign ELSE x.sign
  BY <1>1, <1>2 DEF Round
<1> QED
  BY <1>3, <1>4 DEF up

\* The missing break of round.c:149-158: on every remainder of a truncation
\* the mode "nearest, ties away" rounds as the mode "toward zero".
THEOREM RndnaTruncates ==
  ASSUME NEW x \in Impl, x.special = "NUMBER", NEW rem \in Remainder
  PROVE  Round(x, rem, "RNDNA") = Round(x, rem, "RNDZ")
<1>1. rem # TotalOverflow /\ rem # TotalUnderflow
  BY DigitNotTotal
<1>2. RoundAction(x, rem, "RNDNA") = RoundAction(x, rem, "RNDZ")
  BY <1>1 DEF RoundAction, NearestAction
<1>3. SignOfZero(x, "RNDNA") = SignOfZero(x, "RNDZ")
  BY DEF SignOfZero
<1> QED
  BY <1>2, <1>3 DEF Round

\* impl_inc adds one unit: a carry out of the last digit costs no digit, and
\* only the largest number of the format becomes infinite.
THEOREM IncIsOneUnit ==
  ASSUME NEW x \in Impl, x.special = "NUMBER", x.mant \in 0..MaxMant, x.exp <= EMax
  PROVE  LET y == Inc(x)
         IN  \/ /\ y.special = "NUMBER" /\ y.mant \in 0..MaxMant /\ y.exp <= EMax
                /\ \/ y.exp = x.exp /\ y.mant = x.mant + 1
                   \/ y.exp = x.exp + 1 /\ 10 * y.mant = x.mant + 1
             \/ y.special = "INF" /\ x.mant = MaxMant /\ x.exp = EMax
<1>1. /\ P \in 1..MaxShift /\ P-1 \in 0..MaxShift /\ EMax \in Int
      /\ Pow10[P] = 10 * Pow10[P-1] /\ Pow10[P-1] \in Nat
  BY DecimalAssumption
<1>2. x.exp \in Int /\ x.mant \in Nat /\ x = [mant |-> x.mant, exp |-> x.exp, sign |-> x.sign, special |-> x.special]
  BY DEF Impl
<1>3. CASE x.mant + 1 # Pow10[P]
  BY <1>1, <1>2, <1>3 DEF Inc, MaxMant, Impl
<1>4. CASE x.mant + 1 = Pow10[P] /\ x.exp >= EMax
  BY <1>1, <1>2, <1>4 DEF Inc, MaxMant, Impl
<1>5. CASE x.mant + 1 = Pow10[P] /\ ~(x.exp >= EMax)
  <2>1. Inc(x) = [x EXCEPT !.exp = @ + 1, !.mant = Pow10[P-1]]
    BY <1>5 DEF Inc
  <2>2. Inc(x).exp = x.exp + 1 /\ Inc(x).mant = Pow10[P-1] /\ Inc(x).special = "NUMBER"
    BY <1>2, <2>1
  <2>3. Pow10[P-1] \in 0..MaxMant
    BY <1>1, <1>2, <1>5 DEF MaxMant
  <2> QED
    BY <1>1, <1>2, <1>5, <2>2, <2>3
<1> QED
  BY <1>3, <1>4, <1>5

-----------------------------------------------------------------------------
(* A number with an honest remainder is rounded like the exact value        *)

\* A product of powers is below another only if its exponent is.
LEMMA PowersOrdered ==
  ASSUME NEW a \in Nat, NEW b \in Nat, NEW c \in Nat, NEW e \in Nat, NEW d \in Nat,
         a + b <= MaxShift, c + e <= MaxShift,
         (Pow10[a] * Pow10[b]) * d < (Pow10[c] * Pow10[e]) * d
  PROVE  a + b < c + e
<1>1. Pow10[a + b] = Pow10[a] * Pow10[b] /\ Pow10[c + e] = Pow10[c] * Pow10[e]
  BY PowerSum
<1>2. a + b \in 0..MaxShift /\ c + e \in 0..MaxShift
  BY DecimalAssumption
<1>3. Pow10[a + b] \in Nat /\ Pow10[c + e] \in Nat
  BY <1>2, PowerType
<1>4. Pow10[a + b] < Pow10[c + e]
  <2> DEFINE u == Pow10[a + b]
             w == Pow10[c + e]
  <2>1. u \in Nat /\ w \in Nat /\ u * d < w * d
    BY <1>1, <1>3
  <2> HIDE DEF u, w
  <2>2. ~(w <= u)
    BY <2>1, TimesMonotonic
  <2> QED
    BY <2>1, <2>2 DEF u, w
<1> QED
  BY <1>2, <1>4, PowerOrder

LEMMA TableIndex ==
  ASSUME NEW a \in Nat, NEW b \in Nat, a + b <= MaxShift
  PROVE  a \in 0..MaxShift /\ b \in 0..MaxShift
BY DecimalAssumption

\* n/d units of 10^i lie below p digits of units of 10^j, so their own digits do.
LEMMA DigitsFromAbove ==
  ASSUME NEW n \in Nat, NEW d \in Nat, NEW m \in Nat, NEW k \in Nat, NEW i \in Nat,
         NEW p \in Nat, NEW j \in Nat, k + i <= MaxShift, p + j <= MaxShift,
         Pow10[k] * d <= n, n * Pow10[i] < (m + 1) * (d * Pow10[j]), m + 1 <= Pow10[p]
  PROVE  k + i < p + j
<1> DEFINE pk == Pow10[k]
           pi == Pow10[i]
           pp == Pow10[p]
           pj == Pow10[j]
<1>1. pk \in Nat /\ pi \in Nat /\ pp \in Nat /\ pj \in Nat
  <2>1. k \in 0..MaxShift /\ i \in 0..MaxShift /\ p \in 0..MaxShift /\ j \in 0..MaxShift
    BY TableIndex
  <2> QED
    BY <2>1, PowerType
<1>2. pk * d <= n /\ n * pi < (m + 1) * (d * pj) /\ m + 1 <= pp
  OBVIOUS
<1> HIDE DEF pk, pi, pp, pj
<1> DEFINE x == pk * d
           y == d * pj
           w == m + 1
<1>3. x \in Nat /\ y \in Nat /\ w \in Nat
  BY <1>1
<1>4. x * pi <= n * pi
  <2> HIDE DEF x
  <2> QED
    BY <1>1, <1>2, <1>3, TimesMonotonic DEF x
<1>5. w * y <= pp * y
  <2> HIDE DEF w, y
  <2> QED
    BY <1>1, <1>2, <1>3, TimesMonotonic DEF w
<1>6. x * pi = (pk * pi) * d /\ pp * y = (pp * pj) * d
  BY <1>1
<1>7. (pk * pi) * d < (pp * pj) * d
  <2>1. n * pi < w * y
    BY <1>2
  <2>2. x * pi \in Nat /\ n * pi \in Nat /\ w * y \in Nat /\ pp * y \in Nat
    BY <1>1, <1>3
  <2> HIDE DEF x, y, w
  <2>3. x * pi < pp * y
    BY <1>4, <1>5, <2>1, <2>2
  <2> QED
    BY <1>6, <2>3
<1> QED
  BY <1>7, PowersOrdered DEF pk, pi, pp, pj

\* n/d units of 10^i hold p digits of units of 10^j, so they have as many.
LEMMA DigitsFromBelow ==
  ASSUME NEW n \in Nat, NEW d \in Nat, NEW m \in Nat, NEW k \in Nat, NEW i \in Nat,
         NEW p \in Nat, NEW j \in Nat, k + i <= MaxShift, p + j <= MaxShift,
         n < Pow10[k] * d, m * (d * Pow10[j]) <= n * Pow10[i], Pow10[p] <= m
  PROVE  p + j < k + i
<1> DEFINE pk == Pow10[k]
           pi == Pow10[i]
           pp == Pow10[p]
           pj == Pow10[j]
<1>1. pk \in Nat /\ pi \in Nat \ {0} /\ pp \in Nat /\ pj \in Nat
  <2>1. k \in 0..MaxShift /\ i \in 0..MaxShift /\ p \in 0..MaxShift /\ j \in 0..MaxShift
    BY TableIndex
  <2> QED
    BY <2>1, PowerType
<1>2. n < pk * d /\ m * (d * pj) <= n * pi /\ pp <= m
  OBVIOUS
<1> HIDE DEF pk, pi, pp, pj
<1> DEFINE x == pk * d
           y == d * pj
<1>3. x \in Nat /\ y \in Nat
  BY <1>1
<1>4. n * pi < x * pi
  <2> HIDE DEF x
  <2>1. n < x
    BY <1>2 DEF x
  <2>2. (n + 1) * pi <= x * pi /\ (n + 1) * pi = n * pi + pi
    BY <1>1, <1>3, <2>1, TimesMonotonic
  <2>3. n * pi \in Nat /\ x * pi \in Nat
    BY <1>1, <1>3
  <2> QED
    BY <1>1, <2>2, <2>3
<1>5. pp * y <= m * y
  <2> HIDE DEF y
  <2> QED
    BY <1>1, <1>2, <1>3, TimesMonotonic
<1>6. x * pi = (pk * pi) * d /\ pp * y = (pp * pj) * d
  BY <1>1
<1>7. (pp * pj) * d < (pk * pi) * d
  <2>1. m * y <= n * pi
    BY <1>2
  <2>2. x * pi \in Nat /\ n * pi \in Nat /\ m * y \in Nat /\ pp * y \in Nat
    BY <1>1, <1>3
  <2> HIDE DEF x, y
  <2>3. pp * y < x * pi
    BY <1>4, <1>5, <2>1, <2>2
  <2> QED
    BY <1>6, <2>3
<1> QED
  BY <1>7, PowersOrdered DEF pk, pi, pp, pj

\* A nonzero exact value that the table of powers can bring to every exponent
\* of the format.
Measurable(v) ==
  /\ v.sign \in Sign /\ v.n \in Nat /\ v.d \in Nat \ {0} /\ v.e \in Int
  /\ v.n \div v.d # 0 /\ v.n \div v.d < Pow10[MaxShift]
  /\ Digits(v.n \div v.d) + MaxOf(v.e - EMin, 0) <= MaxShift
  /\ P + MaxOf(EMax - v.e, 0) <= MaxShift

\* Scaling found the exponent and the mantissa that the reference truncates to.
LEMMA ScaledIsReference ==
  ASSUME NEW v, Measurable(v), NEW m, NEW e, Canonical(m, e), Position(v, m, e) # "OUT"
  PROVE  /\ MaxOf(EMin, v.e + Digits(v.n \div v.d) - P) = e
         /\ NumAt(v, e) \div DenAt(v, e) = m
<1> DEFINE n == v.n
           d == v.d
           k == Digits(v.n \div v.d)
           i == MaxOf(v.e - e, 0)
           j == MaxOf(e - v.e, 0)
<1>1. /\ n \in Nat /\ d \in Nat \ {0} /\ v.e \in Int /\ EMin \in Int /\ EMax \in Int
      /\ e \in Int /\ EMin <= e /\ e <= EMax /\ P \in Nat \ {0} /\ MaxShift \in Nat
      /\ Pow10[P] \in Nat /\ m \in Nat /\ m + 1 <= Pow10[P] /\ P < MaxShift
  <2>1. P \in 0..MaxShift
    BY DecimalAssumption
  <2>2. Pow10[P] \in Nat
    BY <2>1, PowerType
  <2> QED
    BY <2>2, DecimalAssumption DEF Measurable, Canonical, MaxMant
<1>2. /\ n \div d \in Nat /\ n \div d # 0 /\ n \div d < Pow10[MaxShift]
      /\ ((n \div d) * d) + (n % d) = n /\ n % d \in 0..(d - 1)
  BY <1>1, DivMod DEF Measurable
<1>3. IsDigits(k, n \div d)
  BY <1>2, DigitsMeaning
<1>4. k \in 1..MaxShift /\ n \div d < Pow10[k] /\ Pow10[k-1] <= n \div d
  <2>1. k = 1 => Pow10[k-1] = 1
    BY DecimalAssumption
  <2> QED
    BY <1>2, <1>3, <2>1 DEF IsDigits
<1>5. k \in Nat /\ k - 1 \in Nat /\ Pow10[k] \in Nat /\ Pow10[k-1] \in Nat
  <2>1. k \in 0..MaxShift /\ k - 1 \in 0..MaxShift
    BY <1>1, <1>4
  <2> QED
    BY <2>1, PowerType
<1>6. Pow10[k-1] * d <= n /\ n < Pow10[k] * d
  <2> DEFINE q == n \div d
             r == n % d
             p1 == Pow10[k-1]
             p2 == Pow10[k]
  <2>1. q \in Nat /\ r \in 0..(d-1) /\ (q * d) + r = n /\ p1 <= q /\ q + 1 <= p2 /\ p1 \in Nat /\ p2 \in Nat
    BY <1>1, <1>2, <1>4, <1>5
  <2> HIDE DEF q, r, p1, p2, d
  <2>2. p1 * d <= q * d /\ (q + 1) * d <= p2 * d
    BY <1>1, <2>1, TimesMonotonic
  <2>3. (q + 1) * d = q * d + d /\ q * d \in Nat /\ p1 * d \in Nat /\ p2 * d \in Nat
    BY <1>1, <2>1
  <2>4. p1 * d <= n /\ n < p2 * d
    BY <1>1, <2>1, <2>2, <2>3
  <2> QED
    BY <2>4 DEF p1, p2
<1>7. /\ i \in Nat /\ j \in Nat /\ i - j = v.e - e /\ k + i <= MaxShift /\ P + j <= MaxShift
      /\ (k - 1) + i <= MaxShift /\ (P - 1) + j <= MaxShift /\ P - 1 \in Nat
  <2>1. k + MaxOf(v.e - EMin, 0) <= MaxShift /\ P + MaxOf(EMax - v.e, 0) <= MaxShift
    BY DEF Measurable
  <2> QED
    BY <1>1, <1>5, <2>1 DEF MaxOf
<1>8. Pow10[i] \in Nat \ {0} /\ Pow10[j] \in Nat \ {0}
  <2>1. i \in 0..MaxShift /\ j \in 0..MaxShift
    BY <1>1, <1>5, <1>7
  <2> QED
    BY <2>1, PowerType
<1>9. NumAt(v, e) = n * Pow10[i] /\ DenAt(v, e) = d * Pow10[j]
  BY DEF NumAt, DenAt
<1>10. NumAt(v, e) \in Nat /\ DenAt(v, e) \in Nat \ {0}
  BY <1>1, <1>8, <1>9
<1>11. /\ m * DenAt(v, e) <= NumAt(v, e)
       /\ NumAt(v, e) < (m + 1) * DenAt(v, e)
       /\ NumAt(v, e) - m * DenAt(v, e) \in 0..(DenAt(v, e) - 1)
  <2> DEFINE N == NumAt(v, e)
             den == DenAt(v, e)
  <2>1. Position(v, m, e) = Fraction(N - m * den, den)
    BY DEF Position, Fraction
  <2> HIDE DEF N, den
  <2>2. N \in Nat /\ den \in Nat \ {0} /\ m * den \in Nat /\ (m + 1) * den = m * den + den
    BY <1>1, <1>10 DEF N, den
  <2> DEFINE f == N - m * den
  <2>3. f \in Int /\ Fraction(f, den) # "OUT"
    BY <2>1, <2>2
  <2>4. ~(f < 0 \/ f >= den)
    <3> HIDE DEF f
    <3> QED
      BY <2>2, <2>3, FractionMeaning
  <2>5. m * den <= N /\ N < (m + 1) * den /\ N - m * den \in 0..(den - 1)
    BY <2>2, <2>4
  <2> QED
    BY <2>5 DEF N, den
<1>12. (k - 1) + i < P + j
  <2>1. n * Pow10[i] < (m + 1) * (d * Pow10[j])
    BY <1>9, <1>11
  <2> QED
    BY <1>1, <1>5, <1>6, <1>7, <2>1, DigitsFromAbove
<1>13. m >= Pow10[P-1] => (P - 1) + j < k + i
  <2> SUFFICES ASSUME m >= Pow10[P-1] PROVE (P - 1) + j < k + i
    OBVIOUS
  <2>1. m * (d * Pow10[j]) <= n * Pow10[i]
    BY <1>9, <1>11
  <2>2. P - 1 \in 0..MaxShift
    BY <1>1, <1>7
  <2>3. Pow10[P-1] <= m
    BY <1>1, <2>2, PowerType
  <2> QED
    BY <1>1, <1>5, <1>6, <1>7, <2>1, <2>3, DigitsFromBelow
<1>14. ~(m >= Pow10[P-1]) => (k - 1) + i < (P - 1) + j
  <2> SUFFICES ASSUME ~(m >= Pow10[P-1]) PROVE (k - 1) + i < (P - 1) + j
    OBVIOUS
  <2>1. n * Pow10[i] < (m + 1) * (d * Pow10[j])
    BY <1>9, <1>11
  <2>2. P - 1 \in 0..MaxShift
    BY <1>1, <1>7
  <2>3. m + 1 <= Pow10[P-1]
    BY <1>1, <2>2, PowerType
  <2> QED
    BY <1>1, <1>5, <1>6, <1>7, <2>1, <2>3, DigitsFromAbove
<1>15. MaxOf(EMin, v.e + k - P) = e
  <2> HIDE DEF k, i, j
  <2>1. CASE m >= Pow10[P-1]
    <3>1. v.e + k - P = e
      BY <1>1, <1>5, <1>7, <1>12, <1>13, <2>1
    <3> QED
      BY <1>1, <3>1 DEF MaxOf
  <2>2. CASE ~(m >= Pow10[P-1])
    <3>1. e = EMin /\ v.e + k - P < EMin
      BY <1>1, <1>5, <1>7, <1>14, <2>2 DEF Canonical
    <3> QED
      BY <1>1, <1>5, <3>1 DEF MaxOf
  <2> QED
    BY <2>1, <2>2
<1>16. NumAt(v, e) \div DenAt(v, e) = m
  <2> DEFINE N == NumAt(v, e)
             den == DenAt(v, e)
             r == N - m * den
  <2>1. N \in Nat /\ den \in Nat \ {0} /\ r \in 0..(den - 1)
    BY <1>10, <1>11
  <2>2. N = m * den + r
    <3> HIDE DEF N, den
    <3>1. m * den \in Int
      BY <1>1, <2>1
    <3> QED
      BY <2>1, <3>1
  <2> HIDE DEF N, den, r
  <2>3. N \in Nat /\ den \in Nat \ {0} /\ m \in Int /\ r \in 0..(den - 1) /\ N = m * den + r
    BY <1>1, <2>1, <2>2
  <2>4. N \div den = m /\ N % den = r
    BY <2>3, DivModUnique
  <2> QED
    BY <2>4 DEF N, den
<1> QED
  BY <1>15, <1>16

\* res, a result of Round, is the exact value v rounded as the reference rounds it.
RoundsAs(v, rnd, res) ==
  LET r == Rounded(v, rnd)
  IN  /\ res.x.sign = r.sign
      /\ res.x.special = IF r.inf THEN "INF" ELSE "NUMBER"
      /\ ~r.inf => res.x.mant = r.mant /\ res.x.exp = r.exp
      /\ res.tern = -r.order
      /\ res.flags = {"UNDERFLOW"} \cup (IF r.past THEN {"OVERFLOW"}
                                         ELSE IF res.tern = 0 THEN {} ELSE {"INEXACT"})

\* Only the low four bits of an honest remainder matter.
LEMMA RoundByDigit ==
  ASSUME NEW x \in Impl, x.special = "NUMBER", NEW rem \in Nat, RemClass(rem) # "OUT", NEW rnd
  PROVE  /\ rem % 16 \in 0..9 /\ RemClass(rem % 16) = RemClass(rem)
         /\ RemClass(rem) = "EXACT" <=> rem % 16 = 0
         /\ RemClass(rem) \in {"EXACT", "BELOW"} <=> rem % 16 \in 0..4
         /\ Round(x, rem, rnd).x = Round(x, rem % 16, rnd).x
         /\ Round(x, rem, rnd).tern = Round(x, rem % 16, rnd).tern
         /\ Round(x, rem, rnd).flags = {"UNDERFLOW"} \cup (IF rem % 16 = 0 THEN {} ELSE {"INEXACT"})
<1> DEFINE r == rem % 16
<1>1. r \in 0..15
  OBVIOUS
<1>2. r \in 0..9
  BY <1>1 DEF RemClass
<1>3. r % 16 = r
  BY <1>2
<1>4. rem # 10 /\ rem # 26 /\ r # 10 /\ r # 26
  <2>1. 10 % 16 = 10 /\ 26 % 16 = 10
    OBVIOUS
  <2> QED
    BY <1>2, <2>1
<1>5. rem % 16 = r
  OBVIOUS
<1> HIDE DEF r
<1>6. RemClass(r) = RemClass(rem)
  BY <1>3, <1>5 DEF RemClass
<1>7. /\ RemClass(rem) = "EXACT" <=> r = 0
      /\ RemClass(rem) \in {"EXACT", "BELOW"} <=> r \in 0..4
  BY <1>2, <1>5 DEF RemClass
<1>8. RoundAction(x, rem, rnd) = RoundAction(x, r, rnd)
  BY <1>3, <1>4, <1>5 DEF RoundAction, TotalOverflow, TotalUnderflow
<1>9. /\ Round(x, rem, rnd).x = Round(x, r, rnd).x
      /\ Round(x, rem, rnd).tern = Round(x, r, rnd).tern
  BY <1>8 DEF Round
<1>10. RoundFlags(x, rem) = {"UNDERFLOW"} \cup (IF r = 0 THEN {} ELSE {"INEXACT"})
  BY <1>2, <1>4, <1>5 DEF RoundFlags, TotalOverflow, TotalUnderflow
<1>11. Round(x, rem, rnd).flags = {"UNDERFLOW"} \cup (IF r = 0 THEN {} ELSE {"INEXACT"})
  BY <1>10 DEF Round
<1> QED
  BY <1>2, <1>6, <1>7, <1>9, <1>11 DEF r

\* The increment, in the terms of the reference.
LEMMA IncIsCarry ==
  ASSUME NEW x \in Impl, x.special = "NUMBER", Canonical(x.mant, x.exp)
  PROVE  LET carry == x.mant + 1 = Pow10[P]
         IN  /\ Inc(x).sign = x.sign
             /\ Inc(x).special = IF carry /\ x.exp = EMax THEN "INF" ELSE "NUMBER"
             /\ ~(carry /\ x.exp = EMax) =>
                  /\ Inc(x).mant = IF carry THEN Pow10[P-1] ELSE x.mant + 1
                  /\ Inc(x).exp = IF carry THEN x.exp + 1 ELSE x.exp
<1>1. x.exp \in EMin..EMax /\ EMin \in Int /\ EMax \in Int
  BY DecimalAssumption DEF Canonical
<1>2. x = [mant |-> x.mant, exp |-> x.exp, sign |-> x.sign, special |-> x.special]
  BY DEF Impl
<1>3. CASE x.mant + 1 # Pow10[P]
  <2>1. Inc(x) = [mant |-> x.mant + 1, exp |-> x.exp, sign |-> x.sign, special |-> x.special]
    BY <1>2, <1>3 DEF Inc
  <2> QED
    BY <1>3, <2>1
<1>4. CASE x.mant + 1 = Pow10[P] /\ x.exp = EMax
  <2>1. Inc(x) = [mant |-> x.mant, exp |-> x.exp, sign |-> x.sign, special |-> "INF"]
    BY <1>1, <1>2, <1>4 DEF Inc
  <2> QED
    BY <1>4, <2>1
<1>5. CASE x.mant + 1 = Pow10[P] /\ x.exp # EMax
  <2>1. ~(x.exp >= EMax)
    BY <1>1, <1>5
  <2>2. Inc(x) = [mant |-> Pow10[P-1], exp |-> x.exp + 1, sign |-> x.sign, special |-> x.special]
    BY <1>2, <1>5, <2>1 DEF Inc
  <2> QED
    BY <1>5, <2>2
<1> QED
  BY <1>3, <1>4, <1>5

\* fpfd_round rounds every exact value as IEEE 754-2008 says, when the number it
\* gets is that value truncated and the remainder is honest.  The exception is
\* RNDNA on a digit of five or more, which the missing break truncates.
THEOREM RoundIsRounded ==
  ASSUME NEW v, Measurable(v), NEW x \in Impl, x.special = "NUMBER", x.sign = v.sign,
         Canonical(x.mant, x.exp), NEW rem \in Nat, RemClass(rem) # "OUT",
         Position(v, x.mant, x.exp) = RemClass(rem),
         NEW rnd \in Rnd, ~(rnd = "RNDNA" /\ rem % 16 \in 5..9)
  PROVE  RoundsAs(v, rnd, Round(x, rem, rnd)) /\ ~Rounded(v, rnd).past
<1> DEFINE res == Round(x, rem, rnd)
           pos == RemClass(rem)
           up == RoundsUp(rnd, x.sign, pos, x.mant)
           r == Rounded(v, rnd)
           carry == x.mant + 1 = Pow10[P]
<1>1. /\ MaxOf(EMin, v.e + Digits(v.n \div v.d) - P) = x.exp
      /\ NumAt(v, x.exp) \div DenAt(v, x.exp) = x.mant
  BY ScaledIsReference
<1>2. x.exp \in Int /\ EMax \in Int /\ x.exp <= EMax /\ x.sign \in {-1, 1} /\ x.mant \in Nat
  BY DecimalAssumption DEF Canonical, Impl, Sign
<1>3. r = [inf  |-> (up /\ carry) /\ x.exp = EMax,
           mant |-> IF up /\ carry THEN Pow10[P-1] ELSE IF up THEN x.mant + 1 ELSE x.mant,
           exp  |-> IF up /\ carry THEN x.exp + 1 ELSE x.exp,
           sign |-> x.sign,
           order |-> IF pos = "EXACT" THEN 0 ELSE IF up THEN x.sign ELSE -x.sign,
           past |-> FALSE]
  <2>1. ~(x.exp > EMax)
    BY <1>2
  <2> QED
    BY <1>1, <2>1 DEF Rounded
<1>4. /\ rem % 16 \in 0..9 /\ RemClass(rem % 16) = pos
      /\ pos = "EXACT" <=> rem % 16 = 0
      /\ pos \in {"EXACT", "BELOW"} <=> rem % 16 \in 0..4
      /\ res.x = Round(x, rem % 16, rnd).x
      /\ res.tern = Round(x, rem % 16, rnd).tern
      /\ res.flags = {"UNDERFLOW"} \cup (IF rem % 16 = 0 THEN {} ELSE {"INEXACT"})
  BY RoundByDigit
<1>5. /\ res.x = IF up THEN Inc(x) ELSE x
      /\ res.tern = IF pos = "EXACT" THEN 0 ELSE IF up THEN -x.sign ELSE x.sign
  <2> DEFINE g == rem % 16
  <2>1. g \in Remainder
    BY <1>4 DEF Remainder
  <2>2. CASE rnd # "RNDNA"
    <3>1. rnd \in Rnd \ {"RNDNA"}
      BY <2>2
    <3> HIDE DEF g
    <3>2. /\ Round(x, g, rnd).x = IF RoundsUp(rnd, x.sign, RemClass(g), x.mant) THEN Inc(x) ELSE x
          /\ Round(x, g, rnd).tern = IF RemClass(g) = "EXACT" THEN 0
                                     ELSE IF RoundsUp(rnd, x.sign, RemClass(g), x.mant)
                                          THEN -x.sign ELSE x.sign
      BY <2>1, <3>1, RoundIsCorrect
    <3> QED
      BY <1>4, <3>2 DEF g
  <2>3. CASE rnd = "RNDNA"
    <3>1. "RNDZ" \in Rnd \ {"RNDNA"}
      BY DEF Rnd
    <3>2. pos \in {"EXACT", "BELOW"}
      BY <1>4, <2>3
    <3>3. ~up /\ ~RoundsUp("RNDZ", x.sign, pos, x.mant)
      BY <2>3, <3>2 DEF RoundsUp
    <3> HIDE DEF g
    <3>4. Round(x, g, rnd) = Round(x, g, "RNDZ")
      BY <2>1, <2>3, RndnaTruncates
    <3>5. /\ Round(x, g, "RNDZ").x = IF RoundsUp("RNDZ", x.sign, RemClass(g), x.mant) THEN Inc(x) ELSE x
          /\ Round(x, g, "RNDZ").tern = IF RemClass(g) = "EXACT" THEN 0
                                        ELSE IF RoundsUp("RNDZ", x.sign, RemClass(g), x.mant)
                                             THEN -x.sign ELSE x.sign
      BY <2>1, <3>1, RoundIsCorrect
    <3> QED
      BY <1>4, <3>3, <3>4, <3>5 DEF g
  <2> QED
    BY <2>2, <2>3
<1>6. up => pos # "EXACT"
  BY DEF RoundsUp
<1>7. /\ Inc(x).sign = x.sign
      /\ Inc(x).special = IF carry /\ x.exp = EMax THEN "INF" ELSE "NUMBER"
      /\ ~(carry /\ x.exp = EMax) =>
           /\ Inc(x).mant = IF carry THEN Pow10[P-1] ELSE x.mant + 1
           /\ Inc(x).exp = IF carry THEN x.exp + 1 ELSE x.exp
  BY IncIsCarry
<1> HIDE DEF res, pos, up, r, carry
<1>8. ~r.past /\ r.sign = x.sign /\ (r.inf <=> up /\ carry /\ x.exp = EMax)
  BY <1>3
<1>9. res.x.sign = r.sign /\ res.x.special = IF r.inf THEN "INF" ELSE "NUMBER"
  BY <1>5, <1>7, <1>8
<1>10. ~r.inf => res.x.mant = r.mant /\ res.x.exp = r.exp
  <2>1. CASE up
    BY <1>3, <1>5, <1>7, <1>8, <2>1
  <2>2. CASE ~up
    BY <1>3, <1>5, <2>2
  <2> QED
    BY <2>1, <2>2
<1>11. res.tern = -r.order /\ (res.tern = 0 <=> pos = "EXACT")
  BY <1>2, <1>3, <1>5
<1>12. res.flags = {"UNDERFLOW"} \cup (IF res.tern = 0 THEN {} ELSE {"INEXACT"})
  BY <1>4, <1>11
<1> QED
  BY <1>8, <1>9, <1>10, <1>11, <1>12 DEF RoundsAs, res, r

\* The largest number with the remainder 10 stands for a value that is too large
\* for the format, and fpfd_round makes of it what IEEE 754-2008 does.
THEOREM OverflowIsRounded ==
  ASSUME NEW v, v.sign \in Sign, Rounded(v, "RNDZ").past,
         NEW x \in Impl, x.special = "NUMBER", x.sign = v.sign, x.mant = MaxMant, x.exp = EMax,
         NEW rnd \in Rnd
  PROVE  RoundsAs(v, rnd, Round(x, TotalOverflow, rnd)) /\ Rounded(v, rnd).past
<1> DEFINE res == Round(x, TotalOverflow, rnd)
           r == Rounded(v, rnd)
           away == \/ rnd \in {"RNDN", "RNDNA"}
                   \/ rnd = "RNDU" /\ v.sign = 1
                   \/ rnd = "RNDD" /\ v.sign = -1
<1>1. /\ Pow10[P] \in Nat /\ MaxMant + 1 = Pow10[P] /\ EMax \in Int /\ EMin \in Int /\ EMin < EMax
      /\ x.sign \in {-1, 1}
  <2>1. P \in 0..MaxShift
    BY DecimalAssumption
  <2>2. Pow10[P] \in Nat
    BY <2>1, PowerType
  <2> QED
    BY <2>2, DecimalAssumption DEF MaxMant, Impl, Sign
<1>2. MaxOf(EMin, v.e + Digits(v.n \div v.d) - P) > EMax
  BY DEF Rounded
<1>3. r = [inf |-> away, mant |-> MaxMant, exp |-> EMax, sign |-> v.sign,
           order |-> IF away THEN v.sign ELSE -v.sign, past |-> TRUE]
  BY <1>2 DEF Rounded
<1>4. Inc(x) = [x EXCEPT !.special = "INF"]
  BY <1>1 DEF Inc
<1>5. Inc(x).special = "INF" /\ Inc(x).sign = x.sign
  BY <1>4 DEF Impl
<1>6. RoundAction(x, TotalOverflow, rnd) = IF away THEN "RMSIGN" ELSE "RSIGN"
  <2>1. TotalOverflow % 16 = 10 /\ TotalOverflow # TotalUnderflow
    BY DEF TotalOverflow, TotalUnderflow
  <2>2. RoundAction(x, TotalOverflow, rnd) =
          IF rnd \in {"RNDN", "RNDNA"} THEN "RMSIGN" ELSE DirectedAction(rnd, x.sign)
    BY <2>1 DEF RoundAction
  <2>3. AwayFromZero(rnd, x.sign) <=> (rnd = "RNDU" /\ x.sign = 1) \/ (rnd = "RNDD" /\ x.sign = -1)
    BY <1>1 DEF AwayFromZero
  <2> QED
    BY <2>2, <2>3 DEF DirectedAction
<1>7. SignOfZero(x, rnd) = x
  BY DEF SignOfZero
<1>8. RoundFlags(x, TotalOverflow) = {"UNDERFLOW", "OVERFLOW"}
  BY DEF RoundFlags, TotalOverflow, TotalUnderflow
<1> HIDE DEF away
<1>9. res = [x |-> IF away THEN Inc(x) ELSE x, tern |-> IF away THEN -x.sign ELSE x.sign,
             flags |-> {"UNDERFLOW", "OVERFLOW"}]
  BY <1>6, <1>7, <1>8 DEF Round
<1>10. res.tern = -r.order
  BY <1>1, <1>3, <1>9
<1> HIDE DEF res, r
<1>11. /\ res.x.sign = r.sign
       /\ res.x.special = IF r.inf THEN "INF" ELSE "NUMBER"
       /\ ~r.inf => res.x.mant = r.mant /\ res.x.exp = r.exp
       /\ res.flags = {"UNDERFLOW"} \cup {"OVERFLOW"} /\ r.past
  BY <1>3, <1>5, <1>9
<1> QED
  BY <1>10, <1>11 DEF RoundsAs, res, r

\* Two representations of a number that differ by trailing zeros.
LEMMA SameNumber ==
  ASSUME NEW m \in Nat \ {0}, NEW e \in Int, NEW z \in 0..P
  PROVE  SameMagnitude(m, e, m * Pow10[z], e - z)
<1> DEFINE w == m * Pow10[z]
<1>1. z \in Nat /\ z \in 0..MaxShift /\ P \in Nat
  BY DecimalAssumption
<1>2. Pow10[z] \in Nat \ {0} /\ Pow10[0] = 1
  BY <1>1, PowerType, DecimalAssumption
<1>3. w \in Nat \ {0}
  BY <1>2
<1>4. e - (e - z) = z /\ (e - z) - e = -z /\ z \in -P..P
  BY <1>1
<1>5. MaxOf(z, 0) = z /\ MaxOf(-z, 0) = 0
  BY <1>1 DEF MaxOf
<1>6. w * Pow10[0] = w
  BY <1>2, <1>3
<1> HIDE DEF w
<1>7. w = m * Pow10[z]
  BY DEF w
<1>8. SameMagnitude(m, e, w, e - z)
  BY <1>3, <1>4, <1>5, <1>6, <1>7 DEF SameMagnitude
<1> QED
  BY <1>8 DEF w

\* v is the number m * 10^e, written with an exponent that is not larger.
Denotes(v, m, e) ==
  /\ m \in 1..MaxMant /\ e \in EMin..EMax
  /\ v.sign \in Sign /\ v.d = 1 /\ v.e \in Int /\ v.e <= e
  /\ v.n = m * Pow10[e - v.e]
  /\ P + EMax - v.e <= MaxShift /\ P + EMax - EMin <= MaxShift

\* A number of the format is its own rounding, in another member of its cohort.
LEMMA NumberIsRounded ==
  ASSUME NEW v, NEW m, NEW e, Denotes(v, m, e), NEW rnd
  PROVE  LET r == Rounded(v, rnd)
         IN  /\ ~r.inf /\ ~r.past /\ r.order = 0 /\ r.sign = v.sign
             /\ SameMagnitude(m, e, r.mant, r.exp)
<1> DEFINE k == Digits(m)
           z == MinOf(P - k, e - EMin)
           w == m * Pow10[z]
           f == e - z
           s == e - v.e
<1>1. /\ P \in Nat \ {0} /\ MaxShift \in Nat /\ P < MaxShift /\ EMin \in Int /\ EMax \in Int
      /\ e \in Int /\ EMin <= e /\ e <= EMax /\ v.e \in Int /\ P \in 0..MaxShift
      /\ v.sign \in Sign /\ v.d = 1 /\ v.e <= e
  BY DecimalAssumption DEF Denotes
<1>2. Pow10[P] \in Nat /\ m \in Nat \ {0} /\ m < Pow10[P]
  <2>1. Pow10[P] \in Nat
    BY <1>1, PowerType
  <2>2. m \in 1..(Pow10[P] - 1)
    BY DEF Denotes, MaxMant
  <2> QED
    BY <2>1, <2>2
<1>3. m < Pow10[MaxShift]
  BY <1>1, <1>2, FitsTable
<1>4. IsDigits(k, m)
  BY <1>2, <1>3, DigitsMeaning
<1>5. k \in 1..MaxShift /\ k \in Nat /\ k <= P
  <2>1. k \in 1..MaxShift /\ m < Pow10[k] /\ (k = 1 \/ Pow10[k-1] <= m)
    BY <1>4 DEF IsDigits
  <2>2. k - 1 \in 0..MaxShift
    BY <1>1, <2>1
  <2>3. Pow10[k-1] \in Nat
    BY <2>2, PowerType
  <2>4. k # 1 => Pow10[k-1] < Pow10[P]
    BY <1>2, <2>1, <2>3
  <2>5. k # 1 => k - 1 < P
    BY <1>1, <2>2, <2>4, PowerOrder
  <2> QED
    BY <1>1, <2>1, <2>5
<1>6. /\ z \in 0..P /\ z \in Nat /\ z <= e - EMin /\ k + z <= P /\ (k + z = P \/ f = EMin)
      /\ f \in EMin..EMax /\ f \in Int
  <2> HIDE DEF k
  <2> QED
    BY <1>1, <1>5 DEF MinOf
<1>7. s \in Nat /\ P + s <= MaxShift /\ k + s <= MaxShift
  <2>1. P + EMax - v.e <= MaxShift
    BY DEF Denotes
  <2> HIDE DEF k
  <2> QED
    BY <1>1, <1>5, <2>1
<1> HIDE DEF k, z
<1>8. w \in Nat \ {0} /\ IsDigits(k + z, w)
  <2>1. k + z <= MaxShift
    BY <1>1, <1>5, <1>6
  <2> QED
    BY <1>2, <1>4, <1>6, <2>1, DigitsTimes
<1>9. Canonical(w, f)
  <2>1. w < Pow10[k + z] /\ (k + z) \in 1..MaxShift /\ (k + z = 1 \/ Pow10[(k + z) - 1] <= w)
    BY <1>8 DEF IsDigits
  <2>2. k + z \in 0..MaxShift
    BY <2>1
  <2>3. Pow10[k + z] \in Nat /\ Pow10[k + z] <= Pow10[P]
    BY <1>1, <1>6, <2>2, PowerType, PowerOrder
  <2>4. w \in 0..MaxMant
    BY <1>2, <1>8, <2>1, <2>3 DEF MaxMant
  <2>5. k + z = P => w >= Pow10[P-1]
    <3>1. CASE P = 1
      <4>1. Pow10[P-1] = 1
        BY <3>1, DecimalAssumption
      <4> QED
        BY <1>8, <4>1
    <3>2. CASE P # 1
      <4>1. P - 1 \in 0..MaxShift
        BY <1>1
      <4>2. Pow10[P-1] \in Nat
        BY <4>1, PowerType
      <4>3. k + z = P => Pow10[P-1] <= w
        BY <2>1, <3>2
      <4> QED
        BY <1>8, <4>2, <4>3
    <3> QED
      BY <3>1, <3>2
  <2> QED
    BY <1>6, <2>4, <2>5 DEF Canonical
<1>10. v.n = m * Pow10[s] /\ v.n \in Nat \ {0} /\ IsDigits(k + s, v.n)
  <2>1. v.n = m * Pow10[s]
    BY DEF Denotes
  <2>2. m * Pow10[s] \in Nat \ {0} /\ IsDigits(k + s, m * Pow10[s])
    BY <1>2, <1>4, <1>7, DigitsTimes
  <2> QED
    BY <2>1, <2>2
<1> HIDE DEF w, f
<1>11. Position(v, w, f) = "EXACT"
  <2> DEFINE x == NumAt(v, f)
             y == DenAt(v, f)
  <2>1. x = w * y /\ x \in Nat /\ y \in Nat \ {0}
    <3>1. CASE z <= s
      <4> DEFINE t == s - z
      <4>1. t \in Nat /\ z + t = s /\ f - v.e = t /\ v.e - f = -t /\ t \in 0..MaxShift
        BY <1>1, <1>6, <1>7, <3>1 DEF f
      <4>2. MaxOf(v.e - f, 0) = 0 /\ MaxOf(f - v.e, 0) = t
        BY <4>1 DEF MaxOf
      <4>3. x = v.n * Pow10[0] /\ y = v.d * Pow10[t] /\ Pow10[0] = 1 /\ v.d = 1
        BY <1>1, <4>2, DecimalAssumption DEF NumAt, DenAt
      <4>4. Pow10[t] \in Nat \ {0} /\ Pow10[z] \in Nat \ {0}
        <5>1. z \in 0..MaxShift
          BY <1>1, <1>6
        <5> QED
          BY <4>1, <5>1, PowerType
      <4>5. Pow10[s] = Pow10[z] * Pow10[t]
        <5>1. z + t <= MaxShift
          BY <1>1, <1>7, <4>1
        <5> QED
          BY <1>6, <4>1, <5>1, PowerSum
      <4> HIDE DEF t, x, y
      <4>6. x = v.n /\ y = Pow10[t]
        <5> DEFINE u == Pow10[t]
        <5>1. u \in Nat /\ y = 1 * u
          BY <4>3, <4>4
        <5> HIDE DEF u
        <5>2. y = u
          BY <5>1
        <5> QED
          BY <1>10, <4>3, <5>2 DEF u
      <4>7. v.n = w * Pow10[t]
        <5> DEFINE u == Pow10[t]
                   pz == Pow10[z]
        <5>1. u \in Nat /\ pz \in Nat /\ v.n = m * (pz * u) /\ w = m * pz
          BY <1>10, <4>4, <4>5 DEF w
        <5> HIDE DEF u, pz
        <5>2. v.n = w * u
          BY <1>2, <5>1
        <5> QED
          BY <5>2 DEF u
      <4> QED
        BY <1>10, <4>4, <4>6, <4>7
    <3>2. CASE ~(z <= s)
      <4> DEFINE t == z - s
      <4>1. t \in Nat /\ s + t = z /\ f - v.e = -t /\ v.e - f = t
        BY <1>1, <1>6, <1>7, <3>2 DEF f
      <4>2. MaxOf(v.e - f, 0) = t /\ MaxOf(f - v.e, 0) = 0
        BY <4>1 DEF MaxOf
      <4>3. x = v.n * Pow10[t] /\ y = v.d * Pow10[0] /\ Pow10[0] = 1 /\ v.d = 1
        BY <1>1, <4>2, DecimalAssumption DEF NumAt, DenAt
      <4>4. s + t <= MaxShift
        BY <1>1, <1>6, <4>1
      <4>5. Pow10[z] = Pow10[s] * Pow10[t]
        BY <1>7, <4>1, <4>4, PowerSum
      <4>6. Pow10[t] \in Nat /\ Pow10[s] \in Nat
        <5>1. s \in 0..MaxShift /\ t \in 0..MaxShift
          BY <1>7, <4>1, <4>4, TableIndex
        <5> QED
          BY <5>1, PowerType
      <4> HIDE DEF x, y, t
      <4>7. x = w /\ y = 1
        <5> DEFINE u == Pow10[t]
                   ps == Pow10[s]
        <5>1. u \in Nat /\ ps \in Nat /\ x = (m * ps) * u /\ w = m * (ps * u)
          BY <1>10, <4>3, <4>5, <4>6 DEF w
        <5> HIDE DEF u, ps
        <5>2. x = w
          BY <1>2, <5>1
        <5> QED
          BY <4>3, <5>2
      <4> QED
        BY <1>8, <4>7
    <3> QED
      BY <3>1, <3>2
  <2>2. Position(v, w, f) = Fraction(x - w * y, y)
    BY DEF Position, Fraction
  <2> HIDE DEF x, y
  <2>3. x - w * y = 0
    BY <2>1
  <2>4. Fraction(0, y) = "EXACT"
    BY <2>1, FractionMeaning
  <2> QED
    BY <2>2, <2>3, <2>4
<1>12. Measurable(v)
  <2>1. v.n \div 1 = v.n
    BY <1>10
  <2>2. v.n < Pow10[MaxShift]
    <3>1. k + s \in 0..MaxShift /\ v.n < Pow10[k + s]
      BY <1>10 DEF IsDigits
    <3> QED
      BY <1>10, <3>1, FitsTable
  <2>3. Digits(v.n) = k + s
    BY <1>10, <2>2, DigitsMeaning
  <2>4. P + EMax - v.e <= MaxShift /\ P + EMax - EMin <= MaxShift
    BY DEF Denotes
  <2>5. k + s + MaxOf(v.e - EMin, 0) <= MaxShift /\ P + MaxOf(EMax - v.e, 0) <= MaxShift
    BY <1>1, <1>5, <1>7, <2>4 DEF MaxOf
  <2> QED
    BY <1>1, <1>10, <2>1, <2>2, <2>3, <2>5 DEF Measurable
<1>13. /\ MaxOf(EMin, v.e + Digits(v.n \div v.d) - P) = f
       /\ NumAt(v, f) \div DenAt(v, f) = w
  BY <1>9, <1>11, <1>12, ScaledIsReference
<1>14. ~(f > EMax)
  BY <1>1, <1>6
<1>15. Rounded(v, rnd) = [inf |-> FALSE, mant |-> w, exp |-> f, sign |-> v.sign, order |-> 0, past |-> FALSE]
  <2>1. ~RoundsUp(rnd, v.sign, "EXACT", w)
    BY DEF RoundsUp
  <2> QED
    BY <1>11, <1>13, <1>14, <2>1 DEF Rounded
<1>16. SameMagnitude(m, e, w, f)
  BY <1>1, <1>2, <1>6, SameNumber DEF w, f
<1> QED
  BY <1>15, <1>16
=============================================================================
