---------------------------- MODULE DpdCallProofs ----------------------------
(***************************************************************************)
(* Sums of BCD numbers, for every precision, exponent range and pair of     *)
(* operands: what addsub and scale of libfpfd-dpd return is the exact sum,  *)
(* truncated once, with remainders that tell the truth about it.            *)
(***************************************************************************)
EXTENDS DpdCall, SumCallProofs

-----------------------------------------------------------------------------
(* addsub                                                                  *)

\* y is a register's worth of n thousandths of 10^b, truncated, and rem tells
\* what was cut off: nothing when the number does not reach the left end.
Truncates(y, rem, b, n) ==
  /\ y \in Impl /\ y.special = "NUMBER" /\ y.mant < Pow10[D]
  /\ y.exp \in {b, b + 1} /\ rem \in 0..9
  /\ LET u == Pow10[y.exp - (b - 3)] IN Fraction(n - (y.mant * u), u) = RemClass(rem)
  /\ rem # 0 => Pow10[D - 2] <= y.mant

LEMMA TruncatesPlain ==
  ASSUME Room, NEW m \in Nat, m < Pow10[D], NEW b \in Int, NEW s \in {-1, 1},
         NEW rem \in 0..9, rem # 0 => Pow10[D - 2] <= m,
         NEW n, NEW f \in Int, n = 1000 * m + f, Fraction(f, 1000) = RemClass(rem)
  PROVE  Truncates(Number(m, b, s), rem, b, n)
<1> DEFINE y == Number(m, b, s)
<1>1. y \in Impl /\ y.special = "NUMBER" /\ y.mant = m /\ y.exp = b
  BY DEF Number, Impl, Special, Sign
<1>2. b - (b - 3) = 3 /\ Pow10[3] = 1000
  BY SmallPowers
<1>3. n - (m * 1000) = f
  OBVIOUS
<1> HIDE DEF y
<1>4. Fraction(n - (y.mant * Pow10[y.exp - (b - 3)]), Pow10[y.exp - (b - 3)]) = RemClass(rem)
  BY <1>1, <1>2, <1>3
<1> QED BY <1>1, <1>4 DEF Truncates, y

\* A carry moves the number one place to the right; the digit that falls off
\* stands before the rest.
Carries(w, rest, k, f) ==
  /\ w \in Nat /\ Pow10[D] <= w /\ w < 2 * Pow10[D]
  /\ rest \in Nat /\ k \in Nat /\ k <= D /\ rest < Pow10[k]
  /\ f \in 0..999 /\ Fraction(f, 1000) = Fraction(rest, Pow10[k])

LEMMA TruncatesCarry ==
  ASSUME Room, NEW b \in Int, NEW s \in {-1, 1}, NEW n,
         NEW w, NEW rest, NEW k, NEW f, Carries(w, rest, k, f), n = 1000 * w + f
  PROVE  Truncates(Number(w \div 10, b + 1, s), DroppedDigit((w % 10) * Pow10[k] + rest, k + 1), b, n)
<1>1. /\ P \in Nat /\ P > 1 /\ D \in Nat /\ D = 2 * P + 2
      /\ MaxShift \in Nat /\ D + 2 <= MaxShift
  BY RegisterFacts, DpdAssumption
<1>0. /\ w \in Nat /\ Pow10[D] <= w /\ w < 2 * Pow10[D]
      /\ rest \in Nat /\ k \in Nat /\ k <= D /\ rest < Pow10[k]
      /\ f \in 0..999 /\ Fraction(f, 1000) = Fraction(rest, Pow10[k])
  BY DEF Carries
<1> DEFINE c == w \div 10
           u == w % 10
           e == Pow10[k]
           r == (u * e) + rest
           y == Number(c, b + 1, s)
           rem == DroppedDigit(r, k + 1)
<1>2. c \in Nat /\ u \in 0..9 /\ w = (c * 10) + u
  BY <1>0
<1> HIDE DEF c, u
<1>3. k \in 0..MaxShift /\ k + 1 \in 0..MaxShift /\ k < MaxShift
  BY <1>0, <1>1
<1>4. e \in Nat \ {0} /\ Pow10[k + 1] = 10 * e /\ rest < e
  BY <1>0, <1>3, PowerType, PowerStep
<1> HIDE DEF e
<1>5. r \in Nat /\ r < e * 10
  <2>1. u * e <= 9 * e /\ u * e \in Nat
    BY <1>0, <1>2, <1>4, TimesMonotonic
  <2> QED BY <1>0, <1>4, <2>1
<1>6. rem \in 0..9 /\ RemClass(rem) = Fraction(r, e * 10)
  <2>1. r < Pow10[k + 1] /\ Pow10[k + 1] = e * 10
    BY <1>0, <1>4, <1>5
  <2> HIDE DEF r
  <2>2. DroppedDigit(r, k + 1) \in 0..9 /\ RemClass(DroppedDigit(r, k + 1)) = Fraction(r, Pow10[k + 1])
    BY <1>0, <1>3, <1>5, <2>1, DropClass
  <2> QED BY <1>0, <2>1, <2>2
<1> DEFINE a == (u * 1000) + f
<1>7. f = 0 <=> rest = 0
  <2>1. Fraction(f, 1000) = "EXACT" <=> f = 0
    BY <1>0, FractionMeaning
  <2>2. Fraction(rest, e) = "EXACT" <=> rest = 0
    BY <1>0, <1>4, FractionMeaning
  <2> QED BY <1>0, <2>1, <2>2 DEF e
<1>8. Fraction(a, 10000) = Fraction(r, e * 10)
  <2>1. Tail(f, 1000, u, 10, a, 10000)
    BY <1>0, <1>2 DEF Tail
  <2>2. Tail(rest, e, u, 10, r, e * 10)
    BY <1>0, <1>2, <1>4 DEF Tail
  <2> HIDE DEF a, r
  <2> QED BY <1>0, <1>7, <2>1, <2>2, TailClass
<1>9. n - (c * 10000) = a
  BY <1>0, <1>2
<1> HIDE DEF a, r, rem
<1>10. y \in Impl /\ y.special = "NUMBER" /\ y.mant = c /\ y.exp = b + 1
  BY <1>0, <1>2 DEF Number, Impl, Special, Sign
<1> HIDE DEF y
<1>11. (b + 1) - (b - 3) = 4 /\ Pow10[4] = 10000
  BY <1>0, SmallPowers
<1>12. Fraction(n - (y.mant * Pow10[y.exp - (b - 3)]), Pow10[y.exp - (b - 3)]) = RemClass(rem)
  BY <1>0, <1>6, <1>8, <1>9, <1>10, <1>11
<1>13. c < Pow10[D] /\ Pow10[D - 2] <= c
  <2>1. D - 2 \in 0..MaxShift /\ D - 1 \in 0..MaxShift /\ D \in 1..MaxShift /\ D \in 0..MaxShift
    BY <1>0, <1>1
  <2>2. Pow10[D] = 10 * Pow10[D - 1] /\ Pow10[D - 1] \in Nat /\ Pow10[D] \in Nat \ {0}
    BY <1>0, <2>1, PowerType, DecimalAssumption
  <2>3. Pow10[D - 2] <= Pow10[D - 1] /\ Pow10[D - 2] \in Nat
    BY <1>0, <1>1, <2>1, PowerOrder, PowerType
  <2> QED BY <1>0, <1>2, <2>2, <2>3
<1>14. Truncates(y, rem, b, n)
  BY <1>0, <1>6, <1>10, <1>12, <1>13 DEF Truncates
<1> QED BY <1>0, <1>14 DEF y, rem, c, u, r, e

LEMMA AddTruncates ==
  ASSUME Room, NEW m, NEW b, NEW s, LeftEnd(m, b, s),
         NEW t, NEW q, NEW rest, NEW k, IsCut(t, q, rest, k)
  PROVE  LET r == Add([m |-> m, e |-> b, sign |-> s], q, rest, k)
         IN  Truncates(r.x, r.rem, b, 1000 * m + t)
<1>1. /\ P \in Nat /\ P > 1 /\ D \in Nat /\ D = 2 * P + 2
      /\ MaxShift \in Nat /\ D + 2 <= MaxShift
  BY RegisterFacts, DpdAssumption
<1>2. m \in Nat /\ Pow10[D - 1] <= m /\ m < Pow10[D] /\ b \in Int /\ s \in {-1, 1}
  BY DEF LeftEnd
<1>3. k \in Nat /\ q \in Nat /\ q < Pow10[D] /\ (k > D => q = 0)
  BY DEF IsCut
<1>4. PICK f \in 0..999 : t = 1000 * q + f /\ SameClass(f, rest, k)
  BY DEF IsCut
<1>5. Pow10[D - 2] <= m /\ Pow10[D] \in Nat /\ Pow10[D - 2] \in Nat
  BY <1>2, RegisterPowers
<1> DEFINE big == [m |-> m, e |-> b, sign |-> s]
           r == Add(big, q, rest, k)
           n == 1000 * m + t
           w == m + q
<1>6. CASE k > D
  <2>1. q = 0 /\ f = 1 /\ ~(k <= D)
    BY <1>1, <1>3, <1>4, <1>6 DEF SameClass
  <2>2. r = Sum(m, b, s, 1)
    BY <1>6 DEF Add
  <2>3. r.x = Number(m, b, s) /\ r.rem = 1
    BY <2>2 DEF Sum
  <2>4. n = 1000 * m + 1
    BY <1>4, <2>1
  <2>5. Fraction(1, 1000) = RemClass(1)
    BY DEF Fraction, RemClass
  <2> HIDE DEF r, n
  <2>6. Truncates(Number(m, b, s), 1, b, n)
    BY <1>2, <1>5, <2>4, <2>5, TruncatesPlain
  <2> QED BY <2>3, <2>6 DEF r, n
<1>7. CASE k <= D /\ w < Pow10[D]
  <2>1. rest \in Nat /\ rest < Pow10[k] /\ Fraction(f, 1000) = Fraction(rest, Pow10[k]) /\ ~(k > D)
    BY <1>1, <1>3, <1>4, <1>7 DEF SameClass
  <2>2. r = Sum(w, b, s, DroppedDigit(rest, k))
    BY <1>7, <2>1 DEF Add
  <2> DEFINE rem == DroppedDigit(rest, k)
  <2>3. r.x = Number(w, b, s) /\ r.rem = rem
    BY <2>2 DEF Sum
  <2>4. k \in 0..MaxShift
    BY <1>1, <1>3, <1>7
  <2>5. rem \in 0..9 /\ Fraction(f, 1000) = RemClass(rem)
    BY <2>1, <2>4, DropClass
  <2>6. n = 1000 * w + f /\ w \in Nat /\ Pow10[D - 2] <= w
    BY <1>2, <1>3, <1>4, <1>5
  <2> HIDE DEF r, n, w, rem
  <2>7. Truncates(Number(w, b, s), rem, b, n)
    BY <1>2, <1>7, <2>5, <2>6, TruncatesPlain
  <2> QED BY <2>3, <2>7 DEF r, n
<1>8. CASE k <= D /\ Pow10[D] <= w
  <2>1. rest \in Nat /\ rest < Pow10[k] /\ Fraction(f, 1000) = Fraction(rest, Pow10[k]) /\ ~(k > D)
    BY <1>1, <1>3, <1>4, <1>8 DEF SameClass
  <2>2. ~(w < Pow10[D]) /\ w \in Nat /\ w < 2 * Pow10[D]
    BY <1>2, <1>3, <1>5, <1>8
  <2> DEFINE rem == DroppedDigit((w % 10) * Pow10[k] + rest, k + 1)
  <2>3. r = Sum(w \div 10, b + 1, s, rem)
    BY <2>1, <2>2 DEF Add
  <2>4. r.x = Number(w \div 10, b + 1, s) /\ r.rem = rem
    BY <2>3 DEF Sum
  <2>5. n = 1000 * w + f
    BY <1>2, <1>3, <1>4
  <2>6. Truncates(Number(w \div 10, b + 1, s), rem, b, n)
    <3> HIDE DEF r, n, w
    <3>1. Carries(w, rest, k, f)
      BY <1>3, <1>8, <2>1, <2>2 DEF Carries
    <3>2. Truncates(Number(w \div 10, b + 1, s), DroppedDigit((w % 10) * Pow10[k] + rest, k + 1), b, n)
      BY <1>2, <2>5, <3>1, TruncatesCarry
    <3> QED BY <3>2
  <2> QED BY <2>4, <2>6 DEF r, n
<1>9. w \in Nat
  BY <1>2, <1>3
<1> QED BY <1>1, <1>3, <1>5, <1>6, <1>7, <1>8, <1>9

LEMMA SubTruncates ==
  ASSUME Room, NEW m, NEW b, NEW s, LeftEnd(m, b, s),
         NEW t, NEW q, NEW rest, NEW k, IsCut(t, q, rest, k)
  PROVE  LET r == Sub([m |-> m, e |-> b, sign |-> s], q, rest, k)
             n == IF 1000 * m >= t THEN 1000 * m - t ELSE t - 1000 * m
         IN  Truncates(r.x, r.rem, b, n)
<1>1. /\ P \in Nat /\ P > 1 /\ D \in Nat /\ D = 2 * P + 2
      /\ MaxShift \in Nat /\ D + 2 <= MaxShift
  BY RegisterFacts, DpdAssumption
<1>2. m \in Nat /\ Pow10[D - 1] <= m /\ m < Pow10[D] /\ b \in Int /\ s \in {-1, 1} /\ -s \in {-1, 1}
  BY DEF LeftEnd
<1>3. k \in Nat /\ q \in Nat /\ q < Pow10[D] /\ (k > D => q = 0) /\ (k >= 1 => q < Pow10[D - 2])
  BY DEF IsCut
<1>4. PICK f \in 0..999 : t = 1000 * q + f /\ SameClass(f, rest, k)
  BY DEF IsCut
<1>5. /\ Pow10[D - 2] \in Nat \ {0} /\ Pow10[D - 1] = 10 * Pow10[D - 2] /\ Pow10[D] = 10 * Pow10[D - 1]
      /\ Pow10[D - 1] \in Nat /\ Pow10[D] \in Nat
  BY RegisterPowers
<1> DEFINE big == [m |-> m, e |-> b, sign |-> s]
           r == Sub(big, q, rest, k)
           n == IF 1000 * m >= t THEN 1000 * m - t ELSE t - 1000 * m
<1>6. CASE k > D
  <2>1. q = 0 /\ f = 1 /\ ~(k <= D) /\ rest = rest
    BY <1>1, <1>3, <1>4, <1>6 DEF SameClass
  <2>2. r = Sum(m - 1, b, s, 9)
    BY <1>6, <2>1 DEF Sub
  <2>3. r.x = Number(m - 1, b, s) /\ r.rem = 9
    BY <2>2 DEF Sum
  <2>4. n = 1000 * (m - 1) + 999
    BY <1>2, <1>4, <1>5, <2>1
  <2>5. Fraction(999, 1000) = RemClass(9)
    BY DEF Fraction, RemClass
  <2>6. m - 1 \in Nat /\ m - 1 < Pow10[D] /\ Pow10[D - 2] <= m - 1
    BY <1>2, <1>5
  <2> HIDE DEF r, n
  <2>7. Truncates(Number(m - 1, b, s), 9, b, n)
    BY <1>2, <2>4, <2>5, <2>6, TruncatesPlain
  <2> QED BY <2>3, <2>7 DEF r, n
<1>7. CASE k <= D /\ rest # 0
  <2>1. rest \in Nat /\ rest < Pow10[k] /\ Fraction(f, 1000) = Fraction(rest, Pow10[k]) /\ ~(k > D)
    BY <1>1, <1>3, <1>4, <1>7 DEF SameClass
  <2> DEFINE w == (m - q) - 1
             e == Pow10[k]
             c == e - rest
             rem == DroppedDigit(c, k)
  <2>2. r = Sum(w, b, s, rem)
    BY <1>7, <2>1 DEF Sub
  <2>3. r.x = Number(w, b, s) /\ r.rem = rem
    BY <2>2 DEF Sum
  <2>4. k \in 0..MaxShift /\ e \in Nat \ {0} /\ rest < e /\ c \in Nat /\ c < e
    <3>1. k \in 0..MaxShift
      BY <1>1, <1>3, <1>7
    <3>2. Pow10[k] \in Nat \ {0}
      BY <3>1, PowerType
    <3> QED BY <1>7, <2>1, <3>1, <3>2
  <2>5. rem \in 0..9 /\ RemClass(rem) = Fraction(c, e)
    <3> HIDE DEF c
    <3> QED BY <2>4, DropClass DEF e
  <2>6. k >= 1
    <3>1. CASE k = 0
      <4>1. Pow10[k] = 1
        BY <3>1, SmallPowers
      <4> QED BY <1>7, <2>1, <4>1
    <3> QED BY <1>3, <3>1
  <2>7. w \in Nat /\ w < Pow10[D] /\ Pow10[D - 2] <= w
    BY <1>2, <1>3, <1>5, <2>6
  <2>8. Fraction(f, 1000) = Fraction(rest, e)
    BY <2>1
  <2> HIDE DEF e
  <2>9. f # 0 /\ Fraction(1000 - f, 1000) = Fraction(c, e)
    BY <1>7, <2>1, <2>4, <2>8, MirrorClass
  <2>10. n = 1000 * w + (1000 - f)
    BY <1>2, <1>3, <1>4, <2>7
  <2>11. 1000 - f \in Int
    OBVIOUS
  <2> HIDE DEF r, n, w, rem, c
  <2>12. Fraction(1000 - f, 1000) = RemClass(rem)
    BY <2>5, <2>9
  <2>13. Truncates(Number(w, b, s), rem, b, n)
    BY <1>2, <2>5, <2>7, <2>10, <2>11, <2>12, TruncatesPlain
  <2> QED BY <2>3, <2>13 DEF r, n
<1>8. CASE k <= D /\ rest = 0
  <2>1. Pow10[k] \in Nat \ {0} /\ Fraction(f, 1000) = Fraction(rest, Pow10[k]) /\ ~(k > D)
    <3>1. k \in 0..MaxShift
      BY <1>1, <1>3, <1>8
    <3> QED BY <1>1, <1>3, <1>4, <1>8, <3>1, PowerType DEF SameClass
  <2>2. f = 0
    <3>1. Fraction(rest, Pow10[k]) = "EXACT"
      BY <1>8, <2>1 DEF Fraction
    <3> QED BY <2>1, <3>1, FractionMeaning
  <2>3. Fraction(0, 1000) = RemClass(0)
    BY DEF Fraction, RemClass
  <2>4. CASE m >= q
    <3> DEFINE w == m - q
    <3>1. r = Sum(w, b, s, 0)
      <4>1. ~(m < q) /\ ~(rest # 0)
        BY <1>2, <1>3, <1>8, <2>4
      <4> QED BY <1>8, <2>1, <2>4, <4>1 DEF Sub
    <3>2. r.x = Number(w, b, s) /\ r.rem = 0
      BY <3>1 DEF Sum
    <3>3. n = 1000 * w + 0 /\ w \in Nat /\ w < Pow10[D]
      BY <1>2, <1>3, <1>4, <1>5, <2>2, <2>4
    <3> HIDE DEF r, n, w
    <3>4. Truncates(Number(w, b, s), 0, b, n)
      BY <1>2, <2>3, <3>3, TruncatesPlain
    <3> QED BY <3>2, <3>4 DEF r, n
  <2>5. CASE m < q
    <3> DEFINE w == q - m
    <3>1. r = Sum(w, b, -s, 0)
      BY <1>2, <1>3, <1>8, <2>1, <2>5 DEF Sub
    <3>2. r.x = Number(w, b, -s) /\ r.rem = 0
      BY <3>1 DEF Sum
    <3>3. n = 1000 * w + 0 /\ w \in Nat /\ w < Pow10[D]
      BY <1>2, <1>3, <1>4, <1>5, <2>2, <2>5
    <3> HIDE DEF r, n, w
    <3>4. Truncates(Number(w, b, -s), 0, b, n)
      BY <1>2, <2>3, <3>3, TruncatesPlain
    <3> QED BY <3>2, <3>4 DEF r, n
  <2> QED BY <1>2, <1>3, <2>4, <2>5
<1> QED BY <1>1, <1>3, <1>6, <1>7, <1>8

\* What addsub does once it knows which operand reaches further to the left.
AlignedResult(l, s, b, m) ==
  LET big == [m |-> m, e |-> b, sign |-> l.sign]
  IN  IF s.sign = l.sign THEN Add(big, Kept(s, b), Rest(s, b), Drop(s, b))
      ELSE Sub(big, Kept(s, b), Rest(s, b), Drop(s, b))

LEMMA AlignedSum ==
  ASSUME Room, NEW l, NEW s, NEW b, NEW m, Aligned(l, s, b, m),
         NEW v, v \in {ExactSum(l, Near(l, s)), ExactSum(Near(l, s), l)}
  PROVE  \E n \in Nat :
           /\ OnGrid(v, b - 3, n)
           /\ Truncates(AlignedResult(l, s, b, m).x, AlignedResult(l, s, b, m).rem, b, n)
<1> DEFINE q == Kept(s, b)
           r == Rest(s, b)
           k == Drop(s, b)
<1>1. PICK n \in Nat, c \in Nat : OnGrid(v, b - 3, n) /\ IsTotal(n, l.sign, 1000 * m, s.sign, c)
                                 /\ IsCut(c, q, r, k)
  BY AlignedTotal
<1>2. LeftEnd(m, b, l.sign)
  BY AlignedTotal
<1> HIDE DEF q, r, k
<1>3. CASE s.sign = l.sign
  <2>1. n = 1000 * m + c
    BY <1>1, <1>3 DEF IsTotal
  <2>2. AlignedResult(l, s, b, m) = Add([m |-> m, e |-> b, sign |-> l.sign], q, r, k)
    BY <1>3 DEF AlignedResult, q, r, k
  <2>3. Truncates(AlignedResult(l, s, b, m).x, AlignedResult(l, s, b, m).rem, b, 1000 * m + c)
    BY <1>1, <1>2, <2>2, AddTruncates
  <2> QED BY <1>1, <2>1, <2>3
<1>4. CASE s.sign # l.sign
  <2>1. n = IF 1000 * m >= c THEN 1000 * m - c ELSE c - 1000 * m
    BY <1>1, <1>4 DEF IsTotal
  <2>2. AlignedResult(l, s, b, m) = Sub([m |-> m, e |-> b, sign |-> l.sign], q, r, k)
    BY <1>4 DEF AlignedResult, q, r, k
  <2>3. Truncates(AlignedResult(l, s, b, m).x, AlignedResult(l, s, b, m).rem, b,
                  IF 1000 * m >= c THEN 1000 * m - c ELSE c - 1000 * m)
    BY <1>1, <1>2, <2>2, SubTruncates
  <2> QED BY <1>1, <2>1, <2>3
<1> QED BY <1>3, <1>4

\* addsub truncates the exact sum, whatever its operands.
Placed(large, small, same) ==
  LET zeros  == LeadingZeros(large.mant)
      big    == [m |-> large.mant * Pow10[zeros], e |-> large.exp - zeros, sign |-> large.sign]
      shift  == small.exp - big.e
      k      == IF shift < 0 THEN -shift ELSE 0
      inside == k <= D
      q      == IF shift >= 0 THEN small.mant * Pow10[shift]
                ELSE IF inside THEN small.mant \div Pow10[k] ELSE 0
      rest   == IF inside THEN small.mant % Pow10[k] ELSE small.mant
  IN  IF same THEN Add(big, q, rest, k) ELSE Sub(big, q, rest, k)

LEMMA PlacedResult ==
  ASSUME NEW l, NEW s
  PROVE  Placed(l, s, s.sign = l.sign) = AlignedResult(l, s, LeftExp(l), LeftMant(l))
<1> DEFINE z == LeadingZeros(l.mant)
           m == l.mant * Pow10[z]
           b == l.exp - z
           big == [m |-> m, e |-> b, sign |-> l.sign]
           k == IF s.exp - big.e < 0 THEN -(s.exp - big.e) ELSE 0
           q == IF s.exp - big.e >= 0 THEN s.mant * Pow10[s.exp - big.e]
                ELSE IF k <= D THEN s.mant \div Pow10[k] ELSE 0
           rest == IF k <= D THEN s.mant % Pow10[k] ELSE s.mant
<1>1. Placed(l, s, s.sign = l.sign) = IF s.sign = l.sign THEN Add(big, q, rest, k) ELSE Sub(big, q, rest, k)
  BY Zenon DEF Placed
<1>2. big.e = b
  OBVIOUS
<1> HIDE DEF b, m
<1>3. k = Drop(s, b)
  BY <1>2, Zenon DEF Drop
<1>4. q = Kept(s, b) /\ rest = Rest(s, b)
  BY <1>2, Zenon DEF Kept, Rest, Drop
<1>5. Placed(l, s, s.sign = l.sign) = AlignedResult(l, s, b, m)
  <2> HIDE DEF k, q, rest
  <2> QED BY <1>1, <1>3, <1>4, Zenon DEF AlignedResult
<1>6. b = LeftExp(l) /\ m = LeftMant(l)
  BY DEF b, m, LeftExp, LeftMant, LeadingZeros
<1> QED BY <1>5, <1>6

LEMMA AddSubSum ==
  ASSUME Room, NEW s \in {-1, 1}, NEW a, Addend(a), NEW c, Addend(c)
  PROVE  \E b \in Int, n \in Nat :
           /\ c.exp <= b + D - 1
           /\ OnGrid(SumOf(s, a, c), b - 3, n)
           /\ Truncates(DpdAddSub(s, a, c).x, DpdAddSub(s, a, c).rem, b, n)
<1> DEFINE r == [c EXCEPT !.sign = s * @]
           top(y) == y.exp - LeadingZeros(y.mant)
           sum == SumOf(s, a, c)
<1>1. DpdAddSub(s, a, c) = Placed(IF top(a) >= top(r) THEN a ELSE r, IF top(a) >= top(r) THEN r ELSE a,
                                  r.sign = a.sign)
  BY DEF DpdAddSub, Placed
<1>2. /\ r.exp = c.exp /\ LeftExp(a) \in Int /\ LeftExp(r) \in Int
      /\ r.exp <= LeftExp(r) + D - 1
      /\ LeftExp(a) >= LeftExp(r) => Larger(a, r, sum)
      /\ LeftExp(r) >= LeftExp(a) => Larger(r, a, sum)
  BY SumOrder
<1> HIDE DEF r, sum
<1>3. top(a) = LeftExp(a) /\ top(r) = LeftExp(r)
  BY DEF LeftExp, LeadingZeros
<1>4. D \in Nat
  BY RegisterFacts
<1>5. CASE LeftExp(a) >= LeftExp(r)
  <2>1. DpdAddSub(s, a, c) = Placed(a, r, r.sign = a.sign)
    BY <1>1, <1>3, <1>5, Zenon
  <2>2. DpdAddSub(s, a, c) = AlignedResult(a, r, LeftExp(a), LeftMant(a))
    BY <2>1, PlacedResult
  <2>3. Larger(a, r, sum)
    BY <1>2, <1>5
  <2>4. PICK n \in Nat : OnGrid(sum, LeftExp(a) - 3, n)
          /\ Truncates(DpdAddSub(s, a, c).x, DpdAddSub(s, a, c).rem, LeftExp(a), n)
    BY <2>2, <2>3, AlignedSum DEF Larger
  <2>5. c.exp <= LeftExp(a) + D - 1
    <3>1. c.exp \in Int
      BY DEF Addend, Impl
    <3> QED BY <1>2, <1>4, <1>5, <3>1
  <2> QED BY <1>2, <2>4, <2>5 DEF sum
<1>6. CASE ~(LeftExp(a) >= LeftExp(r))
  <2>1. DpdAddSub(s, a, c) = Placed(r, a, a.sign = r.sign)
    <3>1. (r.sign = a.sign) = (a.sign = r.sign)
      OBVIOUS
    <3> QED BY <1>1, <1>3, <1>6, <3>1, Zenon
  <2>2. DpdAddSub(s, a, c) = AlignedResult(r, a, LeftExp(r), LeftMant(r))
    BY <2>1, PlacedResult
  <2>3. Larger(r, a, sum)
    BY <1>2, <1>6
  <2>4. PICK n \in Nat : OnGrid(sum, LeftExp(r) - 3, n)
          /\ Truncates(DpdAddSub(s, a, c).x, DpdAddSub(s, a, c).rem, LeftExp(r), n)
    BY <2>2, <2>3, AlignedSum DEF Larger
  <2> QED BY <1>2, <2>4 DEF sum
<1> QED BY <1>5, <1>6

\* What addsub hands to scale.
Begun(v, b, n, y, rem) ==
  /\ b \in Int /\ n \in Nat /\ EMin <= b + D - 1
  /\ OnGrid(v, b - 3, n) /\ Truncates(y, rem, b, n)

LEMMA BegunFacts ==
  ASSUME Room, NEW v, NEW b, NEW n, NEW y, NEW rem, Begun(v, b, n, y, rem)
  PROVE  /\ y \in Impl /\ y.mant \in Nat /\ y.exp \in Int /\ b \in Int /\ n \in Nat
         /\ y.exp - (b - 3) \in {3, 4} /\ EMin <= b + D - 1 /\ EMin \in Int
         /\ IsDigits(Digits(y.mant), y.mant) /\ Digits(y.mant) \in 1..D
         /\ Pow10[y.exp - (b - 3)] \in Nat \ {0}
         /\ rem \in 0..9
         /\ LET u == Pow10[y.exp - (b - 3)]
                f == n - (y.mant * u)
            IN  f \in Int /\ 0 <= f /\ f < u /\ Fraction(f, u) = RemClass(rem) /\ (f = 0 <=> rem = 0)
         /\ rem # 0 => Digits(y.mant) >= D - 1 /\ y.mant # 0
<1>1. /\ P \in Nat /\ P > 1 /\ D \in Nat /\ D = 2 * P + 2
      /\ MaxShift \in Nat /\ D + 2 <= MaxShift /\ EMin \in Int
  BY RegisterFacts, DpdAssumption, DecimalAssumption
<1>2. /\ y \in Impl /\ y.mant < Pow10[D] /\ y.exp \in {b, b + 1} /\ rem \in 0..9
      /\ b \in Int /\ n \in Nat /\ EMin <= b + D - 1
      /\ rem # 0 => Pow10[D - 2] <= y.mant
  BY DEF Begun, Truncates
<1> DEFINE m == y.mant
           i == y.exp - (b - 3)
           u == Pow10[i]
           d == Digits(m)
           p == m * u
           f == n - p
<1>3. y.mant \in Nat /\ y.exp \in Int
  BY <1>2 DEF Impl
<1>4. i \in {3, 4} /\ i \in 0..MaxShift
  BY <1>1, <1>2, <1>3
<1>5. u \in Nat \ {0}
  <2> HIDE DEF i
  <2> QED BY <1>4, PowerType
<1>6. IsDigits(d, m)
  <2>1. D \in 0..MaxShift
    BY <1>1
  <2>2. m < Pow10[MaxShift]
    BY <1>2, <1>3, <2>1, FitsTable
  <2> QED BY <1>3, <2>2, DigitsMeaning
<1>7. Fraction(f, u) = RemClass(rem)
  BY DEF Begun, Truncates
<1> HIDE DEF u, m
<1>8. p \in Nat
  BY <1>3, <1>5 DEF m
<1> HIDE DEF p, d
<1>9. f \in Int
  BY <1>2, <1>8
<1>10. RemClass(rem) # "OUT" /\ (RemClass(rem) = "EXACT" <=> rem = 0)
  <2>1. rem % 16 = rem
    BY <1>2
  <2> QED BY <1>2, <2>1 DEF RemClass
<1> HIDE DEF f
<1>11. 0 <= f /\ f < u /\ (f = 0 <=> rem = 0)
  BY <1>5, <1>7, <1>9, <1>10, FractionMeaning
<1>12. d \in 1..D
  <2>1. d \in 1..MaxShift /\ (d = 1 \/ Pow10[d - 1] <= m)
    BY <1>6 DEF IsDigits
  <2>2. CASE d # 1
    <3>1. d - 1 \in 0..MaxShift /\ D \in 0..MaxShift
      BY <1>1, <2>1, <2>2
    <3>2. Pow10[d - 1] \in Nat /\ Pow10[D] \in Nat
      BY <3>1, PowerType
    <3>3. Pow10[d - 1] < Pow10[D]
      BY <1>2, <1>3, <2>1, <2>2, <3>2 DEF m
    <3>4. d - 1 < D
      BY <3>1, <3>3, PowerOrder
    <3> QED BY <1>1, <2>1, <3>4
  <2> QED BY <1>1, <2>1, <2>2
<1>13. rem # 0 => d >= D - 1 /\ m # 0
  <2> SUFFICES ASSUME rem # 0 PROVE d >= D - 1 /\ m # 0
    OBVIOUS
  <2>1. Pow10[D - 2] <= m /\ m < Pow10[d] /\ d \in 0..MaxShift /\ D - 2 \in 0..MaxShift
    BY <1>1, <1>2, <1>6, <1>12 DEF m, IsDigits
  <2>2. Pow10[D - 2] \in Nat \ {0} /\ Pow10[d] \in Nat
    BY <2>1, PowerType
  <2>3. Pow10[D - 2] < Pow10[d]
    BY <1>3, <2>1, <2>2 DEF m
  <2>4. D - 2 < d
    BY <2>1, <2>3, PowerOrder
  <2> QED BY <1>1, <1>3, <1>12, <2>1, <2>2, <2>4 DEF m
<1> QED
  BY <1>1, <1>2, <1>3, <1>4, <1>5, <1>6, <1>7, <1>9, <1>11, <1>12, <1>13 DEF m, u, f, p, d

\* The remainder of addsub is honest.
LEMMA AddSubPlace ==
  ASSUME Room, NEW v, NEW b, NEW n, NEW y, NEW rem, Begun(v, b, n, y, rem)
  PROVE  Position(v, y.mant, y.exp) = RemClass(rem)
<1>1. /\ y.mant \in Nat /\ y.exp \in Int /\ b \in Int /\ y.exp - (b - 3) \in {3, 4}
      /\ D \in Nat /\ MaxShift \in Nat /\ D + 2 <= MaxShift /\ D >= 2
  BY BegunFacts, RegisterFacts, DpdAssumption
<1>2. OnGrid(v, b - 3, n)
  BY DEF Begun
<1>3. b - 3 <= y.exp /\ y.exp - (b - 3) <= MaxShift
  BY <1>1
<1>4. LET u == Pow10[y.exp - (b - 3)] IN Position(v, y.mant, y.exp) = Fraction(n - y.mant * u, u)
  BY <1>1, <1>2, <1>3, GridPosition
<1>5. LET u == Pow10[y.exp - (b - 3)] IN Fraction(n - (y.mant * u), u) = RemClass(rem)
  BY DEF Begun, Truncates
<1> QED BY <1>4, <1>5

-----------------------------------------------------------------------------
(* scale                                                                   *)

\* An exact zero arrives as a zero.
LEMMA ZeroArrives ==
  ASSUME Room, NEW v, NEW b, NEW n, NEW y, NEW rem, Begun(v, b, n, y, rem)
  PROVE  v.n = 0 <=> y.mant = 0
<1> DEFINE u == Pow10[y.exp - (b - 3)]
           m == y.mant
<1>1. OnGrid(v, b - 3, n)
  BY DEF Begun
<1>2. n = 0 <=> v.n = 0
  BY <1>1, GridType
<1>3. /\ m \in Nat /\ u \in Nat \ {0} /\ n \in Nat
      /\ 0 <= n - (m * u) /\ (n - (m * u) = 0 <=> rem = 0) /\ (rem # 0 => m # 0)
  BY BegunFacts
<1> HIDE DEF u, m
<1>4. CASE m = 0
  BY <1>2, <1>3, <1>4 DEF m
<1>5. CASE m # 0
  <2>1. 1 * u <= m * u /\ m * u \in Nat
    BY <1>3, <1>5, TimesMonotonic
  <2> QED BY <1>2, <1>3, <1>5, <2>1 DEF m
<1> QED BY <1>4, <1>5

\* What vanishes is less than half a unit of the smallest exponent.
LEMMA VanishedIsBelow ==
  ASSUME Room, NEW v, NEW b, NEW n, NEW y, NEW rem, Begun(v, b, n, y, rem), v.n # 0,
         Vanishes(y, y.exp + Digits(y.mant) - P)
  PROVE  Position(v, 0, EMin) = "BELOW"
<1>1. /\ P \in Nat /\ P > 1 /\ D \in Nat /\ D = 2 * P + 2
      /\ MaxShift \in Nat /\ D + 2 <= MaxShift
  BY RegisterFacts, DpdAssumption
<1> DEFINE i == y.exp - (b - 3)
           u == Pow10[i]
           m == y.mant
           d == Digits(m)
           g == b - 3
<1>2. /\ m \in Nat /\ y.exp \in Int /\ b \in Int /\ n \in Nat /\ u \in Nat \ {0}
      /\ i \in {3, 4} /\ EMin <= b + D - 1 /\ EMin \in Int
      /\ IsDigits(d, m) /\ d \in 1..D
      /\ n - (m * u) < u
  BY BegunFacts
<1>3. m # 0
  BY ZeroArrives
<1>4. OnGrid(v, g, n) /\ n # 0
  <2>1. OnGrid(v, g, n)
    BY DEF Begun
  <2> QED BY <2>1, GridType
<1> HIDE DEF d, m, u
<1>5. y.exp + d < EMin
  BY <1>1, <1>2, <1>3 DEF Vanishes, d, m
<1>6. PICK j \in Nat : j = EMin - g
  BY <1>1, <1>2, <1>5
<1>7. d + i < j /\ j <= MaxShift /\ g <= EMin /\ g \in Int /\ i \in Nat /\ d \in Nat
  BY <1>1, <1>2, <1>5, <1>6
<1>8. n < Pow10[d + i]
  <2>1. m + 1 <= Pow10[d] /\ Pow10[d] \in Nat
    <3>1. m < Pow10[d] /\ d \in 0..MaxShift
      BY <1>1, <1>2 DEF IsDigits
    <3>2. Pow10[d] \in Nat
      BY <3>1, PowerType
    <3> QED BY <1>2, <3>1, <3>2
  <2>2. (m + 1) * u <= Pow10[d] * u
    BY <1>2, <2>1, TimesMonotonic
  <2>3. (m + 1) * u = (m * u) + u /\ m * u \in Nat
    BY <1>2
  <2>4. Pow10[d + i] = Pow10[d] * u
    <3>1. d + i <= MaxShift
      BY <1>1, <1>7
    <3> QED BY <1>7, <3>1, PowerSum DEF u
  <2>5. Pow10[d] * u \in Nat
    BY <1>2, <2>1
  <2> QED BY <1>2, <2>2, <2>3, <2>4, <2>5
<1>9. Pow10[d + i] \in Nat /\ n <= Pow10[d + i]
  <2>1. d + i \in 0..MaxShift
    BY <1>1, <1>7
  <2> QED BY <1>2, <1>8, <2>1, PowerType
<1>10. d + i \in Nat /\ g + (d + i) < EMin /\ EMin - g <= MaxShift
  BY <1>2, <1>6, <1>7
<1> HIDE DEF g, i
<1> QED BY <1>4, <1>9, <1>10, BelowGrid

\* The second truncation, when it takes digits of the number: c of the d digits
\* are cut off, k of the D places that the left end of the register has.
LEMMA CutPlace ==
  ASSUME Room, NEW v, NEW b, NEW n, NEW y, NEW rem, Begun(v, b, n, y, rem),
         NEW k \in 1..D, D - Digits(y.mant) < k, y.exp + k - (D - Digits(y.mant)) - (b - 3) <= MaxShift,
         NEW low, low \in {DroppedDigit((y.mant * Pow10[D - Digits(y.mant)]) % Pow10[k], k),
                             16 + DroppedDigit((y.mant * Pow10[D - Digits(y.mant)]) % Pow10[k], k)}
  PROVE  Position(v, (y.mant * Pow10[D - Digits(y.mant)]) \div Pow10[k],
                  y.exp + k - (D - Digits(y.mant))) = RemClass(Combine(rem, low))
<1>1. /\ P \in Nat /\ P > 1 /\ D \in Nat /\ D = 2 * P + 2
      /\ MaxShift \in Nat /\ D + 2 <= MaxShift
  BY RegisterFacts, DpdAssumption
<1> DEFINE i == y.exp - (b - 3)
           u == Pow10[i]
           m == y.mant
           d == Digits(m)
           g == b - 3
           z == D - d
           j == m * Pow10[z]
           c == k - z
           e == y.exp + k - z
           f == n - (m * u)
           h == Pow10[c]
           a == m \div h
           r == m % h
<1>2. /\ m \in Nat /\ y.exp \in Int /\ b \in Int /\ n \in Nat /\ u \in Nat \ {0}
      /\ i \in {3, 4} /\ d \in 1..D /\ rem \in 0..9
      /\ f \in Int /\ 0 <= f /\ f < u /\ Fraction(f, u) = RemClass(rem) /\ (f = 0 <=> rem = 0)
  BY BegunFacts
<1> HIDE DEF d, m
<1>3. z \in Nat /\ c \in Nat \ {0} /\ c + z = k /\ e - g = i + c /\ e - g <= MaxShift /\ g <= e
      /\ e \in Int /\ g \in Int /\ c \in 1..MaxShift /\ z \in 0..MaxShift /\ i \in Nat
  <2>1. D - d < k /\ y.exp + k - z - g <= MaxShift
    BY DEF d, m
  <2> QED BY <1>1, <1>2, <2>1
<1> HIDE DEF z, c, e
<1>4. h \in Nat \ {0} /\ Pow10[z] \in Nat \ {0} /\ h % 2 = 0
  <2>1. c \in 0..MaxShift
    BY <1>3
  <2> QED BY <1>3, <2>1, PowerType, PowerEven
<1>5. Pow10[k] = h * Pow10[z] /\ Pow10[e - g] = u * h
  <2>1. c + z <= MaxShift /\ i + c <= MaxShift
    BY <1>1, <1>3
  <2> QED BY <1>3, <2>1, PowerSum
<1> HIDE DEF h, u, i
<1>6. a \in Nat /\ r \in 0..(h - 1) /\ (a * h) + r = m
  BY <1>2, <1>4, DivMod
<1> HIDE DEF a, r
<1> DEFINE s == r * Pow10[z]
<1>7. s \in Nat /\ s < Pow10[k] /\ Pow10[k] \in Nat \ {0} /\ j = a * Pow10[k] + s /\ j \in Nat
  <2> DEFINE x1 == Pow10[z]
  <2>1. x1 \in Nat \ {0}
    BY <1>4
  <2> HIDE DEF x1
  <2>2. ((a * h) + r) * x1 = (a * (h * x1)) + (r * x1)
    BY <1>4, <1>6, <2>1
  <2>3. (r + 1) * x1 <= h * x1 /\ (r + 1) * x1 = (r * x1) + x1 /\ r * x1 \in Nat /\ h * x1 \in Nat
    BY <1>4, <1>6, <2>1, TimesMonotonic
  <2>4. h * x1 # 0
    BY <2>1, <2>3
  <2>5. m * x1 \in Nat /\ a * (h * x1) \in Nat
    BY <1>2, <1>6, <2>1, <2>3
  <2> QED BY <1>5, <1>6, <2>1, <2>2, <2>3, <2>4, <2>5 DEF x1
<1>8. j \div Pow10[k] = a /\ j % Pow10[k] = s
  <2> HIDE DEF j, s
  <2>1. s \in 0..(Pow10[k] - 1) /\ a \in Int
    BY <1>6, <1>7
  <2> QED BY <1>7, <2>1, DivModUnique
<1>9. Fraction(s, Pow10[k]) = Fraction(r, h)
  <2>1. r \in Int
    BY <1>4, <1>6
  <2>2. Fraction(r * Pow10[z], h * Pow10[z]) = Fraction(r, h)
    BY <1>4, <2>1, FractionScaled, Zenon
  <2> QED BY <1>5, <2>2
<1> DEFINE dd == DroppedDigit(s, k)
<1>10. dd \in 0..9 /\ RemClass(low) = Fraction(r, h) /\ low \in Remainder /\ rem \in Remainder
  <2>1. k \in 0..MaxShift
    BY <1>1
  <2> HIDE DEF s
  <2>2. dd \in 0..9 /\ RemClass(dd) = Fraction(s, Pow10[k]) /\ RemClass(16 + dd) = Fraction(s, Pow10[k])
    BY <1>7, <2>1, DropClass
  <2>3. low \in {dd, 16 + dd}
    BY <1>8 DEF d, m, z
  <2> HIDE DEF dd
  <2> QED BY <1>2, <1>9, <2>2, <2>3 DEF Remainder
<1>11. Position(v, a, e) = Fraction(n - (a * (u * h)), u * h)
  <2>1. OnGrid(v, g, n)
    BY DEF Begun
  <2> HIDE DEF g
  <2>2. Position(v, a, e) = Fraction(n - a * Pow10[e - g], Pow10[e - g])
    BY <1>3, <1>6, <2>1, GridPosition
  <2> QED BY <1>5, <2>2
<1>12. n - (a * (u * h)) = (r * u) + f
  <2>1. m * u = (a * (u * h)) + (r * u)
    <3>1. ((a * h) + r) * u = (a * (u * h)) + (r * u)
      BY <1>2, <1>4, <1>6
    <3> QED BY <1>6, <3>1
  <2>2. a * (u * h) \in Nat /\ r * u \in Nat
    BY <1>2, <1>4, <1>6
  <2> QED BY <1>2, <2>1, <2>2
<1> HIDE DEF f
<1>13. Fraction((r * u) + f, u * h) =
         IF f = 0 THEN Fraction(r, h)
         ELSE CASE Fraction(r, h) = "EXACT" -> "BELOW"
                [] Fraction(r, h) = "TIE"   -> "ABOVE"
                [] OTHER                    -> Fraction(r, h)
  <2>1. r \in Nat /\ r < h
    BY <1>4, <1>6
  <2> QED BY <1>2, <1>4, <2>1, TwoFractions
<1>14. RemClass(Combine(rem, low)) =
         IF RemClass(rem) = "EXACT" THEN RemClass(low)
         ELSE CASE RemClass(low) = "EXACT" -> "BELOW"
                [] RemClass(low) = "TIE"   -> "ABOVE"
                [] OTHER                    -> RemClass(low)
  BY <1>10, CombineClass
<1>15. f = 0 <=> RemClass(rem) = "EXACT"
  BY <1>2, FractionMeaning
<1>16. Position(v, a, e) = RemClass(Combine(rem, low))
  <2>1. CASE f = 0
    BY <1>10, <1>11, <1>12, <1>13, <1>14, <1>15, <2>1
  <2>2. CASE f # 0
    <3>1. Position(v, a, e) =
            CASE Fraction(r, h) = "EXACT" -> "BELOW"
              [] Fraction(r, h) = "TIE"   -> "ABOVE"
              [] OTHER                    -> Fraction(r, h)
      BY <1>11, <1>12, <1>13, <2>2
    <3>2. RemClass(Combine(rem, low)) =
            CASE RemClass(low) = "EXACT" -> "BELOW"
              [] RemClass(low) = "TIE"   -> "ABOVE"
              [] OTHER                    -> RemClass(low)
      BY <1>14, <1>15, <2>2
    <3> QED BY <1>10, <3>1, <3>2
  <2> QED BY <2>1, <2>2
<1> QED BY <1>8, <1>16 DEF e, z, d, m

\* When it takes none of them, the number is the exact sum already and stays so.
LEMMA WholePlace ==
  ASSUME Room, NEW v, NEW b, NEW n, NEW y, Begun(v, b, n, y, 0), y.mant # 0,
         NEW k \in (D - P)..D, k <= D - Digits(y.mant)
  PROVE  LET j == y.mant * Pow10[D - Digits(y.mant)]
         IN  /\ Position(v, j \div Pow10[k], y.exp + k - (D - Digits(y.mant))) = "EXACT"
             /\ j % Pow10[k] = 0 /\ DroppedDigit(j % Pow10[k], k) = 0
<1>1. /\ P \in Nat /\ P > 1 /\ D \in Nat /\ D = 2 * P + 2
      /\ MaxShift \in Nat /\ D + 2 <= MaxShift
  BY RegisterFacts, DpdAssumption
<1> DEFINE i == y.exp - (b - 3)
           u == Pow10[i]
           m == y.mant
           d == Digits(m)
           g == b - 3
           z == D - d
           j == m * Pow10[z]
           w == z - k
           e == y.exp + k - z
           a == m * Pow10[w]
<1>2. /\ m \in Nat /\ y.exp \in Int /\ b \in Int /\ n \in Nat /\ u \in Nat \ {0}
      /\ i \in {3, 4} /\ d \in 1..D /\ IsDigits(d, m)
      /\ n - (m * u) = 0
  BY BegunFacts
<1>3. OnGrid(v, g, n)
  BY DEF Begun
<1> HIDE DEF d, m, i
<1>4. m # 0
  BY DEF m
<1>5. /\ z \in Nat /\ w \in Nat /\ w + k = z /\ z \in 0..MaxShift /\ k \in 0..MaxShift /\ w \in 0..MaxShift
      /\ k \in Nat /\ e \in Int /\ g \in Int /\ e = y.exp - w /\ d + w <= P /\ d + i <= MaxShift
      /\ y.exp = g + i /\ d \in Nat /\ i \in Nat /\ d \in 0..MaxShift /\ i \in 0..MaxShift
  <2>1. k <= D - d
    BY DEF d, m
  <2> QED BY <1>1, <1>2, <2>1 DEF i
<1> HIDE DEF z, w, e
<1>6. /\ Pow10[z] = Pow10[w] * Pow10[k] /\ Pow10[w] \in Nat \ {0} /\ Pow10[k] \in Nat \ {0}
  <2>1. w + k <= MaxShift
    BY <1>1, <1>5
  <2>2. Pow10[w + k] = Pow10[w] * Pow10[k]
    BY <1>5, <2>1, PowerSum
  <2> QED BY <1>5, <2>2, PowerType
<1>7. a \in Nat /\ j \in Nat /\ j = a * Pow10[k]
  BY <1>2, <1>6
<1>8. j \div Pow10[k] = a /\ j % Pow10[k] = 0
  <2> HIDE DEF a, j
  <2>1. 0 \in 0..(Pow10[k] - 1) /\ j = a * Pow10[k] + 0
    BY <1>6, <1>7
  <2> QED BY <1>6, <1>7, <2>1, DivModUnique
<1>9. DroppedDigit(0, k) = 0
  <2> DEFINE p == Pow10[k]
  <2>1. p \in Nat \ {0}
    BY <1>6
  <2> HIDE DEF p
  <2>2. (10 * 0) \div p = 0 /\ (10 * 0) % p = 0
    <3>1. 0 \in 0..(p - 1) /\ 0 = 0 * p + 0
      BY <2>1
    <3> QED BY <2>1, <3>1, DivModUnique
  <2>3. DroppedDigit(0, k) = IF (10 * 0) \div p \in {0, 5} /\ (10 * 0) % p # 0
                             THEN (10 * 0) \div p + 1 ELSE (10 * 0) \div p
    BY Zenon DEF DroppedDigit, p
  <2> QED BY <2>2, <2>3
<1>10. n = m * Pow10[i] /\ Pow10[i] \in Nat \ {0}
  <2>1. m * u \in Nat
    BY <1>2
  <2> QED BY <1>2, <2>1
<1>11. Position(v, a, e) = "EXACT"
  <2>1. m \in Nat \ {0} /\ e = (g + i) - w /\ d + i <= MaxShift /\ d + w <= P /\ i \in Nat /\ w \in Nat
        /\ IsDigits(d, m)
    BY <1>2, <1>4, <1>5
  <2> HIDE DEF g
  <2> QED BY <1>3, <1>10, <2>1, WholeGrid
<1> QED BY <1>8, <1>9, <1>11 DEF e, z, d, m

\* A number that scale calls too large has a sum too large for the format.
LEMMA OverflowPast ==
  ASSUME Room, D + 4 <= MaxShift,
         NEW v, NEW b, NEW n, NEW y, NEW rem, Begun(v, b, n, y, rem), y.mant # 0,
         TooLarge(y.exp + Digits(y.mant) - P)
  PROVE  Rounded(v, "RNDZ").past
<1>1. /\ P \in Nat /\ P > 1 /\ D \in Nat /\ D = 2 * P + 2
      /\ MaxShift \in Nat /\ D + 4 <= MaxShift /\ EMin \in Int /\ EMax \in Int
  BY RegisterFacts, DpdAssumption, DecimalAssumption
<1> DEFINE i == y.exp - (b - 3)
           u == Pow10[i]
           m == y.mant
           d == Digits(m)
           g == b - 3
           c == v.e - g
           w == Digits(v.n)
<1>2. /\ m \in Nat /\ y.exp \in Int /\ b \in Int /\ n \in Nat /\ u \in Nat \ {0}
      /\ i \in {3, 4} /\ d \in 1..D /\ IsDigits(d, m)
      /\ 0 <= n - (m * u) /\ n - (m * u) < u
  BY BegunFacts
<1>3. OnGrid(v, g, n)
  BY DEF Begun
<1>4. /\ v.n \in Nat /\ v.e \in Int /\ v.d = 1 /\ c \in 0..MaxShift /\ Pow10[c] \in Nat \ {0}
      /\ n = v.n * Pow10[c] /\ v.n <= n
  BY <1>3, GridType DEF OnGrid
<1> HIDE DEF d, m, w
<1>5. m # 0
  BY DEF m
<1>6. y.exp + d - P > EMax
  BY DEF TooLarge, d, m
<1>7. d + i \in 0..MaxShift /\ (d - 1) + i \in 0..MaxShift /\ d + i \in Nat /\ i \in Nat /\ d \in Nat /\ d - 1 \in Nat
      /\ d \in 0..MaxShift /\ d - 1 \in 0..MaxShift /\ i \in 0..MaxShift
  BY <1>1, <1>2
<1> HIDE DEF u
<1>8. m * u <= n /\ n < (m * u) + u /\ m * u \in Nat
  <2>1. m * u \in Nat
    BY <1>2
  <2> QED BY <1>2, <2>1
<1>9. n < Pow10[d + i] /\ Pow10[d + i] \in Nat
  <2>1. m + 1 <= Pow10[d] /\ Pow10[d] \in Nat
    <3>1. m < Pow10[d] /\ Pow10[d] \in Nat
      BY <1>2, <1>7, PowerType DEF IsDigits
    <3> QED BY <1>2, <3>1
  <2>2. (m + 1) * u <= Pow10[d] * u
    BY <1>2, <2>1, TimesMonotonic
  <2>3. (m + 1) * u = (m * u) + u
    BY <1>2
  <2>4. Pow10[d + i] = Pow10[d] * u
    <3>1. d + i <= MaxShift
      BY <1>7
    <3> QED BY <1>7, <3>1, PowerSum DEF u
  <2>5. Pow10[d] * u \in Nat
    BY <1>2, <2>1
  <2> QED BY <1>2, <1>8, <2>2, <2>3, <2>4, <2>5
<1>10. Pow10[(d - 1) + i] <= n
  <2>1. Pow10[d - 1] <= m /\ Pow10[d - 1] \in Nat
    <3>1. CASE d = 1
      <4>1. Pow10[d - 1] = 1
        BY <3>1, SmallPowers
      <4> QED BY <1>2, <1>5, <4>1
    <3>2. CASE d # 1
      BY <1>2, <1>7, <3>2, PowerType DEF IsDigits
    <3> QED BY <3>1, <3>2
  <2>2. Pow10[d - 1] * u <= m * u
    BY <1>2, <2>1, TimesMonotonic
  <2>3. Pow10[(d - 1) + i] = Pow10[d - 1] * u
    <3>1. (d - 1) + i <= MaxShift
      BY <1>7
    <3> QED BY <1>7, <3>1, PowerSum DEF u
  <2>4. Pow10[d - 1] * u \in Nat
    BY <1>2, <2>1
  <2> QED BY <1>2, <1>8, <2>2, <2>3, <2>4
<1>11. IsDigits(w, v.n)
  <2>1. v.n < Pow10[d + i]
    BY <1>2, <1>4, <1>9
  <2>2. v.n < Pow10[MaxShift]
    BY <1>4, <1>7, <2>1, FitsTable
  <2> QED BY <1>4, <2>2, DigitsMeaning DEF w
<1>12. w \in 1..MaxShift /\ v.n < Pow10[w] /\ Pow10[w] \in Nat
  <2>1. w \in 1..MaxShift /\ v.n < Pow10[w]
    BY <1>11 DEF IsDigits
  <2> QED BY <2>1, PowerType
<1> HIDE DEF c, i
<1>13. (d - 1) + i < w + c
  <2> SUFFICES ASSUME w + c <= (d - 1) + i PROVE FALSE
    BY <1>4, <1>7, <1>12
  <2>1. w + c <= MaxShift /\ w + c \in 0..MaxShift /\ w \in Nat /\ c \in Nat
    BY <1>1, <1>4, <1>7, <1>12
  <2>2. Pow10[w + c] = Pow10[w] * Pow10[c]
    BY <2>1, PowerSum
  <2>3. Pow10[w + c] <= Pow10[(d - 1) + i] /\ Pow10[w + c] \in Nat /\ Pow10[(d - 1) + i] \in Nat
    BY <1>7, <2>1, PowerOrder, PowerType
  <2>4. (v.n + 1) * Pow10[c] <= Pow10[w] * Pow10[c]
    BY <1>4, <1>12, TimesMonotonic
  <2>5. (v.n + 1) * Pow10[c] = (v.n * Pow10[c]) + Pow10[c]
    BY <1>4
  <2> QED BY <1>2, <1>4, <1>10, <2>2, <2>3, <2>4, <2>5
<1>14. v.e + w - P > EMax
  <2>1. c = v.e - g /\ i = y.exp - g /\ g \in Int
    BY <1>2 DEF c, i
  <2> HIDE DEF g
  <2> QED BY <1>1, <1>2, <1>4, <1>6, <1>7, <1>12, <1>13, <2>1
<1>15. v.n \div v.d = v.n
  <2>1. 0 \in 0..(1 - 1) /\ v.n = v.n * 1 + 0
    BY <1>4
  <2>2. v.n \div 1 = v.n
    BY <1>4, <2>1
  <2> QED BY <1>4, <2>2
<1>16. MaxOf(EMin, v.e + Digits(v.n \div v.d) - P) > EMax
  BY <1>1, <1>4, <1>12, <1>14, <1>15 DEF MaxOf, w
<1> QED BY <1>16 DEF Rounded

\* What scale promises of the number it returns.
ScaledRight(v, rem, r) ==
  /\ v.n = 0 => r.x.special = "ZERO"
  /\ r.x.special = "ZERO" /\ v.n # 0 => Position(v, 0, EMin) = "BELOW"
  /\ v.n # 0 /\ r.x.special = "NUMBER" /\ r.rem # TotalOverflow
       => Position(v, r.x.mant, r.x.exp) = RemClass(Combine(rem, r.rem))

LEMMA ScaleOutcome ==
  ASSUME Room, NEW v, NEW b, NEW n, NEW y, NEW rem, Begun(v, b, n, y, rem)
  PROVE  /\ ScaledRight(v, rem, DpdScale(y))
         /\ DpdScale(y).rem = TotalOverflow =>
              /\ y.mant # 0 /\ TooLarge(y.exp + Digits(y.mant) - P)
              /\ DpdScale(y).x.mant = MaxMant /\ DpdScale(y).x.exp = EMax
<1>1. /\ P \in Nat /\ P > 1 /\ D \in Nat /\ D = 2 * P + 2
      /\ MaxShift \in Nat /\ D + 2 <= MaxShift /\ EMin \in Int /\ EMax \in Int
  BY RegisterFacts, DpdAssumption, DecimalAssumption
<1> DEFINE i == y.exp - (b - 3)
           m == y.mant
           d == Digits(m)
           z == D - d
           j == m * Pow10[z]
           e == y.exp + d - P
           r == DpdScale(y)
<1>2. /\ y \in Impl /\ m \in Nat /\ y.exp \in Int /\ b \in Int /\ n \in Nat
      /\ i \in {3, 4} /\ d \in 1..D /\ IsDigits(d, m) /\ EMin <= b + D - 1
      /\ rem \in 0..9 /\ (rem # 0 => d >= D - 1 /\ m # 0)
  BY BegunFacts
<1>3. y.special = "NUMBER"
  BY DEF Begun, Truncates
<1>4. v.n = 0 <=> m = 0
  BY ZeroArrives
<1>5. CASE Vanishes(y, e)
  <2>1. r = Underflowed(y)
    BY <1>5 DEF DpdScale
  <2>2. r.x.special = "ZERO" /\ r.rem = 26
    BY <1>2, <2>1 DEF Underflowed, Impl
  <2>3. v.n # 0 => Position(v, 0, EMin) = "BELOW"
    BY <1>5, VanishedIsBelow
  <2> HIDE DEF r
  <2> QED BY <2>2, <2>3 DEF ScaledRight, TotalOverflow, r
<1>6. CASE ~Vanishes(y, e) /\ TooLarge(e)
  <2>1. r = Overflowed(y)
    BY <1>6 DEF DpdScale
  <2>2. r.x.special = "NUMBER" /\ r.rem = 10 /\ r.x.mant = MaxMant /\ r.x.exp = EMax
    <3> HIDE DEF r, e, m
    <3>1. r.rem = 10 /\ r.x = [y EXCEPT !.mant = MaxMant, !.exp = EMax]
      BY <2>1 DEF Overflowed
    <3> QED BY <1>2, <1>3, <3>1 DEF Impl
  <2>3. m # 0
    BY <1>6 DEF Vanishes
  <2>4. ScaledRight(v, rem, r)
    <3> HIDE DEF r, m
    <3> QED BY <1>4, <2>2, <2>3 DEF ScaledRight, TotalOverflow
  <2> QED BY <1>6, <2>2, <2>3, <2>4
<1>7. CASE ~Vanishes(y, e) /\ ~TooLarge(e)
  <2>1. m # 0 /\ v.n # 0 /\ EMin - P <= e /\ e <= EMax
    <3>1. m # 0 /\ ~(e < EMin - P) /\ ~(e > EMax)
      BY <1>7 DEF Vanishes, TooLarge
    <3>2. e \in Int
      <4> HIDE DEF d, m
      <4> QED BY <1>1, <1>2
    <3> HIDE DEF e, m
    <3> QED BY <1>1, <1>4, <3>1, <3>2
  <2> DEFINE k == IF e < EMin THEN (D - P) + EMin - e ELSE D - P
             dd == DroppedDigit(j % Pow10[k], k)
             q == y.exp + k - z
  <2>3. k \in (D - P)..D /\ k \in 1..D
    <3> HIDE DEF e
    <3>1. e \in Int
      <4> HIDE DEF d, m
      <4> QED BY <1>1, <1>2 DEF e
    <3> QED BY <1>1, <2>1, <3>1
  <2>6. dd \in 0..9
    <3> HIDE DEF k
    <3>1. k \in 0..MaxShift
      BY <1>1, <2>3
    <3>2. j \in Nat /\ Pow10[k] \in Nat \ {0}
      <4>1. z \in 0..MaxShift
        <5> HIDE DEF d
        <5> QED BY <1>1, <1>2
      <4>2. Pow10[z] \in Nat
        BY <4>1, PowerType
      <4> HIDE DEF z, m
      <4> QED BY <1>2, <3>1, <4>2, PowerType DEF j
    <3>3. j % Pow10[k] \in Nat /\ j % Pow10[k] < Pow10[k]
      <4> HIDE DEF j
      <4>1. j % Pow10[k] \in 0..(Pow10[k] - 1)
        BY <3>2, DivMod
      <4> QED BY <3>2, <4>1
    <3> HIDE DEF j
    <3> QED BY <3>1, <3>3, DropClass
  <2>2. /\ r.x.special = "NUMBER" /\ r.x.mant = j \div Pow10[k] /\ r.x.exp = q
        /\ r.rem \in {dd, 16 + dd, 32}
        /\ (r.rem = 32 => d = P /\ k = D - P)
    <3>1. CASE e < EMin
      <4>1. r = CutSubnormal(y, j, k)
        <5>1. r = CutSubnormal(y, j, (D - P) + EMin - e)
          BY <1>7, <3>1 DEF DpdScale
        <5> QED BY <3>1, <5>1
      <4>2. q = EMin
        <5> HIDE DEF d, m
        <5> QED BY <1>1, <1>2, <3>1
      <4> HIDE DEF r, k, j, e, q, dd
      <4>3. /\ r.x.special = "NUMBER" /\ r.x.mant = j \div Pow10[k] /\ r.x.exp = EMin
            /\ r.rem = 16 + DroppedDigit(j % Pow10[k], k)
        BY <1>2, <1>3, <4>1 DEF CutSubnormal, Impl
      <4>4. r.rem = 16 + dd
        BY <4>3 DEF dd
      <4>5. r.rem # 32
        BY <2>6, <4>4
      <4> QED BY <4>2, <4>3, <4>4, <4>5
    <3>2. CASE ~(e < EMin)
      <4>1. k = D - P
        BY <3>2
      <4>2. r = [x |-> [y EXCEPT !.mant = j \div Pow10[D - P], !.exp = e],
                 rem |-> IF d = P THEN 32 ELSE DroppedDigit(j % Pow10[D - P], D - P)]
        BY <1>7, <3>2 DEF DpdScale
      <4>3. q = e
        <5> HIDE DEF d, m
        <5> QED BY <1>1, <1>2, <4>1
      <4> HIDE DEF r, k, j, e, q, dd
      <4>4. /\ r.x.special = "NUMBER" /\ r.x.mant = j \div Pow10[k] /\ r.x.exp = e
            /\ r.rem = IF d = P THEN 32 ELSE DroppedDigit(j % Pow10[k], k)
        BY <1>2, <1>3, <4>1, <4>2 DEF Impl
      <4>5. r.rem = IF d = P THEN 32 ELSE dd
        BY <4>4 DEF dd
      <4>6. dd # 32
        BY <2>6
      <4> QED BY <4>1, <4>3, <4>4, <4>5, <4>6
    <3> QED BY <3>1, <3>2
  <2>4. q - (b - 3) <= MaxShift
    <3> HIDE DEF d, m
    <3>1. CASE e < EMin
      <4>1. q = EMin
        BY <1>1, <1>2, <3>1
      <4> HIDE DEF q
      <4> QED BY <1>1, <1>2, <4>1
    <3>2. CASE ~(e < EMin)
      BY <1>1, <1>2, <3>2
    <3> QED BY <3>1, <3>2
  <2> HIDE DEF r, k
  <2>5. Position(v, j \div Pow10[k], q) = RemClass(Combine(rem, r.rem))
    <3>1. CASE z < k /\ r.rem # 32
      <4>1. r.rem \in {dd, 16 + dd}
        BY <2>2, <3>1
      <4> DEFINE t == r.rem
      <4>2. t \in {DroppedDigit((y.mant * Pow10[D - Digits(y.mant)]) % Pow10[k], k),
                   16 + DroppedDigit((y.mant * Pow10[D - Digits(y.mant)]) % Pow10[k], k)}
        BY <4>1
      <4>3. k \in 1..D /\ D - Digits(y.mant) < k
            /\ y.exp + k - (D - Digits(y.mant)) - (b - 3) <= MaxShift
        <5>1. k \in 1..D
          BY <2>3
        <5>2. D - Digits(y.mant) < k
          BY <3>1, Zenon
        <5>3. y.exp + k - (D - Digits(y.mant)) - (b - 3) <= MaxShift
          <6> HIDE DEF d
          <6>1. y.exp + k - z - (b - 3) <= MaxShift
            BY <1>1, <1>2, <2>3, <2>4
          <6> QED BY <6>1 DEF d
        <5> QED BY <5>1, <5>2, <5>3, Zenon
      <4> HIDE DEF t
      <4>4. Position(v, (y.mant * Pow10[D - Digits(y.mant)]) \div Pow10[k],
                     y.exp + k - (D - Digits(y.mant))) = RemClass(Combine(rem, t))
        BY <4>2, <4>3, CutPlace
      <4> QED BY <4>4 DEF t
    <3>2. CASE k <= z /\ r.rem # 32
      <4>1. rem = 0
        <5> HIDE DEF d, m
        <5> QED BY <1>1, <1>2, <2>3, <3>2
      <4>2. Position(v, j \div Pow10[k], q) = "EXACT" /\ dd = 0
        BY <2>1, <2>3, <3>2, <4>1, WholePlace
      <4>3. r.rem \in {0, 16}
        BY <2>2, <3>2, <4>2
      <4>4. RemClass(Combine(0, r.rem)) = "EXACT"
        <5>1. r.rem \in Remainder /\ 0 \in Remainder /\ RemClass(0) = "EXACT" /\ RemClass(r.rem) = "EXACT"
          BY <4>3 DEF Remainder, RemClass
        <5> QED BY <5>1, CombineClass
      <4> QED BY <4>1, <4>2, <4>4
    <3>3. CASE r.rem = 32
      <4>1. d = P /\ k = D - P /\ z = k
        <5>1. d = P /\ k = D - P
          BY <2>2, <3>3
        <5> HIDE DEF d
        <5> QED BY <1>1, <5>1
      <4>2. q = y.exp
        <5> HIDE DEF z
        <5> QED BY <1>1, <1>2, <2>3, <4>1
      <4>3. j \div Pow10[k] = m
        <5>1. Pow10[k] \in Nat \ {0}
          <6>1. k \in 0..MaxShift
            BY <1>1, <2>3
          <6> QED BY <6>1, PowerType
        <5>2. j = m * Pow10[k]
          BY <4>1
        <5> HIDE DEF j, m
        <5>3. 0 \in 0..(Pow10[k] - 1) /\ j = m * Pow10[k] + 0 /\ j \in Nat /\ m \in Int
          BY <1>2, <5>1, <5>2
        <5> QED BY <5>1, <5>3, DivModUnique
      <4>4. Combine(rem, 32) = rem
        BY DEF Combine
      <4> QED BY <3>3, <4>2, <4>3, <4>4, AddSubPlace
    <3>4. z < k \/ k <= z
      <4> HIDE DEF d
      <4> QED BY <1>1, <1>2, <2>3
    <3> QED BY <3>1, <3>2, <3>3, <3>4
  <2>8. r.rem # TotalOverflow
    <3> HIDE DEF dd
    <3> QED BY <2>2, <2>6 DEF TotalOverflow
  <2>7. ScaledRight(v, rem, r)
    <3> HIDE DEF j, q, m
    <3> QED BY <2>1, <2>2, <2>5 DEF ScaledRight
  <2> QED BY <2>7, <2>8 DEF r
<1> QED BY <1>5, <1>6, <1>7

-----------------------------------------------------------------------------
(* The call                                                                *)

\* The run is of this library, on pairs that it is called with.
Linked ==
  /\ \A s, a, c : ImplAddSub(s, a, c) = DpdAddSub(s, a, c)
  /\ \A y : ImplScale(y) = DpdScale(y)
  /\ \A a, c : ImplMul(a, c) = DpdMul(a, c) /\ ImplDiv(a, c) = DpdDiv(a, c)

\* What addsub returned is the exact sum truncated, and what scale returned was
\* made of that.
SumInv ==
  /\ pc \in {"addsub", "scale", "done"}
  /\ sgn \in {-1, 1} /\ Addend(lhs) /\ Addend(rhs) /\ rhs.exp >= EMin
  /\ pc = "scale" => \E b, n : Begun(Value, b, n, x, rem1)
  /\ pc = "done" => \E b, n, y : /\ Begun(Value, b, n, y, rem1)
                                 /\ x = DpdScale(y).x /\ rem2 = DpdScale(y).rem

LEMMA SumInvInit ==
  ASSUME AddendPairs, Init
  PROVE  SumInv
<1>1. PICK p \in Operands : lhs = p[1] /\ rhs = p[2]
  BY DEF Init
<1>2. pc = "addsub" /\ sgn \in {-1, 1}
  BY DEF Init
<1> QED BY <1>1, <1>2 DEF SumInv, AddendPairs

LEMMA SumInvNext ==
  ASSUME Room, Linked, SumInv, [Next]_vars
  PROVE  SumInv'
<1>1. CASE AddSub
  <2>1. pc' = "scale" /\ sgn' = sgn /\ lhs' = lhs /\ rhs' = rhs
    BY <1>1 DEF AddSub
  <2>2. x' = DpdAddSub(sgn, lhs, rhs).x /\ rem1' = DpdAddSub(sgn, lhs, rhs).rem
    <3>1. x' = ImplAddSub(sgn, lhs, rhs).x /\ rem1' = ImplAddSub(sgn, lhs, rhs).rem
      BY <1>1 DEF AddSub
    <3>2. ImplAddSub(sgn, lhs, rhs) = DpdAddSub(sgn, lhs, rhs)
      BY DEF Linked
    <3> QED BY <3>1, <3>2
  <2>3. sgn \in {-1, 1} /\ Addend(lhs) /\ Addend(rhs) /\ rhs.exp >= EMin
    BY DEF SumInv
  <2>4. Value' = SumOf(sgn, lhs, rhs)
    BY <2>1 DEF Value, SumOf
  <2>5. PICK b \in Int, n \in Nat :
           /\ rhs.exp <= b + D - 1
           /\ OnGrid(SumOf(sgn, lhs, rhs), b - 3, n)
           /\ Truncates(DpdAddSub(sgn, lhs, rhs).x, DpdAddSub(sgn, lhs, rhs).rem, b, n)
    BY <2>3, AddSubSum
  <2>6. EMin <= b + D - 1
    <3>1. rhs.exp \in Int /\ EMin \in Int /\ D \in Nat
      BY <2>3, AddendDigits, RegisterFacts, DpdAssumption, DecimalAssumption
    <3> QED BY <2>3, <2>5, <3>1
  <2>7. Begun(Value', b, n, x', rem1')
    BY <2>2, <2>4, <2>5, <2>6 DEF Begun
  <2>8. (\E c, m : Begun(Value, c, m, x, rem1))'
    BY <2>7
  <2> QED BY <2>1, <2>3, <2>8 DEF SumInv
<1>2. CASE ScaleSum
  <2>1. pc = "scale" /\ pc' = "done" /\ sgn' = sgn /\ lhs' = lhs /\ rhs' = rhs /\ rem1' = rem1
    BY <1>2 DEF ScaleSum
  <2>2. x' = DpdScale(x).x /\ rem2' = DpdScale(x).rem
    <3>1. x' = ImplScale(x).x /\ rem2' = ImplScale(x).rem
      BY <1>2 DEF ScaleSum
    <3>2. ImplScale(x) = DpdScale(x)
      BY DEF Linked
    <3> QED BY <3>1, <3>2
  <2>3. Value' = Value
    BY <2>1 DEF Value
  <2>4. PICK b, n : Begun(Value, b, n, x, rem1)
    BY <2>1 DEF SumInv
  <2>5. Begun(Value', b, n, x, rem1')
    BY <2>1, <2>3, <2>4
  <2> QED BY <2>1, <2>2, <2>5 DEF SumInv
<1>3. CASE UNCHANGED vars
  <2>1. Value' = Value
    BY <1>3 DEF vars, Value
  <2> QED BY <1>3, <2>1 DEF SumInv, vars
<1> QED BY <1>1, <1>2, <1>3 DEF Next

LEMMA SumInvHolds ==
  ASSUME Room, Linked, AddendPairs
  PROVE  Spec => []SumInv
<1>1. Init => SumInv
  BY SumInvInit
<1>2. SumInv /\ [Next]_vars => SumInv'
  BY SumInvNext
<1> QED BY <1>1, <1>2, PTL DEF Spec

\* addsub of libfpfd-dpd, at every precision and exponent range: its result is
\* the exact sum truncated and its remainder is honest about what was cut off,
\* at every distance of the operands and through a carry, a borrow and a change
\* of sign.
THEOREM DpdAddSubHonest ==
  ASSUME Room, Linked, AddendPairs
  PROVE  Spec => []AddSubHonest
<1>1. SumInv => AddSubHonest
  <2> SUFFICES ASSUME SumInv, Added PROVE Honest(rem1)
    BY DEF AddSubHonest
  <2>1. PICK b, n : Begun(Value, b, n, x, rem1)
    BY DEF SumInv, Added
  <2>2. Position(Value, x.mant, x.exp) = RemClass(rem1)
    BY <2>1, AddSubPlace
  <2> QED BY <2>2 DEF Honest
<1> QED BY <1>1, SumInvHolds, PTL

\* scale truncates what addsub returned a second time, or makes it shorter, or
\* leaves it alone, and fpfd32_impl_round2's combination of the two remainders
\* is honest about the exact sum.
THEOREM DpdCombinedHonest ==
  ASSUME Room, Linked, AddendPairs
  PROVE  Spec => []CombinedHonest
<1>1. SumInv => CombinedHonest
  <2> SUFFICES ASSUME SumInv, Scaled PROVE Honest(Combine(rem1, rem2))
    BY DEF CombinedHonest
  <2>1. PICK b, n, y : Begun(Value, b, n, y, rem1) /\ x = DpdScale(y).x /\ rem2 = DpdScale(y).rem
    BY DEF SumInv, Scaled
  <2>2. ScaledRight(Value, rem1, DpdScale(y))
    BY <2>1, ScaleOutcome
  <2> QED BY <2>1, <2>2 DEF ScaledRight, Scaled, Honest
<1> QED BY <1>1, SumInvHolds, PTL

\* A sum becomes a zero when it is one or is less than half a unit of the
\* smallest exponent, and an exact zero always does.
THEOREM DpdZeroIsZero ==
  ASSUME Room, Linked, AddendPairs
  PROVE  Spec => []ZeroIsZero
<1>1. SumInv => ZeroIsZero
  <2> SUFFICES ASSUME SumInv, pc = "done"
               PROVE  /\ Value.n = 0 => x.special = "ZERO"
                      /\ x.special = "ZERO" /\ Value.n # 0 => Position(Value, 0, EMin) = "BELOW"
    BY DEF ZeroIsZero
  <2>1. PICK b, n, y : Begun(Value, b, n, y, rem1) /\ x = DpdScale(y).x /\ rem2 = DpdScale(y).rem
    BY DEF SumInv
  <2>2. ScaledRight(Value, rem1, DpdScale(y))
    BY <2>1, ScaleOutcome
  <2> QED BY <2>1, <2>2 DEF ScaledRight
<1> QED BY <1>1, SumInvHolds, PTL

\* What scale calls too large has an exact sum beyond the largest exponent, and
\* it is clamped to the largest number.  The reference counts the digits of the
\* sum before it is truncated, one more than the other theorems need.
THEOREM DpdOverflowIsLarge ==
  ASSUME Room, D + 4 <= MaxShift, Linked, AddendPairs
  PROVE  Spec => []OverflowIsLarge
<1>1. SumInv => OverflowIsLarge
  <2> SUFFICES ASSUME SumInv, pc = "done", rem2 = TotalOverflow
               PROVE  Rounded(Value, "RNDZ").past /\ x.mant = MaxMant /\ x.exp = EMax
    BY DEF OverflowIsLarge
  <2>1. PICK b, n, y : Begun(Value, b, n, y, rem1) /\ x = DpdScale(y).x /\ rem2 = DpdScale(y).rem
    BY DEF SumInv
  <2>2. /\ y.mant # 0 /\ TooLarge(y.exp + Digits(y.mant) - P)
        /\ DpdScale(y).x.mant = MaxMant /\ DpdScale(y).x.exp = EMax
    BY <2>1, ScaleOutcome
  <2>3. Rounded(Value, "RNDZ").past
    BY <2>1, <2>2, OverflowPast
  <2> QED BY <2>1, <2>2, <2>3
<1> QED BY <1>1, SumInvHolds, PTL

-----------------------------------------------------------------------------
(* mul                                                                     *)

IsShiftedSum(f, t) ==
  f = [i \in 0..LastPair |-> (IF i = 0 THEN 0 ELSE f[i-1]) + t[i] * Pow10[2 * i]]

LEMMA PairPlaces ==
  /\ P \in Nat /\ LastPair \in Nat /\ P <= 2 * (LastPair + 1)
  /\ \A i \in 0..LastPair : 2 * i \in 0..MaxShift /\ 2 * i + 2 \in 0..MaxShift /\ i \in Nat
<1>1. P \in Nat \ {0} /\ MaxShift \in Nat /\ P < MaxShift
  BY DecimalAssumption
<1>2. LastPair \in Nat /\ 2 * LastPair <= P - 1 /\ P - 1 < 2 * LastPair + 2
  BY <1>1 DEF LastPair
<1> QED BY <1>1, <1>2

LEMMA ShiftedSum ==
  ASSUME NEW t \in [0..LastPair -> Nat]
  PROVE  \E f \in [0..LastPair -> Nat] :
           /\ AddShifted(t) = f[LastPair] /\ f[0] = t[0]
           /\ \A i \in 1..LastPair : f[i] = f[i-1] + (t[i] * Pow10[2 * i])
<1>1. LastPair \in Nat /\ \A i \in 0..LastPair : 2 * i \in 0..MaxShift
  BY PairPlaces
<1>2. \A i \in 0..LastPair : t[i] \in Nat /\ Pow10[2 * i] \in Nat /\ t[i] * Pow10[2 * i] \in Nat
  BY <1>1, PowerType
<1>3. Pow10[2 * 0] = 1 /\ 0 \in 0..LastPair
  BY <1>1, DecimalAssumption
<1> DEFINE term(i) == t[i] * Pow10[2 * i]
           step == [p \in Nat \X Nat |-> p[2] + (IF p[1] \in 0..LastPair THEN term(p[1]) ELSE 0)]
<1>4. \A i \in 0..LastPair : term(i) \in Nat
  BY <1>2
<1>5. term(0) = t[0]
  BY <1>2, <1>3
<1> HIDE DEF term
<1>6. step \in [Nat \X Nat -> Nat]
  BY <1>4
<1>7. term(0) \in Nat
  BY <1>3, <1>4
<1>8. PICK f \in [0..LastPair -> Nat] :
        f[0] = term(0) /\ \A k \in 1..LastPair : f[k] = step[<<k, f[k-1]>>]
  <2> DEFINE z == term(0)
  <2>1. z \in Nat
    BY <1>7
  <2> HIDE DEF step, z
  <2>2. RecursionEnds(Nat, z, step, LastPair)
    BY <1>1, <1>6, <2>1, Recursion
  <2> QED BY <2>2 DEF RecursionEnds, Recursive, z
<1>9. ASSUME NEW k \in 1..LastPair PROVE k \in 0..LastPair /\ f[k-1] \in Nat /\ f[k] = f[k-1] + term(k)
  <2>1. k \in 0..LastPair /\ k \in Nat /\ k - 1 \in 0..LastPair /\ f[k-1] \in Nat
    BY <1>1
  <2>2. <<k, f[k-1]>> \in Nat \X Nat
    BY <2>1
  <2>3. step[<<k, f[k-1]>>] = f[k-1] + term(k)
    BY <2>1, <2>2
  <2> QED BY <1>8, <2>1, <2>3
<1>10. ASSUME NEW i \in 0..LastPair PROVE f[i] = (IF i = 0 THEN 0 ELSE f[i-1]) + term(i)
  <2>1. CASE i = 0
    BY <1>7, <1>8, <2>1
  <2>2. CASE i # 0
    <3>1. i \in 1..LastPair
      BY <1>1, <2>2
    <3> QED BY <1>9, <2>2, <3>1
  <2> QED BY <2>1, <2>2
<1>11. f = [i \in 0..LastPair |-> (IF i = 0 THEN 0 ELSE f[i-1]) + term(i)]
  BY <1>10
<1>12. IsShiftedSum(f, t)
  BY <1>11, Zenon DEF IsShiftedSum, term
<1> DEFINE g == CHOOSE h : IsShiftedSum(h, t)
<1>13. IsShiftedSum(g, t)
  BY <1>12, Zenon
<1>14. AddShifted(t) = g[LastPair]
  BY Zenon DEF AddShifted, IsShiftedSum
<1> HIDE DEF g
<1>15. g = [i \in 0..LastPair |-> (IF i = 0 THEN 0 ELSE g[i-1]) + term(i)]
  BY <1>13, Zenon DEF IsShiftedSum, term
<1>16. g[0] = 0 + term(0)
  BY <1>3, <1>15
<1>17. ASSUME NEW i \in 1..LastPair PROVE g[i] = g[i-1] + term(i)
  <2>1. i \in 0..LastPair /\ i # 0
    BY <1>1
  <2> QED BY <1>15, <2>1
<1>18. \A i \in 0..LastPair : g[i] \in Nat
  <2> DEFINE U == {i \in Nat : i <= LastPair => g[i] \in Nat}
  <2>1. 0 \in U
    BY <1>7, <1>16
  <2>2. ASSUME NEW k \in U PROVE k + 1 \in U
    <3> SUFFICES ASSUME k + 1 <= LastPair PROVE g[k + 1] \in Nat
      BY <2>2
    <3>1. k \in Nat /\ k + 1 \in 1..LastPair /\ k + 1 \in 0..LastPair /\ (k + 1) - 1 = k /\ g[k] \in Nat
      BY <1>1, <2>2
    <3>2. g[k + 1] = g[k] + term(k + 1) /\ term(k + 1) \in Nat
      BY <1>4, <1>17, <3>1
    <3> QED BY <3>1, <3>2
  <2>3. U \in SUBSET Nat
    OBVIOUS
  <2>4. U = Nat
    <3> HIDE DEF U
    <3> QED BY <2>1, <2>2, <2>3, SetInduction
  <2> QED BY <1>1, <2>4
<1>19. g \in [0..LastPair -> Nat]
  BY <1>15, <1>18
<1>20. g[0] = t[0] /\ \A i \in 1..LastPair : g[i] = g[i-1] + (t[i] * Pow10[2 * i])
  <2>1. g[0] = t[0]
    BY <1>3, <1>5, <1>7, <1>16
  <2>2. \A i \in 1..LastPair : g[i] = g[i-1] + (t[i] * Pow10[2 * i])
    BY <1>17 DEF term
  <2> QED BY <2>1, <2>2
<1> QED BY <1>14, <1>19, <1>20

\* The next two digits of a number.
LEMMA NextPair ==
  ASSUME NEW m \in Nat, NEW i \in 0..LastPair
  PROVE  /\ Pair(m, i) \in 0..99 /\ Pair(m, i) \in Nat
         /\ m % Pow10[2 * i + 2] = (m % Pow10[2 * i]) + (Pair(m, i) * Pow10[2 * i])
<1> DEFINE y == Pow10[2 * i]
           q == m \div y
           s == m % y
           u == q \div 100
           v == q % 100
<1>1. 2 * i \in 0..MaxShift /\ 2 * i + 2 \in 0..MaxShift /\ 2 * i + 1 \in 0..MaxShift
  BY PairPlaces, DecimalAssumption
<1>2. y \in Nat \ {0} /\ Pow10[2 * i + 2] = 100 * y
  <2>1. PICK w : w = 2 * i
    OBVIOUS
  <2>2. w \in 0..MaxShift /\ w + 1 \in 0..MaxShift /\ w + 2 \in 0..MaxShift /\ (w + 1) + 1 = w + 2
    BY <1>1, <2>1, DecimalAssumption
  <2>3. Pow10[w + 1] = 10 * Pow10[w] /\ Pow10[(w + 1) + 1] = 10 * Pow10[w + 1]
    BY <2>2, DecimalAssumption, PowerStep
  <2>4. Pow10[w] \in Nat \ {0}
    BY <2>2, PowerType
  <2>5. Pow10[w + 2] = 100 * Pow10[w]
    BY <2>2, <2>3, <2>4
  <2> QED BY <2>1, <2>4, <2>5
<1>3. Pair(m, i) = v
  BY DEF Pair
<1> HIDE DEF y
<1>4. q \in Nat /\ s \in 0..(y - 1) /\ (q * y) + s = m
  BY <1>2, DivMod
<1> HIDE DEF q, s
<1>5. u \in Nat /\ v \in 0..99 /\ (u * 100) + v = q
  BY <1>4
<1> HIDE DEF u, v
<1>6. m = (u * (100 * y)) + ((v * y) + s)
  <2>1. q * y = ((u * 100) + v) * y
    BY <1>5
  <2>2. ((u * 100) + v) * y = (u * (100 * y)) + (v * y)
    BY <1>2, <1>5
  <2>3. u * (100 * y) \in Nat /\ v * y \in Nat
    BY <1>2, <1>5
  <2> QED BY <1>2, <1>4, <2>1, <2>2, <2>3
<1>7. (v * y) + s \in 0..((100 * y) - 1)
  <2>1. v * y <= 99 * y /\ v * y \in Nat
    BY <1>2, <1>5, TimesMonotonic
  <2> QED BY <1>2, <1>4, <2>1
<1>8. m % (100 * y) = (v * y) + s
  <2> DEFINE c == (v * y) + s
             z == 100 * y
  <2>1. c \in 0..(z - 1) /\ m = (u * z) + c /\ z \in Nat \ {0} /\ u \in Int
    BY <1>2, <1>5, <1>6, <1>7
  <2> HIDE DEF c, z
  <2>2. m % z = c
    BY <2>1, DivModUnique
  <2> QED BY <2>2 DEF c, z
<1>9. v * y \in Nat
  BY <1>2, <1>5
<1> QED BY <1>2, <1>3, <1>4, <1>5, <1>8, <1>9 DEF y, s

\* t holds the products of d and the pairs of m.
Partial(t, m, d) == t \in [0..LastPair -> Nat] /\ \A i \in 0..LastPair : t[i] = Pair(m, i) * d

\* Shifted and added, the products of all pairs make the product.
LEMMA AddShiftedProduct ==
  ASSUME NEW m \in Nat, m < Pow10[P], NEW d \in Nat, NEW t, Partial(t, m, d)
  PROVE  AddShifted(t) = m * d
<1>1. /\ P \in Nat /\ LastPair \in Nat /\ P <= 2 * (LastPair + 1)
      /\ \A i \in 0..LastPair : 2 * i \in 0..MaxShift /\ 2 * i + 2 \in 0..MaxShift /\ i \in Nat
  BY PairPlaces
<1>2. \A i \in 0..LastPair : t[i] = Pair(m, i) * d
  BY DEF Partial
<1>3. t \in [0..LastPair -> Nat]
  BY DEF Partial
<1>4. PICK f \in [0..LastPair -> Nat] :
        /\ AddShifted(t) = f[LastPair] /\ f[0] = t[0]
        /\ \A i \in 1..LastPair : f[i] = f[i-1] + (t[i] * Pow10[2 * i])
  BY <1>3, ShiftedSum
<1> DEFINE low(i) == m % Pow10[2 * i]
<1>5. ASSUME NEW i \in 0..LastPair
      PROVE  /\ low(i + 1) = low(i) + (Pair(m, i) * Pow10[2 * i])
             /\ low(i) \in Nat /\ Pow10[2 * i] \in Nat /\ Pair(m, i) \in Nat
             /\ low(i + 1) * d = (low(i) * d) + ((Pair(m, i) * d) * Pow10[2 * i])
  <2>1. 2 * (i + 1) = 2 * i + 2 /\ 2 * i \in 0..MaxShift
    BY <1>1
  <2>2. low(i + 1) = low(i) + (Pair(m, i) * Pow10[2 * i]) /\ Pair(m, i) \in Nat
    <3>1. m % Pow10[2 * i + 2] = (m % Pow10[2 * i]) + (Pair(m, i) * Pow10[2 * i])
      BY NextPair
    <3>2. Pair(m, i) \in Nat
      BY NextPair
    <3>3. low(i + 1) = m % Pow10[2 * i + 2]
      BY <2>1
    <3>4. low(i) = m % Pow10[2 * i]
      OBVIOUS
    <3>5. low(i + 1) = low(i) + (Pair(m, i) * Pow10[2 * i])
      BY <3>1, <3>3, <3>4, Zenon
    <3> QED BY <3>2, <3>5, Zenon
  <2>3. Pow10[2 * i] \in Nat \ {0}
    BY <2>1, PowerType
  <2>4. low(i) \in Nat
    <3> DEFINE y == Pow10[2 * i]
    <3> HIDE DEF y
    <3>1. m % y \in 0..(y - 1)
      BY <2>3, DivMod DEF y
    <3> QED BY <2>3, <3>1 DEF y
  <2> DEFINE a == low(i)
             p == Pair(m, i)
             y == Pow10[2 * i]
  <2>5. low(i + 1) = a + (p * y) /\ a \in Nat /\ p \in Nat /\ y \in Nat
    BY <2>2, <2>3, <2>4
  <2> HIDE DEF low, a, p, y
  <2>6. (a + (p * y)) * d = (a * d) + ((p * d) * y)
    BY <2>5
  <2> QED BY <2>5, <2>6 DEF a, p, y
<1>6. low(0) = 0
  <2>1. 2 * 0 = 0 /\ Pow10[0] = 1 /\ m % 1 = 0
    BY DecimalAssumption
  <2> QED BY <2>1
<1> HIDE DEF low
<1> DEFINE U == {i \in Nat : i <= LastPair => f[i] = low(i + 1) * d}
<1>7. 0 \in U
  <2>1. 0 \in 0..LastPair /\ 0 + 1 = 1 /\ 2 * 0 = 0 /\ Pow10[0] = 1 /\ t[0] = Pair(m, 0) * d
    BY <1>1, <1>2, DecimalAssumption
  <2>2. low(1) * d = (low(0) * d) + ((Pair(m, 0) * d) * Pow10[2 * 0])
    BY <1>5, <2>1
  <2>3. f[0] = Pair(m, 0) * d /\ f[0] \in Nat
    BY <1>4, <2>1
  <2>4. low(1) * d = f[0]
    BY <1>6, <2>1, <2>2, <2>3
  <2> QED BY <2>1, <2>4
<1>8. ASSUME NEW k \in U PROVE k + 1 \in U
  <2> SUFFICES ASSUME k + 1 <= LastPair PROVE f[k + 1] = low((k + 1) + 1) * d
    BY <1>8
  <2>0. k \in Nat /\ (k <= LastPair => f[k] = low(k + 1) * d)
    BY <1>8
  <2> HIDE DEF U
  <2>1. k + 1 \in 1..LastPair /\ k + 1 \in 0..LastPair /\ (k + 1) - 1 = k /\ k <= LastPair
    BY <1>1, <2>0
  <2>2. f[k] = low(k + 1) * d
    BY <2>0, <2>1
  <2>3. f[k + 1] = f[k] + (t[k + 1] * Pow10[2 * (k + 1)])
    BY <1>4, <2>1
  <2>4. t[k + 1] = Pair(m, k + 1) * d
    BY <1>2, <2>1
  <2>5. low((k + 1) + 1) * d = (low(k + 1) * d) + ((Pair(m, k + 1) * d) * Pow10[2 * (k + 1)])
    BY <1>5, <2>1
  <2> QED BY <2>2, <2>3, <2>4, <2>5
<1>9. U = Nat
  <2>1. U \in SUBSET Nat
    OBVIOUS
  <2> HIDE DEF U
  <2> QED BY <1>7, <1>8, <2>1, SetInduction
<1>10. f[LastPair] = low(LastPair + 1) * d
  <2>1. LastPair \in U /\ LastPair <= LastPair
    <3> HIDE DEF U
    <3> QED BY <1>1, <1>9
  <2> QED BY <2>1
<1>11. low(LastPair + 1) = m
  <2>1. LastPair \in 0..LastPair /\ 2 * (LastPair + 1) = 2 * LastPair + 2
    BY <1>1
  <2>0. 2 * LastPair + 2 \in 0..MaxShift
    BY <1>1, <2>1
  <2>2. P \in 0..MaxShift /\ 2 * (LastPair + 1) \in 0..MaxShift
    BY <1>1, <2>0, <2>1, DecimalAssumption
  <2>3. Pow10[P] <= Pow10[2 * (LastPair + 1)] /\ Pow10[P] \in Nat /\ Pow10[2 * (LastPair + 1)] \in Nat
    BY <1>1, <2>2, PowerOrder, PowerType
  <2>4. m < Pow10[2 * (LastPair + 1)]
    BY <2>3
  <2> QED BY <2>3, <2>4, ModSmall DEF low
<1> QED BY <1>4, <1>10, <1>11

LEMMA PartialType ==
  ASSUME NEW m \in Nat, NEW d \in Nat
  PROVE  \A i \in 0..LastPair : Pair(m, i) * d \in Nat
<1> SUFFICES ASSUME NEW i \in 0..LastPair PROVE Pair(m, i) * d \in Nat
  OBVIOUS
<1> DEFINE p == Pair(m, i)
<1>1. p \in 0..99
  BY NextPair
<1> HIDE DEF p
<1>2. p * d \in Nat
  BY <1>1
<1> QED BY <1>2 DEF p

\* mul of libfpfd-dpd is exact: the pairs of digits that it looks up, each at its
\* place, add up to the product.
THEOREM DpdMulExact ==
  ASSUME NEW a \in Operand, NEW b \in Operand
  PROVE  DpdMul(a, b) = Number(a.mant * b.mant, a.exp + b.exp, a.sign * b.sign)
<1>1. P \in 0..MaxShift /\ Pow10[P] \in Nat
  <2>1. P \in 0..MaxShift
    BY DecimalAssumption
  <2> QED BY <2>1, PowerType
<1>2. a.mant \in Nat /\ a.mant < Pow10[P] /\ b.mant \in Nat /\ b.mant < Pow10[P]
  BY <1>1 DEF Operand, MaxMant
<1> DEFINE m == a.mant
           n == b.mant
<1>3. m \in Nat /\ n \in Nat /\ m < Pow10[P] /\ n < Pow10[P]
  BY <1>2
<1> HIDE DEF m, n
<1>4. ASSUME NEW d \in Nat PROVE TimesPair(m, d) = m * d
  <2> DEFINE t == [i \in 0..LastPair |-> TableProduct(Pair(m, i), d)]
  <2>1. Partial(t, m, d)
    BY <1>3, PartialType DEF TableProduct, Partial
  <2>2. TimesPair(m, d) = AddShifted(t)
    BY DEF TimesPair
  <2> HIDE DEF t
  <2> QED BY <1>3, <2>1, <2>2, AddShiftedProduct
<1> DEFINE t == [j \in 0..LastPair |-> TimesPair(m, Pair(n, j))]
<1>5. Partial(t, n, m)
  <2>1. ASSUME NEW j \in 0..LastPair PROVE TimesPair(m, Pair(n, j)) = Pair(n, j) * m
    <3>1. Pair(n, j) \in 0..99
      BY <1>3, NextPair
    <3> DEFINE p == Pair(n, j)
    <3>2. p \in Nat /\ TimesPair(m, p) = m * p
      BY <1>4, <3>1
    <3> HIDE DEF p
    <3>3. m * p = p * m
      BY <1>3, <3>2
    <3> QED BY <3>2, <3>3 DEF p
  <2> QED BY <1>3, <2>1, PartialType DEF Partial
<1>6. DpdMul(a, b) = Number(AddShifted(t), a.exp + b.exp, a.sign * b.sign)
  BY Zenon DEF DpdMul, m, n
<1> HIDE DEF t
<1>8. AddShifted(t) = n * m
  BY <1>3, <1>5, AddShiftedProduct
<1>9. n * m = m * n
  BY <1>3
<1> QED BY <1>6, <1>8, <1>9 DEF m, n

-----------------------------------------------------------------------------
(* div                                                                     *)

LEMMA DpdWidth ==
  /\ P \in Nat /\ P > 1 /\ D = 2 * P + 2 /\ D \in Nat /\ D < MaxShift /\ MaxShift \in Nat
BY DecimalAssumption, LibraryAssumption, DpdAssumption

\* A divisor at the left end of P digits.
Divisor(y) == y \in Nat \ {0} /\ Pow10[P - 1] <= y

LEMMA LeadingType ==
  ASSUME NEW m \in Nat
  PROVE  Leading(m) \in Nat /\ (Divisor(m) => Leading(m) >= 10)
<1> DEFINE u == Pow10[P - 2]
<1>1. P - 2 \in 0..MaxShift /\ P - 2 < MaxShift /\ (P - 2) + 1 = P - 1
  BY DpdWidth
<1>2. u \in Nat \ {0} /\ Pow10[P - 1] = 10 * u
  BY <1>1, PowerType, PowerStep
<1> HIDE DEF u
<1>3. m \div u \in Nat
  BY <1>2, DivMod
<1>4. ASSUME Divisor(m) PROVE m \div u >= 10
  <2>1. 10 * u <= m
    BY <1>2, <1>4 DEF Divisor
  <2>2. 10 <= m \div u
    BY <1>2, <2>1, DivLargest
  <2> QED BY <1>3, <2>2
<1> QED BY <1>3, <1>4 DEF u, Leading

LEMMA EstimateType ==
  ASSUME NEW r \in Nat, NEW y, Divisor(y)
  PROVE  Estimate(r, y) \in 0..99
<1> DEFINE l == Leading(r)
           k == Leading(y)
           k1 == k \div 10
           l1 == l \div 10
           l2 == l \div 100
           t == Tens(l, k)
<1>1. l \in Nat /\ k \in Nat /\ k >= 10
  BY LeadingType DEF Divisor
<1>2. Estimate(r, y) = IF OneDigit(l, k) THEN TableQuotient(l1, k1)
                       ELSE MaxOf(10 * t, MinOf(10 * t + 9, l \div k))
  BY DEF Estimate
<1> HIDE DEF l, k
<1>3. k1 \in Nat \ {0} /\ l1 \in Nat /\ l2 \in Nat /\ (l < 1000 => l1 < 100)
  BY <1>1
<1>4. OneDigit(l, k) <=> l < 1000 /\ TableQuotient(l1, k1) < 10
  BY DEF OneDigit
<1>5. t = IF l >= 1000 THEN MinOf(9, TableQuotient(l2, k1)) ELSE TableQuotient(l1, k)
  BY DEF Tens
<1> HIDE DEF k1, l1, l2, t
<1>6. TableQuotient(l1, k1) \in Nat /\ TableQuotient(l2, k1) \in Nat
  <2>1. l1 \div k1 \in Nat /\ l2 \div k1 \in Nat
    BY <1>3, DivMod
  <2> QED BY <1>3, <2>1 DEF TableQuotient
<1>7. t \in 0..9
  <2>1. CASE l >= 1000
    BY <1>5, <1>6, <2>1 DEF MinOf
  <2>2. CASE l < 1000
    <3> DEFINE q == l1 \div k
    <3>1. q \in Nat
      BY <1>1, <1>3, DivMod
    <3>2. q < 10
      <4> SUFFICES ASSUME 10 <= q PROVE FALSE
        BY <3>1
      <4>1. 10 * k <= l1
        BY <1>1, <1>3, DivLargest
      <4> QED BY <1>1, <1>3, <2>2, <4>1
    <3>3. t = q
      BY <1>1, <1>5, <2>2 DEF TableQuotient
    <3> HIDE DEF q
    <3> QED BY <3>1, <3>2, <3>3
  <2> QED BY <1>1, <2>1, <2>2
<1>8. l \div k \in Nat
  BY <1>1, DivMod
<1>9. MaxOf(10 * t, MinOf(10 * t + 9, l \div k)) \in 0..99
  <2> DEFINE q == l \div k
  <2>1. q \in Nat
    BY <1>8
  <2> HIDE DEF q
  <2>2. MaxOf(10 * t, MinOf(10 * t + 9, q)) \in 0..99
    BY <1>7, <2>1 DEF MaxOf, MinOf
  <2> QED BY <2>2 DEF q
<1>10. OneDigit(l, k) => TableQuotient(l1, k1) \in 0..99
  BY <1>4, <1>6
<1> QED BY <1>2, <1>9, <1>10

\* What an exhausted division leaves in the byte of the estimate.
LEMMA AfterZeroType ==
  ASSUME NEW y \in Nat \ {0}
  PROVE  AfterZero(y) \in 0..159
<1> DEFINE common(g) == y % g = 0 /\ Wrap % g = 0
           Greatest(g) == g \in 1..y /\ common(g) /\ \A h \in (g + 1)..y : ~common(h)
           T == {n \in Nat : n < y /\ common(y - n)}
           gcd == CHOOSE g \in 1..y : common(g) /\ \A h \in (g + 1)..y : ~common(h)
<1>1. Wrap \in Nat
  <2>1. D - 1 \in 0..MaxShift
    BY DpdWidth
  <2>2. Pow10[D - 1] \in Nat
    BY <2>1, PowerType
  <2> QED BY <2>2 DEF Wrap
<1>2. common(1)
  BY <1>1
<1>3. PICK n \in T : \A i \in T : n <= i
  <2>1. y - 1 \in T
    <3>1. y - 1 \in Nat /\ y - (y - 1) = 1 /\ y - 1 < y
      OBVIOUS
    <3> QED BY <1>2, <3>1
  <2>2. T \in SUBSET Nat
    OBVIOUS
  <2> HIDE DEF T
  <2> QED BY <2>1, <2>2, LeastNumber
<1>4. \E g \in 1..y : common(g) /\ \A h \in (g + 1)..y : ~common(h)
  <2>1. n \in Nat /\ n < y /\ common(y - n) /\ y - n \in 1..y
    BY <1>3
  <2>2. ASSUME NEW h \in ((y - n) + 1)..y, common(h) PROVE FALSE
    <3>1. y - h \in Nat /\ y - h < y /\ y - (y - h) = h /\ y - h < n
      BY <2>1
    <3>2. y - h \in T
      BY <2>2, <3>1
    <3> HIDE DEF T, common
    <3>3. n <= y - h
      BY <1>3, <3>2
    <3> QED BY <2>1, <3>1, <3>3
  <2> HIDE DEF common
  <2> QED BY <2>1, <2>2
<1>5. gcd \in 1..y
  <2> HIDE DEF common
  <2> QED BY <1>4, Zenon
<1>6. AfterZero(y) = (-(Wrap \div gcd)) % 160
  BY Zenon DEF AfterZero
<1> HIDE DEF gcd
<1>7. Wrap \div gcd \in Nat
  <2>1. gcd \in Nat \ {0}
    BY <1>5
  <2> QED BY <1>1, <2>1, DivMod
<1> DEFINE w == Wrap \div gcd
<1>8. w \in Nat /\ AfterZero(y) = (-w) % 160
  BY <1>6, <1>7
<1> HIDE DEF w
<1>9. (-w) % 160 \in 0..159
  BY <1>8
<1> QED BY <1>8, <1>9

LEMMA TwoDigitsType ==
  ASSUME NEW r \in Nat, NEW y, Divisor(y)
  PROVE  TwoDigits(r, y) \in 0..159 /\ (r # 0 => TwoDigits(r, y) * y <= r)
<1> DEFINE c == Estimate(r, y)
           d == r \div y
<1>1. c \in 0..99 /\ y \in Nat \ {0}
  BY EstimateType DEF Divisor
<1>2. d \in Nat /\ d * y <= r
  <2>1. d \in Nat
    BY <1>1, DivMod
  <2>2. (d * y <= r) <=> (d <= r \div y)
    BY <1>1, <2>1, DivLargest
  <2>3. d <= d
    BY <2>1
  <2> QED BY <2>1, <2>2, <2>3
<1>3. TwoDigits(r, y) = IF r = 0 THEN AfterZero(y) ELSE IF c * y = r THEN c - 1 ELSE MinOf(c, d)
  BY DEF TwoDigits
<1>4. AfterZero(y) \in 0..159
  BY <1>1, AfterZeroType
<1> HIDE DEF c, d
<1>5. ASSUME r # 0, c * y = r PROVE c - 1 \in 0..159 /\ (c - 1) * y <= r
  <2>1. c # 0
    BY <1>1, <1>5
  <2>2. c - 1 \in Nat /\ c - 1 <= c
    BY <1>1, <2>1
  <2>3. (c - 1) * y <= c * y
    BY <1>1, <2>2, TimesMonotonic
  <2> QED BY <1>1, <1>5, <2>2, <2>3
<1>6. MinOf(c, d) \in 0..159 /\ MinOf(c, d) * y <= r
  <2>1. MinOf(c, d) \in Nat /\ MinOf(c, d) <= d /\ MinOf(c, d) <= 99
    BY <1>1, <1>2 DEF MinOf
  <2> DEFINE e == MinOf(c, d)
  <2>2. e \in Nat /\ e <= d
    BY <2>1
  <2> HIDE DEF e
  <2>3. e * y <= d * y /\ e * y \in Nat /\ d * y \in Nat
    BY <1>1, <1>2, <2>2, TimesMonotonic
  <2>4. e * y <= r
    BY <1>2, <2>3
  <2> QED BY <2>1, <2>4 DEF e
<1> QED BY <1>3, <1>4, <1>5, <1>6

\* What a turn works on.
DivStates == {s \in [q : Nat, r : Nat, e : Int] : s.q < 100 * Pow10[P] + 60}

LEMMA TurnType ==
  ASSUME NEW s \in DivStates, NEW y, Divisor(y)
  PROVE  Turn(s, y) \in DivStates
<1>1. s \in [q : Nat, r : Nat, e : Int]
  BY DEF DivStates
<1> DEFINE c == TwoDigits(s.r, y)
           p == IF s.r = 0 THEN 0 ELSE c * y
<1>2. s.q \in Nat /\ s.r \in Nat /\ s.e \in Int
  BY <1>1
<1>3. c \in 0..159 /\ (s.r # 0 => c * y <= s.r) /\ y \in Nat
  BY <1>2, TwoDigitsType DEF Divisor
<1>4. Turn(s, y) = IF s.q >= Pow10[P] THEN s
                   ELSE [q |-> 100 * s.q + c, r |-> 100 * (s.r - p), e |-> s.e - 2]
  BY DEF Turn
<1> HIDE DEF c
<1>5. s.r - p \in Nat
  <2>1. c * y \in Nat
    BY <1>3
  <2> QED BY <1>2, <1>3, <2>1
<1> HIDE DEF p
<1>6. Pow10[P] \in Nat
  <2>1. P \in 0..MaxShift
    BY DpdWidth
  <2> QED BY <2>1, PowerType
<1>7. ASSUME ~(s.q >= Pow10[P])
      PROVE  /\ 100 * s.q + c \in Nat /\ 100 * s.q + c < 100 * Pow10[P] + 60
             /\ 100 * (s.r - p) \in Nat /\ s.e - 2 \in Int
  BY <1>2, <1>3, <1>5, <1>6, <1>7
<1>8. CASE s.q >= Pow10[P]
  BY <1>4, <1>8
<1>9. CASE ~(s.q >= Pow10[P])
  BY <1>4, <1>7, <1>9 DEF DivStates
<1> QED BY <1>8, <1>9

\* The recursive function of Turns.
IsTurns(f, a, y, e) ==
  f = [n \in 0..LastTurn |-> IF n = 0 THEN [q |-> 0, r |-> a, e |-> e] ELSE Turn(f[n-1], y)]

LEMMA TurnsType ==
  ASSUME NEW a \in Nat, NEW y, Divisor(y), NEW e \in Int
  PROVE  Turns(a, y, e) \in DivStates
<1> DEFINE z == [q |-> 0, r |-> a, e |-> e]
           step == [p \in Nat \X DivStates |-> Turn(p[2], y)]
<1>1. LastTurn \in Nat
  BY DpdWidth DEF LastTurn
<1>2. z \in DivStates
  <2>1. P \in 0..MaxShift
    BY DpdWidth
  <2>2. Pow10[P] \in Nat
    BY <2>1, PowerType
  <2> QED BY <2>2 DEF DivStates
<1>3. step \in [Nat \X DivStates -> DivStates]
  <2>1. \A p \in Nat \X DivStates : Turn(p[2], y) \in DivStates
    BY TurnType
  <2> QED BY <2>1
<1>4. PICK f \in [0..LastTurn -> DivStates] : Recursive(f, z, step, LastTurn)
  <2> HIDE DEF z, step
  <2>1. RecursionEnds(DivStates, z, step, LastTurn)
    BY <1>1, <1>2, <1>3, Recursion
  <2> QED BY <2>1 DEF RecursionEnds
<1> DEFINE h == [n \in 0..LastTurn |-> IF n = 0 THEN z ELSE Turn(f[n-1], y)]
<1>5. ASSUME NEW n \in 0..LastTurn PROVE f[n] = h[n]
  <2>1. CASE n = 0
    BY <1>4, <2>1 DEF Recursive
  <2>2. CASE n # 0
    <3>1. n \in 1..LastTurn /\ n \in Nat /\ n - 1 \in 0..LastTurn
      BY <1>1, <2>2
    <3>2. <<n, f[n-1]>> \in Nat \X DivStates
      BY <3>1
    <3>3. f[n] = step[<<n, f[n-1]>>]
      BY <1>4, <3>1 DEF Recursive
    <3>4. step[<<n, f[n-1]>>] = Turn(f[n-1], y)
      BY <3>2
    <3>5. h[n] = Turn(f[n-1], y)
      BY <2>2
    <3> QED BY <3>3, <3>4, <3>5
  <2> QED BY <2>1, <2>2
<1>6. f = h
  BY <1>5
<1>7. IsTurns(f, a, y, e)
  BY <1>6, Zenon DEF IsTurns
<1> DEFINE g == CHOOSE t : IsTurns(t, a, y, e)
<1>8. IsTurns(g, a, y, e)
  BY <1>7, Zenon
<1>9. Turns(a, y, e) = g[LastTurn]
  BY Zenon DEF Turns, IsTurns
<1> HIDE DEF g
<1>10. g = [n \in 0..LastTurn |-> IF n = 0 THEN z ELSE Turn(g[n-1], y)]
  BY <1>8, Zenon DEF IsTurns
<1> HIDE DEF z
<1>11. g[0] = z /\ \A n \in 1..LastTurn : g[n] = Turn(g[n-1], y)
  <2>1. 0 \in 0..LastTurn /\ \A n \in 1..LastTurn : n \in 0..LastTurn /\ n # 0
    BY <1>1
  <2> QED BY <1>10, <2>1
<1> DEFINE U == {n \in Nat : n <= LastTurn => g[n] \in DivStates}
<1>12. 0 \in U
  BY <1>2, <1>11
<1>13. ASSUME NEW n \in U PROVE n + 1 \in U
  <2> SUFFICES ASSUME n + 1 <= LastTurn PROVE g[n + 1] \in DivStates
    BY <1>13
  <2>1. n \in Nat /\ (n <= LastTurn => g[n] \in DivStates)
    BY <1>13
  <2>2. n + 1 \in 1..LastTurn /\ (n + 1) - 1 = n /\ g[n] \in DivStates
    BY <1>1, <2>1
  <2>3. g[n + 1] = Turn(g[n], y)
    BY <1>11, <2>2
  <2> QED BY <2>2, <2>3, TurnType
<1>14. U = Nat
  <2>1. U \in SUBSET Nat
    OBVIOUS
  <2> HIDE DEF U
  <2> QED BY <1>12, <1>13, <2>1, SetInduction
<1>15. g[LastTurn] \in DivStates
  BY <1>1, <1>14
<1> QED BY <1>9, <1>15

-----------------------------------------------------------------------------
(* The contract with the core                                              *)

\* A number as scale takes it.
InRegister(y) == y \in Impl /\ y.special = "NUMBER" /\ y.mant < Pow10[D]

\* Shifted to the left end of the register, a number loses at least D - P digits.
LEMMA CutFits ==
  ASSUME Room, NEW j, IsDigits(D, j), j \in Nat, NEW k \in (D - P)..D
  PROVE  /\ j \div Pow10[k] \in 0..MaxMant
         /\ k = D - P => j \div Pow10[k] >= Pow10[P - 1]
         /\ DroppedDigit(j % Pow10[k], k) \in 0..9
<1>1. /\ P \in Nat /\ P > 1 /\ D \in Nat /\ D = 2 * P + 2
      /\ MaxShift \in Nat /\ D + 2 <= MaxShift
  BY RegisterFacts, DpdAssumption
<1> DEFINE h == Pow10[k]
           q == j \div h
           s == j % h
<1>2. k \in 0..MaxShift /\ k \in Nat /\ P \in 0..MaxShift /\ P - 1 \in 0..MaxShift
  BY <1>1
<1>3. h \in Nat \ {0} /\ Pow10[P] \in Nat \ {0} /\ Pow10[P - 1] \in Nat \ {0}
  BY <1>2, PowerType
<1>4. q \in Nat /\ s \in 0..(h - 1)
  <2> HIDE DEF h
  <2> QED BY <1>3, DivMod
<1>5. DroppedDigit(s, k) \in 0..9
  <2>1. s \in Nat /\ s < h
    <3> HIDE DEF s, h
    <3> QED BY <1>3, <1>4
  <2> HIDE DEF s
  <2> QED BY <1>2, <2>1, DropClass
<1>6. CASE k < D
  <2>1. IsDigits(D - k, q)
    BY <1>2, <1>6, DigitsCut
  <2>2. D - k \in 1..P
    BY <1>1, <1>2, <1>6
  <2>3. D - k \in 0..MaxShift
    BY <1>1, <2>2
  <2>4. Pow10[D - k] <= Pow10[P] /\ Pow10[D - k] \in Nat
    BY <1>2, <2>2, <2>3, PowerOrder, PowerType
  <2>5. q < Pow10[D - k] /\ (D - k = 1 \/ Pow10[(D - k) - 1] <= q)
    BY <2>1 DEF IsDigits
  <2> HIDE DEF q
  <2>6. q \in 0..MaxMant
    BY <1>3, <1>4, <2>4, <2>5 DEF MaxMant
  <2>7. k = D - P => D - k = P /\ D - k # 1
    BY <1>1
  <2>8. k = D - P => Pow10[P - 1] <= q
    BY <2>5, <2>7
  <2> QED BY <1>3, <1>4, <1>5, <2>6, <2>8 DEF q
<1>7. CASE k = D
  <2>1. q = 0
    <3>1. j < h
      BY <1>7 DEF IsDigits
    <3> HIDE DEF h
    <3>2. 0 \in Int /\ j \in 0..(h - 1) /\ j = 0 * h + j
      BY <1>3, <3>1
    <3> QED BY <1>3, <3>2, DivModUnique
  <2>2. k # D - P
    BY <1>1, <1>7
  <2> QED BY <1>3, <1>5, <2>1, <2>2 DEF MaxMant
<1> QED BY <1>1, <1>2, <1>6, <1>7

\* scale turns whatever fits a register into a zero or a number of the format.
LEMMA ScaleFits ==
  ASSUME Room, NEW y, InRegister(y)
  PROVE  DpdScale(y).rem \in Nat /\ DpdScale(y).x \in Impl /\ Fitted(DpdScale(y).x)
<1>1. /\ P \in Nat /\ P > 1 /\ D \in Nat /\ D = 2 * P + 2
      /\ MaxShift \in Nat /\ D + 2 <= MaxShift /\ EMin \in Int /\ EMax \in Int /\ EMin < EMax
  BY RegisterFacts, DpdAssumption, DecimalAssumption
<1> DEFINE m == y.mant
           d == Digits(m)
           z == D - d
           j == m * Pow10[z]
           e == y.exp + d - P
           r == DpdScale(y)
           put(w, q) == [y EXCEPT !.mant = w, !.exp = q]
           Good == r.rem \in Nat /\ r.x \in Impl /\ Fitted(r.x)
<1> SUFFICES Good
  OBVIOUS
<1>2. /\ y \in Impl /\ y.special = "NUMBER" /\ m \in Nat /\ y.exp \in Int /\ m < Pow10[D]
      /\ y = [mant |-> m, exp |-> y.exp, sign |-> y.sign, special |-> y.special] /\ y.sign \in Sign
  BY DEF InRegister, Impl
<1>3. MaxMant \in Nat /\ Pow10[P - 1] \in Nat \ {0} /\ MaxMant >= Pow10[P - 1]
  <2>1. P \in 1..MaxShift /\ P - 1 \in 0..MaxShift
    BY <1>1
  <2>2. Pow10[P] = 10 * Pow10[P - 1] /\ Pow10[P - 1] \in Nat \ {0}
    BY <2>1, PowerType, DecimalAssumption
  <2> QED BY <2>2 DEF MaxMant
<1>4. ASSUME NEW w \in Nat, NEW q \in Int, Canonical(w, q), r.x = put(w, q), r.rem \in Nat PROVE Good
  <2>1. r.x = [mant |-> w, exp |-> q, sign |-> y.sign, special |-> "NUMBER"]
    <3> HIDE DEF r, m
    <3> QED BY <1>2, <1>4
  <2>2. r.x \in Impl
    BY <1>2, <2>1 DEF Impl, Special
  <2>3. r.x.mant = w /\ r.x.exp = q /\ r.x.special = "NUMBER"
    BY <2>1
  <2> HIDE DEF r
  <2> QED BY <1>4, <2>2, <2>3 DEF Fitted
<1>5. CASE Vanishes(y, e)
  <2>1. r = Underflowed(y)
    BY <1>5 DEF DpdScale
  <2>2. r.rem = 26 /\ r.x = [y EXCEPT !.special = "ZERO"]
    BY <2>1 DEF Underflowed
  <2>3. r.x = [mant |-> m, exp |-> y.exp, sign |-> y.sign, special |-> "ZERO"]
    BY <1>2, <2>2
  <2>4. r.x \in Impl /\ r.x.special = "ZERO"
    <3> HIDE DEF m
    <3> QED BY <1>2, <2>3 DEF Impl, Special
  <2> HIDE DEF r
  <2> QED BY <2>2, <2>4 DEF Fitted
<1>6. CASE ~Vanishes(y, e) /\ TooLarge(e)
  <2>1. r = Overflowed(y)
    BY <1>6 DEF DpdScale
  <2>2. r.rem = 10 /\ r.x = put(MaxMant, EMax)
    BY <2>1 DEF Overflowed
  <2>3. Canonical(MaxMant, EMax)
    BY <1>1, <1>3 DEF Canonical
  <2> HIDE DEF Good, r, put
  <2> QED BY <1>1, <1>3, <1>4, <2>2, <2>3
<1>7. CASE ~Vanishes(y, e) /\ ~TooLarge(e)
  <2>0. m # 0 /\ ~(e < EMin - P) /\ ~(e > EMax)
    BY <1>7 DEF Vanishes, TooLarge
  <2>1. D \in 0..MaxShift
    BY <1>1
  <2>2. IsDigits(d, m)
    <3>1. m < Pow10[MaxShift]
      BY <1>2, <2>1, FitsTable
    <3> QED BY <1>2, <3>1, DigitsMeaning
  <2> HIDE DEF m
  <2>3. d \in 1..MaxShift /\ (d = 1 \/ Pow10[d - 1] <= m)
    BY <2>2 DEF IsDigits
  <2> HIDE DEF d
  <2>4. d <= D
    <3> SUFFICES ASSUME d # 1 PROVE d <= D
      BY <1>1
    <3>1. d - 1 \in 0..MaxShift
      BY <1>1, <2>3
    <3>2. Pow10[d - 1] < Pow10[D]
      BY <1>2, <2>1, <2>3, <3>1, PowerType
    <3>3. d - 1 < D
      BY <2>1, <3>1, <3>2, PowerOrder
    <3> QED BY <1>1, <2>3, <3>3
  <2>5. z \in Nat /\ d + z = D /\ d + z <= MaxShift /\ e \in Int
    BY <1>1, <1>2, <2>3, <2>4
  <2>6. j \in Nat /\ IsDigits(D, j)
    <3>1. m \in Nat \ {0}
      BY <1>2, <2>0
    <3>2. j \in Nat \ {0} /\ IsDigits(d + z, j)
      BY <2>2, <2>5, <3>1, DigitsTimes
    <3> QED BY <2>5, <3>2
  <2> HIDE DEF j, z
  <2>7. EMin - P <= e /\ e <= EMax
    BY <1>1, <2>0, <2>5
  <2> HIDE DEF e
  <2>8. CASE e < EMin
    <3> DEFINE k == (D - P) + EMin - e
    <3>1. r = CutSubnormal(y, j, k)
      BY <1>7, <2>8 DEF DpdScale, j, z, d, m, e
    <3>2. k \in (D - P)..D
      BY <1>1, <2>5, <2>7, <2>8
    <3> HIDE DEF k
    <3> DEFINE w == j \div Pow10[k]
               t == DroppedDigit(j % Pow10[k], k)
    <3>3. r.x = put(w, EMin) /\ r.rem = 16 + t
      BY <3>1 DEF CutSubnormal
    <3>4. w \in 0..MaxMant /\ t \in 0..9
      BY <2>6, <3>2, CutFits
    <3> HIDE DEF w, t, r, put, Good
    <3>5. w \in Nat /\ Canonical(w, EMin) /\ r.rem \in Nat
      BY <1>1, <1>3, <3>3, <3>4 DEF Canonical
    <3> QED BY <1>1, <1>4, <3>3, <3>5
  <2>9. CASE ~(e < EMin)
    <3> DEFINE k == D - P
               w == j \div Pow10[k]
               t == DroppedDigit(j % Pow10[k], k)
    <3>1. r = [x |-> put(w, e), rem |-> IF d = P THEN 32 ELSE t]
      BY <1>7, <2>9 DEF DpdScale, j, z, d, m, e
    <3>2. k \in (D - P)..D
      BY <1>1
    <3>3. w \in 0..MaxMant /\ w >= Pow10[P - 1] /\ t \in 0..9
      <4>1. k = D - P
        OBVIOUS
      <4> HIDE DEF k
      <4> QED BY <2>6, <3>2, <4>1, CutFits
    <3>4. r.x = put(w, e) /\ r.rem = IF d = P THEN 32 ELSE t
      BY <3>1
    <3> HIDE DEF w, t, r, put, Good
    <3>5. w \in Nat /\ Canonical(w, e) /\ r.rem \in Nat
      BY <1>1, <1>3, <2>5, <2>7, <2>9, <3>3, <3>4 DEF Canonical
    <3> QED BY <1>4, <2>5, <3>4, <3>5
  <2> QED BY <2>8, <2>9
<1> QED BY <1>5, <1>6, <1>7

\* mul hands the whole product to scale or to addsub.
LEMMA ProductHands ==
  ASSUME Room, NEW a \in Operand, NEW b \in Operand
  PROVE  InRegister(DpdMul(a, b)) /\ Addend(DpdMul(a, b))
<1>1. /\ P \in Nat /\ P > 1 /\ D \in Nat /\ 2 * P + 2 <= D
      /\ MaxShift \in Nat /\ D + 2 <= MaxShift
  BY RegisterFacts
<1>2. /\ a.mant \in Nat \ {0} /\ a.mant < Pow10[P] /\ a.exp \in Int /\ a.sign \in {-1, 1}
      /\ b.mant \in Nat \ {0} /\ b.mant < Pow10[P] /\ b.exp \in Int /\ b.sign \in {-1, 1}
  BY OperandFacts
<1> DEFINE w == a.mant * b.mant
<1>3. w \in Nat \ {0} /\ w < Pow10[2 * P]
  BY <1>2, ProductShort
<1>4. DpdMul(a, b) = Number(w, a.exp + b.exp, a.sign * b.sign)
  BY DpdMulExact
<1>5. a.exp + b.exp \in Int /\ a.sign * b.sign \in {-1, 1}
  BY <1>2
<1>6. Pow10[2 * P] <= Pow10[D] /\ Pow10[2 * P] \in Nat /\ Pow10[D] \in Nat
  <2>1. 2 * P \in 0..MaxShift /\ D \in 0..MaxShift /\ 2 * P <= D
    BY <1>1
  <2> QED BY <2>1, PowerOrder, PowerType
<1> HIDE DEF w
<1>7. w < Pow10[D]
  BY <1>3, <1>6
<1> QED BY <1>3, <1>4, <1>5, <1>7 DEF Number, InRegister, Addend, Impl, Special, Sign

\* div hands scale a quotient in a register, and a remainder.
LEMMA QuotientHands ==
  ASSUME Room, NEW a \in Operand, NEW b \in Operand
  PROVE  InRegister(DpdDiv(a, b).x) /\ DpdDiv(a, b).rem \in Nat
<1>1. /\ P \in Nat /\ P > 1 /\ D \in Nat /\ D = 2 * P + 2
      /\ MaxShift \in Nat /\ D + 2 <= MaxShift
  BY RegisterFacts, DpdAssumption
<1>2. /\ a.mant \in 1..MaxMant /\ a.exp \in Int /\ a.sign \in {-1, 1}
      /\ b.mant \in 1..MaxMant /\ b.exp \in Int /\ b.sign \in {-1, 1}
  BY OperandFacts DEF Operand
<1> DEFINE m == a.mant
           n == b.mant
           la == P + 1 - Digits(m)
           lb == P - Digits(n)
           c == m * Pow10[la]
           y == n * Pow10[lb]
           e == a.exp - b.exp - la + lb
           s == Turns(c, y, e)
<1>3. /\ m \in Nat \ {0} /\ Digits(m) \in 1..P
      /\ n \in Nat \ {0} /\ Digits(n) \in 1..P /\ IsDigits(Digits(n), n)
  BY <1>2, Mantissa
<1>4. la \in 0..MaxShift /\ lb \in Nat /\ Digits(n) + lb = P /\ lb \in 0..MaxShift
  BY <1>1, <1>3
<1>5. e \in Int
  BY <1>2, <1>4
<1>6. DpdDiv(a, b) = [x   |-> Number(s.q \div 10, s.e + 3, a.sign * b.sign),
                      rem |-> QuotientDigit(s.q, s.r)]
  BY Zenon DEF DpdDiv
<1> HIDE DEF la, lb, m, n, e
<1>7. c \in Nat
  <2>1. Pow10[la] \in Nat
    BY <1>4, PowerType
  <2> QED BY <1>3, <2>1
<1>8. Divisor(y)
  <2>1. y \in Nat \ {0} /\ IsDigits(P, y)
    <3>1. Digits(n) + lb <= MaxShift
      BY <1>1, <1>4
    <3>2. y \in Nat \ {0} /\ IsDigits(Digits(n) + lb, y)
      BY <1>3, <1>4, <3>1, DigitsTimes
    <3> QED BY <1>4, <3>2
  <2> HIDE DEF y
  <2> QED BY <1>1, <2>1 DEF IsDigits, Divisor
<1> HIDE DEF c, y
<1>9. s \in DivStates
  BY <1>5, <1>7, <1>8, TurnsType
<1> HIDE DEF s
<1>10. s.q \in Nat /\ s.r \in Nat /\ s.e \in Int /\ s.q < 100 * Pow10[P] + 60
  BY <1>9 DEF DivStates
<1> DEFINE q == s.q
           t == q \div 10
           u == q % 10
<1>11. t \in Nat /\ u \in 0..9 /\ (t * 10) + u = q
  <2>1. q \in Nat /\ 10 \in Nat \ {0}
    BY <1>10
  <2> HIDE DEF q
  <2>2. t \in Nat /\ u \in 0..(10 - 1) /\ (t * 10) + u = q
    BY <2>1, DivMod
  <2> HIDE DEF t, u
  <2>3. 10 - 1 = 9
    OBVIOUS
  <2> QED BY <2>2, <2>3
<1>12. t < Pow10[D]
  <2> DEFINE h == Pow10[P]
  <2>1. Pow10[P + 2] = h * 100 /\ h \in Nat \ {0}
    <3>1. P \in Nat /\ 2 \in Nat /\ P + 2 <= MaxShift /\ P \in 0..MaxShift
      BY <1>1
    <3>2. Pow10[2] = 100
      BY SmallPowers
    <3> QED BY <3>1, <3>2, PowerSum, PowerType
  <2>2. Pow10[P + 2] <= Pow10[D] /\ Pow10[D] \in Nat
    <3>1. P + 2 \in 0..MaxShift /\ D \in 0..MaxShift /\ P + 2 <= D
      BY <1>1
    <3> QED BY <3>1, PowerOrder, PowerType
  <2>3. q < 100 * h + 60
    BY <1>10
  <2> HIDE DEF h, q, t, u
  <2> QED BY <1>11, <2>1, <2>2, <2>3
<1>13. QuotientDigit(q, s.r) \in Nat
  <2>1. QuotientDigit(q, s.r) = u \/ QuotientDigit(q, s.r) = u + 1
    BY DEF QuotientDigit
  <2> HIDE DEF u
  <2> QED BY <1>11, <2>1
<1>14. a.sign * b.sign \in {-1, 1} /\ s.e + 3 \in Int
  BY <1>2, <1>10
<1> DEFINE x1 == Number(t, s.e + 3, a.sign * b.sign)
<1>15. DpdDiv(a, b).x = x1 /\ DpdDiv(a, b).rem = QuotientDigit(q, s.r)
  BY <1>6
<1> HIDE DEF t, q
<1>16. InRegister(x1)
  BY <1>11, <1>12, <1>14 DEF Number, InRegister, Impl, Special, Sign
<1> QED BY <1>13, <1>15, <1>16

\* addsub hands scale a number in a register, and a remainder.
LEMMA SumHands ==
  ASSUME Room, NEW s \in {-1, 1}, NEW a, Addend(a), NEW c, Addend(c)
  PROVE  InRegister(DpdAddSub(s, a, c).x) /\ DpdAddSub(s, a, c).rem \in Nat
<1>1. PICK b \in Int, n \in Nat : Truncates(DpdAddSub(s, a, c).x, DpdAddSub(s, a, c).rem, b, n)
  BY AddSubSum
<1> DEFINE r == DpdAddSub(s, a, c)
<1> HIDE DEF r
<1>2. r.x \in Impl /\ r.x.special = "NUMBER" /\ r.x.mant < Pow10[D] /\ r.rem \in 0..9
  BY <1>1 DEF Truncates, r
<1> QED BY <1>2 DEF InRegister, r

\* libfpfd-dpd keeps the contract that the core needs: whatever add, sub, mul, div
\* and fma get from it is a zero or a number of the format.
THEOREM DpdLibraryDelivers ==
  ASSUME Room, Linked
  PROVE  LibraryDelivers(Operand)
<1>1. ASSUME NEW y, InRegister(y) PROVE y \in Impl /\ Scalable(y)
  BY <1>1, ScaleFits DEF Linked, Scalable, InRegister
<1>2. ASSUME NEW s \in Sign, NEW a, Addend(a), NEW c, Addend(c)
      PROVE  Delivers(ImplAddSub(s, a, c))
  <2>1. s \in {-1, 1}
    BY DEF Sign
  <2>2. InRegister(DpdAddSub(s, a, c).x) /\ DpdAddSub(s, a, c).rem \in Nat
    BY <1>2, <2>1, SumHands
  <2> QED BY <1>1, <2>2 DEF Linked, Delivers
<1> SUFFICES ASSUME NEW a \in Operand, NEW b \in Operand
             PROVE  /\ \A s \in Sign : Delivers(ImplAddSub(s, a, b))
                    /\ ImplMul(a, b) \in Impl /\ Scalable(ImplMul(a, b))
                    /\ Delivers(ImplDiv(a, b))
                    /\ \A c \in Operand : Delivers(ImplAddSub(1, ImplMul(a, b), c))
  BY DEF LibraryDelivers
<1>3. Addend(a) /\ Addend(b) /\ \A c \in Operand : Addend(c)
  BY OperandFacts
<1>4. ImplMul(a, b) = DpdMul(a, b) /\ ImplDiv(a, b) = DpdDiv(a, b)
  BY DEF Linked
<1>5. InRegister(DpdMul(a, b)) /\ Addend(DpdMul(a, b))
  BY ProductHands
<1>6. InRegister(DpdDiv(a, b).x) /\ DpdDiv(a, b).rem \in Nat
  BY QuotientHands
<1>7. 1 \in Sign
  BY DEF Sign
<1>8. Delivers(ImplDiv(a, b))
  BY <1>1, <1>4, <1>6 DEF Delivers
<1> QED BY <1>1, <1>2, <1>3, <1>4, <1>5, <1>7, <1>8
=============================================================================
