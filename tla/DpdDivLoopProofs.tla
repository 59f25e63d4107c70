-------------------------- MODULE DpdDivLoopProofs --------------------------
(***************************************************************************)
(* Division of BCD numbers, for every precision and every pair of mantissas.*)
(***************************************************************************)
EXTENDS DpdDivLoop, RoundingProofs

-----------------------------------------------------------------------------
(* Leading digits                                                          *)

Unit == Pow10[P - 2]

LEMMA Powers ==
  /\ P \in Nat /\ P > 1 /\ D = 2 * P + 2 /\ D < MaxShift /\ MaxShift \in Nat
  /\ Unit \in Nat \ {0}
  /\ Pow10[P - 1] = 10 * Unit /\ Pow10[P] = 100 * Unit /\ Pow10[P + 1] = 1000 * Unit
<1>1. /\ P \in Nat /\ P > 1 /\ D = 2 * P + 2 /\ D < MaxShift /\ MaxShift \in Nat
  BY DecimalAssumption, LibraryAssumption, DpdAssumption
<1>2. P - 2 \in 0..MaxShift /\ P - 1 \in 0..MaxShift /\ P \in 0..MaxShift
  BY <1>1
<1>3. Pow10[(P - 2) + 1] = 10 * Pow10[P - 2]
  BY <1>1, <1>2, PowerStep
<1>4. Pow10[(P - 1) + 1] = 10 * Pow10[P - 1]
  BY <1>1, <1>2, PowerStep
<1>5. Pow10[P + 1] = 10 * Pow10[P]
  BY <1>1, <1>2, PowerStep
<1>6. (P - 2) + 1 = P - 1 /\ (P - 1) + 1 = P
  BY <1>1
<1>7. Unit \in Nat \ {0}
  BY <1>2, PowerType DEF Unit
<1> QED BY <1>1, <1>3, <1>4, <1>5, <1>6, <1>7 DEF Unit

LEMMA Cancel ==
  ASSUME NEW x \in Nat, NEW y \in Nat, NEW u \in Nat \ {0}, x * u < y * u
  PROVE  x < y
<1> SUFFICES ASSUME y <= x PROVE FALSE
  OBVIOUS
<1> QED BY TimesMonotonic

\* A product that fits still fits when both numbers are cut.
LEMMA CutProduct ==
  ASSUME NEW g \in Nat, NEW y \in Nat, NEW x \in Nat, NEW u \in Nat \ {0}, g * y <= x
  PROVE  g * (y \div u) <= x \div u
<1> DEFINE v == y \div u
<1>1. v \in Nat /\ y % u \in 0..(u - 1) /\ (v * u) + (y % u) = y
  BY DivMod
<1> HIDE DEF v
<1>2. v * u <= y /\ v * u \in Nat
  BY <1>1
<1>3. g * (v * u) <= g * y
  <2>1. (v * u) * g <= y * g
    BY <1>2, TimesMonotonic
  <2>2. (v * u) * g = g * (v * u) /\ y * g = g * y
    BY <1>2
  <2> QED BY <2>1, <2>2
<1>4. (g * v) * u = g * (v * u) /\ g * v \in Nat /\ g * (v * u) \in Nat /\ g * y \in Nat
  BY <1>1, <1>2
<1>5. (g * v) * u <= x
  BY <1>3, <1>4
<1>6. g * v <= x \div u
  BY <1>4, <1>5, DivLargest
<1> QED BY <1>6 DEF v

\* The operands of an estimate.
Operand(x, y) == y \in Pow10[P - 1]..(Pow10[P] - 1) /\ x \in Nat /\ x <= 100 * y

LEMMA LeadingDigits ==
  ASSUME NEW x, NEW y, Operand(x, y)
  PROVE  /\ x \in Nat /\ y \in Nat \ {0} /\ 10 * Unit <= y /\ y < 100 * Unit
         /\ Leading(x) \in 0..9999 /\ Leading(x) * Unit <= x /\ x < (Leading(x) + 1) * Unit
         /\ Leading(y) \in 10..99 /\ Leading(y) * Unit <= y /\ y < (Leading(y) + 1) * Unit
         /\ Leading(y) \div 10 \in 1..9 /\ 10 * (Leading(y) \div 10) <= Leading(y)
         /\ Leading(y) < 10 * (Leading(y) \div 10) + 10
<1>1. x \in Nat /\ y \in Nat \ {0} /\ 10 * Unit <= y /\ y < 100 * Unit /\ Unit \in Nat \ {0}
  BY Powers DEF Operand
<1>2. ASSUME NEW m \in Nat
      PROVE  Leading(m) \in Nat /\ Leading(m) * Unit <= m /\ m < (Leading(m) + 1) * Unit
  <2> DEFINE d == m \div Unit
  <2>1. d \in Nat /\ m % Unit \in 0..(Unit - 1) /\ (d * Unit) + (m % Unit) = m
    BY <1>1, DivMod
  <2> HIDE DEF d
  <2>2. d * Unit \in Nat /\ (d + 1) * Unit = (d * Unit) + Unit
    BY <1>1, <2>1
  <2>3. d * Unit <= m /\ m < (d + 1) * Unit
    BY <1>1, <2>1, <2>2
  <2> QED BY <2>1, <2>3 DEF d, Leading, Unit
<1> DEFINE l == Leading(x)
           k == Leading(y)
<1>3. /\ l \in Nat /\ l * Unit <= x /\ x < (l + 1) * Unit
      /\ k \in Nat /\ k * Unit <= y /\ y < (k + 1) * Unit
  BY <1>1, <1>2
<1>4. x < 10000 * Unit
  BY <1>1 DEF Operand
<1> HIDE DEF l, k
<1>5. l < 10000
  <2>1. l * Unit < 10000 * Unit
    BY <1>1, <1>3, <1>4
  <2> QED BY <1>1, <1>3, <2>1, Cancel
<1>6. k < 100
  <2>1. k * Unit < 100 * Unit
    BY <1>1, <1>3
  <2> QED BY <1>1, <1>3, <2>1, Cancel
<1>7. 10 < k + 1
  <2>1. 10 * Unit < (k + 1) * Unit
    BY <1>1, <1>3
  <2> QED BY <1>1, <1>3, <2>1, Cancel
<1>8. l \in 0..9999 /\ k \in 10..99
  BY <1>3, <1>5, <1>6, <1>7
<1>9. k \div 10 \in 1..9 /\ 10 * (k \div 10) <= k /\ k < 10 * (k \div 10) + 10
  BY <1>8
<1> QED BY <1>1, <1>3, <1>8, <1>9 DEF l, k

LEMMA LeadingProduct ==
  ASSUME NEW x, NEW y, Operand(x, y), NEW g \in Nat, g * y <= x
  PROVE  g * Leading(y) <= Leading(x)
<1>1. x \in Nat /\ y \in Nat /\ Unit \in Nat \ {0}
  BY LeadingDigits, Powers
<1>2. g * (y \div Unit) <= x \div Unit
  BY <1>1, CutProduct
<1> QED BY <1>2 DEF Leading, Unit

LEMMA LeadingZero == Leading(0) = 0
<1>1. Unit \in Nat \ {0}
  BY Powers
<1>2. 0 \div Unit = 0
  <2> DEFINE d == 0 \div Unit
  <2>1. d \in Nat /\ d <= 0
    BY <1>1, DivMod
  <2> QED BY <2>1
<1> QED BY <1>2 DEF Leading, Unit

-----------------------------------------------------------------------------
(* The estimate                                                            *)

\* An estimate is right when it is no digit pair too small, and at most forty
\* too large.
Right(e, x, y) ==
  /\ e \in 0..99
  /\ \A g \in 0..99 : g * y <= x => g <= e
  /\ e * y <= x + 40 * y
  /\ x = 0 => e = 0

LEMMA OneDigitRight ==
  ASSUME NEW x, NEW y, Operand(x, y), OneDigit(Leading(x), Leading(y))
  PROVE  Right(TableQuotient(Leading(x) \div 10, Leading(y) \div 10), x, y)
<1> DEFINE l == Leading(x)
           k == Leading(y)
           l1 == l \div 10
           k1 == k \div 10
           e == l1 \div k1
<1>1. /\ x \in Nat /\ y \in Nat \ {0} /\ l \in 0..9999 /\ k \in 10..99 /\ k1 \in 1..9
  BY LeadingDigits
<1>2. l1 \in Nat /\ (l = 0 => l1 = 0)
  <2> HIDE DEF l
  <2> QED BY <1>1
<1>3. TableQuotient(l1, k1) = e /\ e < 10
  BY <1>1 DEF OneDigit, TableQuotient
<1>4. e \in Nat
  <2> HIDE DEF l1, k1
  <2> QED BY <1>1, <1>2, DivMod
<1>5. ASSUME NEW g \in 0..99, g * y <= x PROVE g <= e
  <2>1. g * k <= l
    BY <1>1, <1>5, LeadingProduct
  <2>2. g * k1 <= l1
    <3> HIDE DEF l, k
    <3> QED BY <1>1, <2>1, CutProduct
  <2> HIDE DEF l1, k1
  <2> QED BY <1>1, <1>2, <2>2, DivLargest
<1>6. e * y <= x + 40 * y
  <2> HIDE DEF e
  <2>1. e * y <= 10 * y
    BY <1>1, <1>3, <1>4, TimesMonotonic
  <2> QED BY <1>1, <1>4, <2>1
<1>7. x = 0 => e = 0
  <2> SUFFICES ASSUME x = 0 PROVE e = 0
    OBVIOUS
  <2>2. l = 0
    BY LeadingZero
  <2>3. l1 = 0
    BY <1>2, <2>2
  <2> HIDE DEF l1, k1
  <2> QED BY <1>1, <2>3
<1> HIDE DEF e
<1>8. Right(e, x, y)
  BY <1>3, <1>4, <1>5, <1>6, <1>7 DEF Right
<1> QED BY <1>3, <1>8

\* The tens digit t for the leading digits l and k is not too small; it is too
\* large only for an estimate that has it with a zero behind it.
TensFit(t, l, k) ==
  /\ t \in 0..9
  /\ \A g \in 0..99 : g * k <= l => g <= 10 * t + 9
  /\ 10 * t * k <= l \/ (l >= 1000 /\ 100 * (t * (k \div 10)) <= l)

LEMMA TensRight ==
  ASSUME NEW x, NEW y, Operand(x, y), ~OneDigit(Leading(x), Leading(y))
  PROVE  TensFit(Tens(Leading(x), Leading(y)), Leading(x), Leading(y))
<1> DEFINE l == Leading(x)
           k == Leading(y)
           t == Tens(l, k)
           k1 == k \div 10
<1>1. l \in 0..9999 /\ k \in 10..99 /\ k1 \in 1..9 /\ 10 * k1 <= k
  BY LeadingDigits
<1> HIDE DEF l, k
<1>2. CASE l >= 1000
  <2> DEFINE l2 == l \div 100
             e == l2 \div k1
  <2>1. l2 \in 10..99 /\ 100 * l2 <= l
    BY <1>1, <1>2
  <2>2. t = MinOf(9, e)
    BY <1>1, <1>2 DEF Tens, TableQuotient
  <2> HIDE DEF l2, k1
  <2>3. e \in Nat /\ (e * k1) <= l2 /\ \A h \in Nat : h * k1 <= l2 => h <= e
    BY <1>1, <2>1, DivMod, DivLargest
  <2> HIDE DEF e
  <2>4. t \in 0..9 /\ t <= e
    BY <2>2, <2>3 DEF MinOf
  <2> HIDE DEF t
  <2>5. t * k1 <= l2
    <3>1. t * k1 <= e * k1 /\ e * k1 \in Nat /\ t * k1 \in Nat
      BY <1>1, <2>3, <2>4, TimesMonotonic
    <3> QED BY <2>1, <2>3, <3>1
  <2>6. 100 * (t * k1) <= l
    <3>1. t * k1 \in Nat
      BY <1>1, <2>4
    <3> QED BY <1>1, <2>1, <2>5, <3>1
  <2>7. ASSUME NEW g \in 0..99, g * k <= l PROVE g <= 10 * t + 9
    <3> DEFINE h == g \div 10
    <3>1. h \in 0..9 /\ 10 * h <= g /\ g <= 10 * h + 9
      OBVIOUS
    <3> HIDE DEF h
    <3>2. h * k1 <= l2
      <4>1. (10 * h) * k <= g * k
        BY <1>1, <3>1, TimesMonotonic
      <4>2. (h * k1) * 10 <= h * k
        <5>1. (10 * k1) * h <= k * h
          BY <1>1, <3>1, TimesMonotonic
        <5> QED BY <1>1, <3>1, <5>1
      <4>3. (10 * h) * k = 10 * (h * k) /\ h * k \in Nat /\ h * k1 \in Nat
        BY <1>1, <3>1
      <4>4. (h * k1) * 100 <= l
        BY <1>1, <2>7, <4>1, <4>2, <4>3
      <4> QED BY <1>1, <4>3, <4>4, DivLargest DEF l2
    <3>3. h <= e
      BY <2>3, <3>1, <3>2
    <3>4. h <= t
      BY <2>2, <2>3, <3>1, <3>3 DEF MinOf
    <3> QED BY <2>4, <3>1, <3>4
  <2>8. TensFit(t, l, k)
    BY <1>2, <2>4, <2>6, <2>7 DEF TensFit, k1
  <2> QED BY <2>8 DEF l, k, t
<1>3. CASE l < 1000
  <2> DEFINE l1 == l \div 10
  <2>1. l1 \in 0..99 /\ 10 * l1 <= l /\ l < 10 * l1 + 10
    BY <1>1, <1>3
  <2>2. t = l1 \div k
    BY <1>1, <1>3 DEF Tens, TableQuotient
  <2> HIDE DEF l1, k1, t
  <2>3. t \in Nat /\ (t * k) <= l1 /\ \A h \in Nat : h * k <= l1 => h <= t
    BY <1>1, <2>1, <2>2, DivMod, DivLargest
  <2>4. t < 10
    <3>1. t * 10 <= t * k
      <4>1. 10 * t <= k * t
        BY <1>1, <2>3, TimesMonotonic
      <4> QED BY <1>1, <2>3, <4>1
    <3>2. t * k \in Nat
      BY <1>1, <2>3
    <3> QED BY <2>1, <2>3, <3>1, <3>2
  <2>5. 10 * t * k <= l
    <3>1. t * k \in Nat /\ 10 * t * k = 10 * (t * k)
      BY <1>1, <2>3
    <3> QED BY <1>1, <2>1, <2>3, <3>1
  <2>6. ASSUME NEW g \in 0..99, g * k <= l PROVE g <= 10 * t + 9
    <3> DEFINE h == g \div 10
    <3>1. h \in 0..9 /\ 10 * h <= g /\ g <= 10 * h + 9
      OBVIOUS
    <3> HIDE DEF h
    <3>2. (10 * h) * k <= g * k
      BY <1>1, <3>1, TimesMonotonic
    <3>3. (10 * h) * k = 10 * (h * k) /\ h * k \in Nat
      BY <1>1, <3>1
    <3>4. h * k <= l1
      BY <1>1, <2>1, <2>6, <3>2, <3>3
    <3> QED BY <2>3, <3>1, <3>4
  <2>7. TensFit(t, l, k)
    BY <2>3, <2>4, <2>5, <2>6 DEF TensFit
  <2> QED BY <2>7 DEF t, l, k
<1> QED BY <1>1, <1>2, <1>3

LEMMA EstimateRight ==
  ASSUME NEW x, NEW y, Operand(x, y)
  PROVE  Right(Estimate(x, y), x, y)
<1> DEFINE l == Leading(x)
           k == Leading(y)
           t == Tens(l, k)
           k1 == k \div 10
           d == l \div k
           e == Estimate(x, y)
<1>1. CASE OneDigit(l, k)
  BY <1>1, OneDigitRight DEF Estimate
<1>2. CASE ~OneDigit(l, k)
  <2>1. /\ x \in Nat /\ y \in Nat \ {0} /\ 10 * Unit <= y /\ y < 100 * Unit
        /\ l \in 0..9999 /\ l * Unit <= x
        /\ k \in 10..99 /\ y < (k + 1) * Unit /\ k1 \in 1..9 /\ k < 10 * k1 + 10
    BY LeadingDigits
  <2>2. /\ t \in 0..9
        /\ \A g \in 0..99 : g * k <= l => g <= 10 * t + 9
        /\ 10 * t * k <= l \/ (l >= 1000 /\ 100 * (t * k1) <= l)
    <3>1. TensFit(t, l, k)
      BY <1>2, TensRight
    <3> HIDE DEF t, l, k
    <3> QED BY <3>1 DEF TensFit
  <2>3. e = MaxOf(10 * t, MinOf(10 * t + 9, d))
    BY <1>2 DEF Estimate
  <2>4. \A g \in 0..99 : g * y <= x => g * k <= l
    BY LeadingProduct
  <2>5. Unit \in Nat \ {0}
    BY Powers
  <2>6. x = 0 => OneDigit(l, k)
    <3> SUFFICES ASSUME x = 0 PROVE OneDigit(l, k)
      OBVIOUS
    <3>1. l = 0
      BY LeadingZero
    <3>2. 0 \div k1 = 0
      BY <2>1
    <3> QED BY <2>1, <3>1, <3>2 DEF OneDigit, TableQuotient
  <2> HIDE DEF l, k
  <2>7. d \in Nat /\ (d * k) <= l /\ \A g \in Nat : g * k <= l => g <= d
    <3>1. l \in Nat /\ k \in Nat \ {0}
      BY <2>1
    <3>2. d \in Nat /\ (d * k) + (l % k) = l /\ l % k \in Nat
      BY <3>1, DivMod
    <3>3. d * k \in Nat
      BY <3>1, <3>2
    <3>4. \A g \in Nat : g * k <= l => g <= d
      BY <3>1, DivLargest
    <3> HIDE DEF d
    <3> QED BY <3>1, <3>2, <3>3, <3>4
  <2> HIDE DEF t, d, e
  <2>8. e \in 0..99 /\ (e <= d \/ (e = 10 * t /\ d < e))
    BY <2>2, <2>3, <2>7 DEF MaxOf, MinOf
  <2>9. ASSUME NEW g \in 0..99, g * y <= x PROVE g <= e
    <3>1. g <= d /\ g <= 10 * t + 9
      BY <2>2, <2>4, <2>7, <2>9
    <3> QED BY <2>2, <2>3, <2>7, <3>1 DEF MaxOf, MinOf
  <2>10. e * y <= x + 40 * y
    <3>1. CASE e <= d
      <4>1. e * k <= l
        <5>1. e * k <= d * k /\ d * k \in Nat /\ e * k \in Nat
          BY <2>1, <2>7, <2>8, <3>1, TimesMonotonic
        <5> QED BY <2>1, <2>7, <5>1
      <4>2. (e * k) * Unit <= l * Unit /\ l * Unit \in Nat /\ (e * k) * Unit \in Nat
        BY <2>1, <2>5, <2>8, <4>1, TimesMonotonic
      <4>3. e * y <= e * ((k + 1) * Unit)
        <5>1. y * e <= ((k + 1) * Unit) * e
          BY <2>1, <2>5, <2>8, TimesMonotonic
        <5> QED BY <2>1, <2>5, <2>8, <5>1
      <4>4. e * ((k + 1) * Unit) = ((e * k) * Unit) + (e * Unit)
        BY <2>1, <2>5, <2>8
      <4>5. e * Unit <= 99 * Unit
        BY <2>5, <2>8, TimesMonotonic
      <4>6. e * y \in Nat /\ e * Unit \in Nat
        BY <2>1, <2>5, <2>8
      <4> QED BY <2>1, <2>5, <4>2, <4>3, <4>4, <4>5, <4>6
    <3>2. CASE e = 10 * t /\ d < e
      <4>1. l >= 1000 /\ 100 * (t * k1) <= l
        <5>1. 10 * t * k = e * k
          BY <3>2
        <5>2. ~(10 * t * k <= l)
          BY <2>1, <2>7, <2>8, <3>2, <5>1
        <5> QED BY <2>2, <5>2
      <4>2. CASE t <= 4
        <5>1. e * y <= 40 * y
          BY <2>1, <2>8, <3>2, <4>2, TimesMonotonic, <2>2
        <5> QED BY <2>1, <2>8, <5>1
      <4>3. CASE t >= 5
        <5> DEFINE w == 10 * t - 40
        <5>1. w \in 10..50 /\ e * y = (w * y) + (40 * y)
          BY <2>1, <2>2, <3>2, <4>3
        <5>2. y <= (10 * (k1 + 1)) * Unit
          <6>1. (k + 1) * Unit <= (10 * (k1 + 1)) * Unit
            BY <2>1, <2>5, TimesMonotonic
          <6> QED BY <2>1, <2>5, <6>1
        <5> HIDE DEF w, k1
        <5>3. w * y <= (w * (10 * (k1 + 1))) * Unit
          <6>1. y * w <= ((10 * (k1 + 1)) * Unit) * w
            BY <2>1, <2>5, <5>1, <5>2, TimesMonotonic
          <6> QED BY <2>1, <2>5, <5>1, <6>1
        <5>4. w * (10 * (k1 + 1)) <= l
          <6>1. CASE k1 = 1
            <7>1. w * (10 * (k1 + 1)) = 20 * w
              BY <6>1, <5>1
            <7> QED BY <4>1, <5>1, <7>1, <2>1
          <6>2. CASE k1 >= 2
            <7>1. k1 \in {2, 3, 4, 5, 6, 7, 8, 9} /\ w = 10 * t - 40 /\ t \in {5, 6, 7, 8, 9}
              BY <2>1, <2>2, <4>3, <6>2 DEF w
            <7>2. w * (10 * (k1 + 1)) <= 100 * (t * k1)
              BY <7>1
            <7> QED BY <2>1, <2>2, <4>1, <5>1, <7>2
          <6> QED BY <2>1, <6>1, <6>2
        <5>5. (w * (10 * (k1 + 1))) * Unit <= l * Unit
          BY <2>1, <2>5, <5>1, <5>4, TimesMonotonic
        <5>6. w * y \in Nat /\ (w * (10 * (k1 + 1))) * Unit \in Nat /\ l * Unit \in Nat
          BY <2>1, <2>5, <5>1
        <5> QED BY <2>1, <5>1, <5>3, <5>5, <5>6
      <4> QED BY <2>2, <4>2, <4>3
    <3> QED BY <2>8, <3>1, <3>2
  <2>11. Right(e, x, y)
    BY <1>2, <2>6, <2>8, <2>9, <2>10 DEF Right, l, k
  <2> QED BY <2>11 DEF e
<1> QED BY <1>1, <1>2
-----------------------------------------------------------------------------
(* The inductive invariant                                                 *)

\* The sequence of values that Turns follows.
Trace(a, y, e) ==
  LET f[n \in 0..LastTurn] ==
        IF n = 0 THEN [q |-> 0, r |-> a, e |-> e] ELSE Turn(f[n-1], y)
  IN  f

LeftShift  == P + 1 - Digits(lhs)
RightShift == P - Digits(rhs)

\* After n turns: where the dividend and the divisor come from, and the value
\* that Turns has then.
Reached(n) ==
  /\ LeftShift + 2 * n < D /\ 2 * n < P + 2
  /\ num = lhs * Pow10[LeftShift + 2 * n]
  /\ b = rhs * Pow10[RightShift]
  /\ exp = 2 - LeftShift + RightShift - 2 * n
  /\ LET f == Trace(lhs * Pow10[LeftShift], b, RightShift - LeftShift)
     IN  f[IF pc = "digit" THEN n + 1 ELSE n] =
           [q |-> q, r |-> r, e |-> IF pc = "digit" THEN exp - 4 ELSE exp - 2]

\* The ones digit found so far: its product is below the leading digits.
Counting ==
  LET t == Tens(Leading(r), Leading(b))
  IN  /\ ~OneDigit(Leading(r), Leading(b))
      /\ c \in (10 * t)..(10 * t + 8)
      /\ c = 10 * t \/ c * Leading(b) < Leading(r)

\* Each decrement takes one divisor away.  With nothing left to divide the
\* product wraps at the first one and comes down again.
Fixing ==
  /\ r > 0 => /\ c + fixes = Estimate(r, b) /\ product = c * b
              /\ product >= r /\ (fixes > 0 => product > r)
  /\ r = 0 => /\ fixes <= MaxFixes
              /\ product = IF fixes = 0 THEN 0 ELSE Wrap - fixes * b

Found ==
  /\ r > 0 /\ c = TwoDigits(r, b) /\ product = c * b /\ fixes <= 40
  /\ equal <=> r - product = b

Turning == {"estimate", "ones", "multiply", "fix"}

DivInv ==
  /\ pc \in Turning \cup {"align", "rest", "digit", "done"}
  /\ lhs \in 1..MaxMant /\ rhs \in 1..MaxMant
  /\ r \in Nat /\ q \in Nat /\ num \in Nat /\ c \in Nat /\ fixes \in Nat /\ exp \in Int
  /\ equal \in BOOLEAN
  /\ pc = "align" => exp = 2 /\ q = 0 /\ ~equal
  /\ pc \in Turning \cup {"rest"} =>
       Operand(r, b) /\ q < Pow10[P] /\ 100 * (q * b) + r = num
  /\ pc \in Turning => (equal <=> r = 100 * b)
  /\ pc = "ones" => Counting
  /\ pc = "multiply" => c = Estimate(r, b)
  /\ pc = "fix" => Fixing
  /\ pc = "rest" => Found
  /\ pc = "digit" =>
       /\ b \in Nat \ {0} /\ q >= Pow10[P]
       /\ \E rest \in 0..b : r = 100 * rest /\ q * b + rest = num /\ (equal <=> rest = b)
  /\ pc \notin {"align", "done"} => \E n \in 0..P : Reached(n)
  /\ DigitHonest /\ MatchesDpdDiv

-----------------------------------------------------------------------------
(* Two digits, and the turns                                               *)

\* The digits that the correction leaves, and when it goes one divisor too far.
PairFits(g, x, y) ==
  /\ g \in 0..99 /\ g * y <= x /\ x - g * y <= y
  /\ x - g * y = y <=> (x = 100 * y \/ Estimate(x, y) * y = x)

LEMMA TwoDigitsFit ==
  ASSUME NEW x, NEW y, Operand(x, y), x > 0
  PROVE  PairFits(TwoDigits(x, y), x, y)
<1> DEFINE e == Estimate(x, y)
           d == x \div y
           m == x % y
           g == TwoDigits(x, y)
<1>1. x \in Nat /\ y \in Nat \ {0} /\ x <= 100 * y
  BY LeadingDigits DEF Operand
<1>2. d \in Nat /\ m \in 0..(y - 1) /\ (d * y) + m = x
  BY <1>1, DivMod
<1>3. e \in 0..99 /\ \A h \in 0..99 : h * y <= x => h <= e
  BY EstimateRight DEF Right
<1>4. g = IF e * y = x THEN e - 1 ELSE MinOf(e, d)
  BY DEF TwoDigits
<1> SUFFICES PairFits(g, x, y)
  OBVIOUS
<1> HIDE DEF e, d, m, g
<1>5. CASE e * y = x
  <2>1. e # 0
    BY <1>1, <1>3, <1>5
  <2>2. g = e - 1 /\ g \in 0..99 /\ e = g + 1
    BY <1>3, <1>4, <1>5, <2>1
  <2>3. x = (g * y) + y /\ g * y \in Nat
    BY <1>1, <1>5, <2>2
  <2>4. g * y <= x /\ x - g * y = y
    BY <1>1, <2>3
  <2> QED BY <1>1, <1>5, <2>2, <2>4 DEF PairFits, e
<1>6. CASE e * y # x /\ d <= 99
  <2>1. d * y \in Nat /\ d * y <= x
    BY <1>1, <1>2
  <2>2. d <= e
    BY <1>2, <1>3, <1>6, <2>1
  <2>3. g = d
    BY <1>2, <1>3, <1>4, <1>6, <2>2 DEF MinOf
  <2>4. x - g * y = m /\ g * y <= x
    BY <1>1, <1>2, <2>1, <2>3
  <2>5. x # 100 * y
    <3>1. d * y <= 99 * y
      BY <1>1, <1>2, <1>6, TimesMonotonic
    <3> QED BY <1>1, <1>2, <2>1, <3>1
  <2> QED BY <1>1, <1>2, <1>6, <2>3, <2>4, <2>5 DEF PairFits, e
<1>7. CASE e * y # x /\ d >= 100
  <2>1. 100 * y <= d * y /\ d * y \in Nat
    BY <1>1, <1>2, <1>7, TimesMonotonic
  <2>2. x = 100 * y
    BY <1>1, <1>2, <2>1
  <2>3. e = 99
    BY <1>1, <1>3, <2>2
  <2>4. g = 99
    BY <1>2, <1>4, <1>7, <2>3 DEF MinOf
  <2> QED BY <1>1, <2>2, <2>4 DEF PairFits
<1> QED BY <1>2, <1>5, <1>6, <1>7

\* Trace is the recursive function of Turns.
IsTrace(f, n, a, y, e) ==
  f = [k \in 0..n |-> IF k = 0 THEN [q |-> 0, r |-> a, e |-> e] ELSE Turn(f[k-1], y)]

LEMMA TraceExists ==
  ASSUME NEW a, NEW y, NEW e
  PROVE  \A n \in Nat : \E f : IsTrace(f, n, a, y, e)
<1> DEFINE z == [q |-> 0, r |-> a, e |-> e]
           S == {n \in Nat : \E f : IsTrace(f, n, a, y, e)}
<1>1. 0 \in S
  <2> DEFINE f == [k \in 0..0 |-> z]
  <2>1. f = [k \in 0..0 |-> IF k = 0 THEN z ELSE Turn(f[k-1], y)]
    OBVIOUS
  <2>2. IsTrace(f, 0, a, y, e)
    BY <2>1, Zenon DEF IsTrace
  <2> QED BY <2>2
<1>2. ASSUME NEW n \in S PROVE n + 1 \in S
  <2>1. n \in Nat
    BY <1>2
  <2>2. PICK f : IsTrace(f, n, a, y, e)
    BY <1>2
  <2> DEFINE g == [k \in 0..(n + 1) |-> IF k = n + 1 THEN Turn(f[n], y) ELSE f[k]]
             h == [k \in 0..(n + 1) |-> IF k = 0 THEN z ELSE Turn(g[k-1], y)]
  <2>3. f = [k \in 0..n |-> IF k = 0 THEN z ELSE Turn(f[k-1], y)]
    BY <2>2, Zenon DEF IsTrace
  <2>4. ASSUME NEW k \in 0..(n + 1) PROVE g[k] = h[k]
    <3>0. 0 \in 0..n /\ f[0] = z
      BY <2>1, <2>3
    <3>1. CASE k = 0
      BY <2>1, <3>0, <3>1
    <3>2. CASE k \in 1..n
      <4>1. k \in 0..n /\ k # 0 /\ k # n + 1 /\ k - 1 \in 0..(n + 1) /\ k - 1 # n + 1
        BY <2>1, <3>2
      <4>2. f[k] = Turn(f[k-1], y)
        BY <2>3, <4>1
      <4>3. g[k-1] = f[k-1] /\ g[k] = f[k] /\ h[k] = Turn(g[k-1], y)
        BY <4>1, <2>4, Zenon
      <4> QED BY <4>2, <4>3
    <3>3. CASE k = n + 1
      <4>1. k - 1 = n /\ n \in 0..(n + 1) /\ n # n + 1 /\ k # 0
        BY <2>1, <3>3
      <4>2. g[n] = f[n] /\ g[k] = Turn(f[n], y) /\ h[k] = Turn(g[n], y)
        BY <4>1, <3>3, <2>4, Zenon
      <4> QED BY <4>2
    <3> QED BY <2>1, <3>1, <3>2, <3>3
  <2>5. g = h
    BY <2>4
  <2>6. IsTrace(g, n + 1, a, y, e)
    BY <2>5, Zenon DEF IsTrace
  <2> HIDE DEF g
  <2> QED BY <2>1, <2>6
<1>3. S = Nat
  <2>1. S \in SUBSET Nat
    OBVIOUS
  <2> HIDE DEF S
  <2> QED BY <1>1, <1>2, <2>1, SetInduction
<1> QED BY <1>3

LEMMA TraceMeaning ==
  ASSUME NEW a, NEW y, NEW e
  PROVE  /\ Trace(a, y, e)[0] = [q |-> 0, r |-> a, e |-> e]
         /\ \A n \in 0..(LastTurn - 1) : Trace(a, y, e)[n + 1] = Turn(Trace(a, y, e)[n], y)
         /\ Turns(a, y, e) = Trace(a, y, e)[LastTurn]
<1> DEFINE f == Trace(a, y, e)
<1>1. f = CHOOSE g : IsTrace(g, LastTurn, a, y, e)
  BY Zenon DEF IsTrace, Trace
<1>2. LastTurn \in Nat
  BY Powers DEF LastTurn
<1>3. IsTrace(f, LastTurn, a, y, e)
  BY <1>1, <1>2, TraceExists, Zenon
<1>4. Turns(a, y, e) = f[LastTurn]
  BY Zenon DEF Turns, Trace
<1> HIDE DEF f
<1>5. f = [k \in 0..LastTurn |->
             IF k = 0 THEN [q |-> 0, r |-> a, e |-> e] ELSE Turn(f[k-1], y)]
  BY <1>3, Zenon DEF IsTrace
<1>6. f[0] = [q |-> 0, r |-> a, e |-> e]
  <2>1. 0 \in 0..LastTurn
    BY <1>2
  <2> QED BY <1>5, <2>1
<1>7. ASSUME NEW n \in 0..(LastTurn - 1) PROVE f[n + 1] = Turn(f[n], y)
  <2>1. n + 1 \in 0..LastTurn /\ n + 1 # 0 /\ (n + 1) - 1 = n
    BY <1>2
  <2>2. f[n + 1] = Turn(f[(n + 1) - 1], y)
    BY <1>5, <2>1
  <2> QED BY <2>1, <2>2
<1> QED BY <1>4, <1>6, <1>7 DEF f

\* Nothing changes after the quotient is long enough.
LEMMA TraceEnds ==
  ASSUME NEW a, NEW y, NEW e, NEW n \in 0..LastTurn, Long(Trace(a, y, e)[n].q)
  PROVE  Turns(a, y, e) = Trace(a, y, e)[n]
<1> DEFINE f == Trace(a, y, e)
           S == {k \in Nat : n + k <= LastTurn => f[n + k] = f[n]}
<1>1. LastTurn \in Nat /\ n \in Nat /\ n <= LastTurn
  BY Powers DEF LastTurn
<1>0. /\ Trace(a, y, e)[0] = [q |-> 0, r |-> a, e |-> e]
      /\ \A k \in 0..(LastTurn - 1) : Trace(a, y, e)[k + 1] = Turn(Trace(a, y, e)[k], y)
      /\ Turns(a, y, e) = Trace(a, y, e)[LastTurn]
  BY TraceMeaning
<1>2. \A k \in 0..(LastTurn - 1) : f[k + 1] = Turn(f[k], y)
  BY <1>0
<1>3. Turn(f[n], y) = f[n]
  BY Zenon DEF Turn, Long
<1> HIDE DEF f
<1>4. 0 \in S
  BY <1>1
<1>5. ASSUME NEW k \in S PROVE k + 1 \in S
  <2> SUFFICES ASSUME n + (k + 1) <= LastTurn PROVE f[n + (k + 1)] = f[n]
    BY <1>5
  <2>1. k \in Nat /\ n + k \in 0..(LastTurn - 1) /\ (n + k) + 1 = n + (k + 1) /\ f[n + k] = f[n]
    BY <1>1, <1>5
  <2>2. f[(n + k) + 1] = Turn(f[n + k], y)
    BY <1>2, <2>1
  <2> QED BY <1>3, <2>1, <2>2
<1>6. S = Nat
  <2>1. S \in SUBSET Nat
    OBVIOUS
  <2> HIDE DEF S
  <2> QED BY <1>4, <1>5, <2>1, SetInduction
<1>7. PICK k \in Nat : LastTurn = n + k
  <2>1. LastTurn - n \in Nat /\ LastTurn = n + (LastTurn - n)
    BY <1>1
  <2> QED BY <2>1
<1>8. f[LastTurn] = f[n]
  <2>1. k \in S /\ n + k <= LastTurn
    BY <1>1, <1>6, <1>7
  <2>2. f[n + k] = f[n]
    BY <2>1
  <2> QED BY <1>7, <2>2
<1>9. Turns(a, y, e) = f[LastTurn]
  BY <1>0 DEF f
<1> QED BY <1>8, <1>9 DEF f

-----------------------------------------------------------------------------
(* Every step keeps the invariant                                          *)

\* A run follows the correction of an exhausted division for less than one
\* turn of the register: this is 16 * 10^8 decrements in the code.
Followed == MaxFixes < 16 * Pow10[P + 1]

LEMMA RegisterHolds ==
  ASSUME NEW y \in Nat, y < Pow10[P], NEW f \in Nat, f < 16 * Pow10[P + 1]
  PROVE  Wrap \in Nat /\ f * y \in Nat /\ f * y < Wrap
<1> DEFINE t == 16 * Pow10[P + 1]
           p == Pow10[P]
<1>1. P \in Nat /\ P + 1 \in Nat /\ D - 1 = (P + 1) + P /\ (P + 1) + P <= MaxShift
  BY Powers
<1>2. Pow10[(P + 1) + P] = Pow10[P + 1] * Pow10[P]
  BY <1>1, PowerSum
<1>3. Pow10[P + 1] \in Nat \ {0} /\ p \in Nat \ {0}
  BY Powers
<1>4. t \in Nat \ {0} /\ Wrap = t * p
  BY <1>1, <1>2, <1>3 DEF Wrap
<1> HIDE DEF t, p
<1>5. f * y <= t * y /\ f * y \in Nat /\ t * y \in Nat
  BY <1>4, TimesMonotonic DEF t
<1>6. (t * y) + t <= t * p
  <2>1. (y + 1) * t <= p * t
    BY <1>3, <1>4, TimesMonotonic DEF p
  <2> QED BY <1>3, <1>4, <2>1
<1> QED BY <1>3, <1>4, <1>5, <1>6

\* Both operands after the alignment.
LEMMA Aligned ==
  ASSUME NEW x \in 1..MaxMant, NEW y \in 1..MaxMant,
         NEW la, la = P + 1 - Digits(x), NEW lb, lb = P - Digits(y)
  PROVE  /\ la \in 1..P /\ lb \in 0..P
         /\ x * Pow10[la] \in Nat /\ Pow10[P] <= x * Pow10[la]
         /\ Operand(x * Pow10[la], y * Pow10[lb]) /\ x * Pow10[la] # 100 * (y * Pow10[lb])
<1> DEFINE n == Digits(x)
           m == Digits(y)
           u == x * Pow10[la]
           v == y * Pow10[lb]
<1>1. /\ x \in Nat \ {0} /\ n \in 1..P /\ IsDigits(n, x)
      /\ y \in Nat \ {0} /\ m \in 1..P /\ IsDigits(m, y)
  BY Mantissa
<1>2. /\ P \in Nat /\ P > 1 /\ P + 1 <= MaxShift /\ MaxShift \in Nat /\ Unit \in Nat \ {0}
      /\ Pow10[P - 1] = 10 * Unit /\ Pow10[P] = 100 * Unit /\ Pow10[P + 1] = 1000 * Unit
  BY Powers
<1> HIDE DEF n, m
<1>3. la \in 1..P /\ la \in Nat /\ n + la = P + 1 /\ lb \in 0..P /\ lb \in Nat /\ m + lb = P
  BY <1>1, <1>2 DEF n, m
<1>4. u \in Nat \ {0} /\ IsDigits(P + 1, u)
  <2>1. u \in Nat \ {0} /\ IsDigits(n + la, u)
    BY <1>1, <1>2, <1>3, DigitsTimes
  <2> QED BY <1>3, <2>1
<1>5. v \in Nat \ {0} /\ IsDigits(P, v)
  <2>1. v \in Nat \ {0} /\ IsDigits(m + lb, v)
    BY <1>1, <1>2, <1>3, DigitsTimes
  <2> QED BY <1>3, <2>1
<1> HIDE DEF u, v
<1>6. u < Pow10[P + 1] /\ Pow10[(P + 1) - 1] <= u /\ (P + 1) - 1 = P
  BY <1>2, <1>4 DEF IsDigits
<1>7. v < Pow10[P] /\ Pow10[P - 1] <= v
  BY <1>2, <1>5 DEF IsDigits
<1>8. Operand(u, v) /\ u # 100 * v /\ Pow10[P] <= u
  BY <1>2, <1>4, <1>5, <1>6, <1>7 DEF Operand
<1> QED BY <1>3, <1>4, <1>8 DEF u, v

LEMMA TraceStart ==
  ASSUME NEW a, NEW y, NEW e
  PROVE  Trace(a, y, e)[0] = [q |-> 0, r |-> a, e |-> e]
BY TraceMeaning

LEMMA AlignKeeps ==
  ASSUME DivInv, AlignOperands
  PROVE  DivInv'
<1> DEFINE la == P + 1 - Digits(lhs)
           lb == P - Digits(rhs)
           u == lhs * Pow10[la]
           v == rhs * Pow10[lb]
<1>1. /\ lhs \in 1..MaxMant /\ rhs \in 1..MaxMant /\ exp = 2 /\ q = 0 /\ equal = FALSE
      /\ c \in Nat /\ fixes \in Nat
  BY DEF DivInv, AlignOperands
<1>2. /\ r' = u /\ b' = v /\ exp' = 2 - la + lb /\ num' = u /\ pc' = "estimate"
      /\ lhs' = lhs /\ rhs' = rhs /\ c' = c /\ q' = q /\ fixes' = fixes /\ equal' = equal
  BY <1>1 DEF AlignOperands
<1>3. /\ la \in 1..P /\ lb \in 0..P /\ u \in Nat /\ Operand(u, v) /\ u # 100 * v
  BY <1>1, Aligned
<1>4. Trace(u, v, lb - la)[0] = [q |-> 0, r |-> u, e |-> lb - la]
  BY TraceStart
<1>5. LeftShift' = la /\ RightShift' = lb /\ lhs' * Pow10[la] = u /\ rhs' * Pow10[lb] = v
  BY <1>2 DEF LeftShift, RightShift
<1>6. v \in Nat \ {0} /\ P \in Nat \ {0} /\ Pow10[P] \in Nat \ {0} /\ D = 2 * P + 2
  BY <1>3, Powers, LeadingDigits
<1> HIDE DEF la, lb, u, v
<1>7. Reached(0)'
  <2>1. LeftShift' + 2 * 0 = la /\ la < D /\ 2 * 0 < P + 2
    BY <1>3, <1>5, <1>6
  <2>2. num' = lhs' * Pow10[LeftShift' + 2 * 0] /\ b' = rhs' * Pow10[RightShift']
    BY <1>2, <1>5, <2>1
  <2>3. exp' = 2 - LeftShift' + RightShift' - 2 * 0 /\ exp' - 2 = lb - la
    BY <1>2, <1>3, <1>5
  <2>4. Trace(lhs' * Pow10[LeftShift'], b', RightShift' - LeftShift')[0]
          = [q |-> q', r |-> r', e |-> exp' - 2]
    BY <1>1, <1>2, <1>4, <1>5, <2>3
  <2> QED BY <1>2, <1>5, <2>1, <2>2, <2>3, <2>4 DEF Reached
<1>8. q' = 0 /\ 100 * (q' * b') + r' = num' /\ r' \in Nat /\ num' \in Nat /\ exp' \in Int
  BY <1>1, <1>2, <1>3, <1>6
<1>9. \E n \in 0..P : Reached(n)'
  BY <1>6, <1>7
<1>10. (equal' <=> r' = 100 * b') /\ Operand(r', b') /\ q' < Pow10[P]
  BY <1>1, <1>2, <1>3, <1>6
<1> QED
  BY <1>1, <1>2, <1>8, <1>9, <1>10 DEF DivInv, Turning, DigitHonest, MatchesDpdDiv

LEMMA ReachedStays ==
  ASSUME pc \in Turning, pc' \in Turning \cup {"rest"},
         UNCHANGED <<lhs, rhs, r, b, q, exp, num>>,
         \E n \in 0..P : Reached(n)
  PROVE  \E n \in 0..P : Reached(n)'
<1>1. PICK n \in 0..P : Reached(n)
  OBVIOUS
<1>2. pc # "digit" /\ pc' # "digit"
  BY DEF Turning
<1>3. LeftShift' = LeftShift /\ RightShift' = RightShift
  BY DEF LeftShift, RightShift
<1>4. /\ LeftShift + 2 * n < D /\ 2 * n < P + 2
      /\ num = lhs * Pow10[LeftShift + 2 * n]
      /\ b = rhs * Pow10[RightShift]
      /\ exp = 2 - LeftShift + RightShift - 2 * n
      /\ Trace(lhs * Pow10[LeftShift], b, RightShift - LeftShift)[n]
           = [q |-> q, r |-> r, e |-> exp - 2]
  BY <1>1, <1>2 DEF Reached
<1>5. Reached(n)'
  BY <1>2, <1>3, <1>4 DEF Reached
<1> QED BY <1>5

\* What holds while the estimate is made, and goes on holding.
LEMMA EstimateStays ==
  ASSUME DivInv, pc \in Turning, pc' \in Turning,
         UNCHANGED <<lhs, rhs, r, b, q, exp, num, equal>>, c' \in Nat, fixes' \in Nat,
         pc' = "ones" => Counting',
         pc' = "multiply" => c' = Estimate(r', b'),
         pc' = "fix" => Fixing'
  PROVE  DivInv'
<1>1. /\ lhs \in 1..MaxMant /\ rhs \in 1..MaxMant
      /\ r \in Nat /\ q \in Nat /\ num \in Nat /\ exp \in Int /\ equal \in BOOLEAN
      /\ Operand(r, b) /\ q < Pow10[P] /\ 100 * (q * b) + r = num
      /\ equal <=> r = 100 * b
      /\ \E n \in 0..P : Reached(n)
  BY DEF DivInv, Turning
<1>2. \E n \in 0..P : Reached(n)'
  BY <1>1, ReachedStays
<1> QED BY <1>1, <1>2 DEF DivInv, Turning, DigitHonest, MatchesDpdDiv

LEMMA FirstEstimateKeeps ==
  ASSUME DivInv, FirstEstimate
  PROVE  DivInv'
<1> DEFINE l == Leading(r)
           k == Leading(b)
<1>1. /\ pc = "estimate" /\ UNCHANGED <<lhs, rhs, r, b, q, exp, num, fixes, equal>>
      /\ Operand(r, b) /\ fixes \in Nat
  BY DEF DivInv, Turning, FirstEstimate
<1>2. CASE OneDigit(l, k)
  <2>1. c' = TableQuotient(l \div 10, k \div 10) /\ pc' = "multiply"
    BY <1>2 DEF FirstEstimate
  <2>2. c' = Estimate(r', b')
    BY <1>1, <1>2, <2>1 DEF Estimate
  <2>3. c' \in Nat
    <3>1. Right(c', r, b)
      BY <1>1, <1>2, <2>1, OneDigitRight
    <3> QED BY <3>1 DEF Right
  <2> QED BY <1>1, <2>1, <2>2, <2>3, EstimateStays DEF Turning
<1>3. CASE ~OneDigit(l, k)
  <2> DEFINE t == Tens(l, k)
  <2>1. c' = 10 * t /\ pc' = "ones"
    BY <1>3 DEF FirstEstimate
  <2>2. t \in 0..9
    <3>1. TensFit(t, l, k)
      BY <1>1, <1>3, TensRight
    <3> QED BY <3>1, Zenon DEF TensFit
  <2>3. Leading(r') = l /\ Leading(b') = k
    BY <1>1
  <2> HIDE DEF l, k, t
  <2>4. Counting'
    <3>1. c' \in (10 * t)..(10 * t + 8)
      BY <2>1, <2>2
    <3> QED BY <1>3, <2>1, <2>3, <3>1 DEF Counting, t
  <2> QED BY <1>1, <2>1, <2>2, <2>4, EstimateStays DEF Turning
<1> QED BY <1>2, <1>3

LEMMA OnesKeeps ==
  ASSUME DivInv, Ones
  PROVE  DivInv'
<1> DEFINE l == Leading(r)
           k == Leading(b)
           t == Tens(l, k)
           d == l \div k
           next == (c + 1) * k
<1>1. /\ pc = "ones" /\ UNCHANGED <<lhs, rhs, r, b, q, exp, num, fixes, equal>>
      /\ Operand(r, b) /\ Counting /\ c \in Nat /\ fixes \in Nat
  BY DEF DivInv, Turning, Ones
<1>2. l \in Nat /\ k \in Nat \ {0} /\ Leading(r') = l /\ Leading(b') = k
  <2>0. Operand(r, b)
    BY <1>1
  <2>1. l \in 0..9999 /\ k \in 10..99
    BY <2>0, LeadingDigits
  <2>2. Leading(r') = l /\ Leading(b') = k
    BY <1>1
  <2> HIDE DEF l, k
  <2> QED BY <2>1, <2>2
<1>3. ~OneDigit(l, k) /\ c \in (10 * t)..(10 * t + 8) /\ (c = 10 * t \/ c * k < l)
  BY <1>1 DEF Counting
<1>4. t \in 0..9
  <2>1. TensFit(t, l, k)
    BY <1>1, <1>3, TensRight
  <2> QED BY <2>1, Zenon DEF TensFit
<1>5. Estimate(r, b) = MaxOf(10 * t, MinOf(10 * t + 9, d))
  BY <1>3 DEF Estimate
<1>6. IF next > l
      THEN c' = c /\ pc' = "multiply"
      ELSE /\ c' = c + 1
           /\ pc' = IF (c + 1) % 10 = 9 \/ next = l THEN "multiply" ELSE "ones"
  BY DEF Ones
<1> HIDE DEF l, k, t
<1>7. d \in Nat /\ \A g \in Nat : g * k <= l <=> g <= d
  <2>1. d \in Nat
    BY <1>2, DivMod
  <2> QED BY <1>2, <2>1, DivLargest
<1> HIDE DEF d
<1>8. next \in Nat /\ c * k \in Nat /\ next = (c * k) + k
  BY <1>1, <1>2
<1>9. CASE next > l
  <2>1. ~(c + 1 <= d)
    BY <1>1, <1>2, <1>7, <1>8, <1>9
  <2>2. c = 10 * t \/ c <= d
    BY <1>1, <1>2, <1>3, <1>7, <1>8
  <2>3. c = Estimate(r, b)
    BY <1>3, <1>4, <1>5, <1>7, <2>1, <2>2 DEF MaxOf, MinOf
  <2>4. c' = c /\ pc' = "multiply"
    BY <1>6, <1>9
  <2>5. c' = Estimate(r', b')
    BY <1>1, <2>3, <2>4
  <2> QED BY <1>1, <2>4, <2>5, EstimateStays DEF Turning
<1>10. CASE next <= l /\ ((c + 1) % 10 = 9 \/ next = l)
  <2>1. c' = c + 1 /\ pc' = "multiply"
    BY <1>2, <1>6, <1>8, <1>10
  <2>2. c + 1 <= d
    BY <1>1, <1>7, <1>10
  <2>3. c + 1 = 10 * t + 9 \/ c + 1 = d
    <3>1. CASE (c + 1) % 10 = 9
      BY <1>3, <1>4, <3>1
    <3>2. CASE next = l
      <4>1. (c + 2) * k = next + k
        BY <1>1, <1>2
      <4>2. ~(c + 2 <= d)
        BY <1>1, <1>2, <1>7, <1>8, <3>2, <4>1
      <4> QED BY <1>1, <1>7, <2>2, <4>2
    <3> QED BY <1>10, <3>1, <3>2
  <2>4. c + 1 = Estimate(r, b)
    BY <1>3, <1>4, <1>5, <1>7, <2>2, <2>3 DEF MaxOf, MinOf
  <2>5. c' = Estimate(r', b')
    BY <1>1, <2>1, <2>4
  <2> QED BY <1>1, <2>1, <2>5, EstimateStays DEF Turning
<1>11. CASE next < l /\ (c + 1) % 10 # 9
  <2>1. c' = c + 1 /\ pc' = "ones"
    BY <1>2, <1>6, <1>8, <1>11
  <2>2. c + 1 \in (10 * t)..(10 * t + 8)
    BY <1>3, <1>4, <1>11
  <2>3. Counting'
    BY <1>2, <1>3, <1>11, <2>1, <2>2 DEF Counting, t
  <2> QED BY <1>1, <2>1, <2>3, EstimateStays DEF Turning
<1> QED BY <1>2, <1>8, <1>9, <1>10, <1>11

LEMMA MultiplyKeeps ==
  ASSUME DivInv, Multiply
  PROVE  DivInv'
<1> DEFINE p == c * b
<1>1. /\ pc = "multiply" /\ UNCHANGED <<lhs, rhs, r, b, c, q, exp, num, equal>>
      /\ Operand(r, b) /\ c = Estimate(r, b) /\ c \in Nat
      /\ lhs \in 1..MaxMant /\ rhs \in 1..MaxMant
      /\ q \in Nat /\ num \in Nat /\ exp \in Int /\ equal \in BOOLEAN
      /\ q < Pow10[P] /\ 100 * (q * b) + r = num /\ (equal <=> r = 100 * b)
      /\ \E n \in 0..P : Reached(n)
  BY DEF DivInv, Turning, Multiply
<1>2. product' = p /\ fixes' = 0 /\ pc' = IF p < r THEN "rest" ELSE "fix"
  BY DEF Multiply
<1>3. r \in Nat /\ b \in Nat \ {0}
  BY <1>1, LeadingDigits
<1>4. c \in 0..99 /\ (r = 0 => c = 0)
  BY <1>1, EstimateRight DEF Right
<1> HIDE DEF p
<1>5. p \in Nat /\ (c = 0 => p = 0)
  BY <1>3, <1>4 DEF p
<1>6. CASE p < r
  <2>1. r > 0
    BY <1>3, <1>5, <1>6
  <2>2. PairFits(TwoDigits(r, b), r, b)
    BY <1>1, <2>1, TwoDigitsFit
  <2> DEFINE d == r \div b
             g == TwoDigits(r, b)
  <2>3. d \in Nat /\ \A h \in Nat : h * b <= r => h <= d
    <3>1. d \in Nat
      BY <1>3, DivMod
    <3> QED BY <1>3, <3>1, DivLargest
  <2>4. g = MinOf(c, d)
    BY <1>1, <1>3, <1>5, <1>6, <2>1 DEF TwoDigits, p
  <2>5. c <= d
    BY <1>1, <1>3, <1>5, <1>6, <2>3 DEF p
  <2>6. c = g
    <3> HIDE DEF d, g
    <3> QED BY <1>1, <2>3, <2>4, <2>5 DEF MinOf
  <2>7. equal <=> r - p = b
    BY <1>1, <1>3, <1>5, <1>6, <2>2, <2>6 DEF PairFits, p
  <2>8. pc' = "rest"
    BY <1>2, <1>6
  <2>9. \E n \in 0..P : Reached(n)'
    BY <1>1, <2>8, ReachedStays DEF Turning
  <2>10. Found'
    BY <1>1, <1>2, <2>1, <2>6, <2>7 DEF Found, p
  <2> QED
    BY <1>1, <1>2, <1>3, <2>8, <2>9, <2>10 DEF DivInv, Turning, DigitHonest, MatchesDpdDiv
<1>7. CASE ~(p < r)
  <2>1. pc' = "fix" /\ p >= r
    BY <1>2, <1>3, <1>5, <1>7
  <2>2. MaxFixes \in Nat
    BY DpdDivAssumption
  <2>3. Fixing'
    BY <1>1, <1>2, <1>4, <1>5, <2>1, <2>2 DEF Fixing, p
  <2> QED BY <1>1, <1>2, <2>1, <2>3, EstimateStays DEF Turning
<1> QED BY <1>6, <1>7

\* A register wraps.
LEMMA Borrow ==
  ASSUME NEW w \in Nat, NEW x \in Nat, 0 < x, x < w
  PROVE  (0 - x) % w = w - x
<1> DEFINE d == (0 - x) \div w
           m == (0 - x) % w
<1>1. d \in Int /\ m \in Int /\ 0 - x = (w * d) + m /\ 0 <= m /\ m < w
  OBVIOUS
<1> HIDE DEF d, m
<1>2. ASSUME d >= 0 PROVE FALSE
  <2>1. w * d >= 0 /\ w * d \in Int
    BY <1>1, <1>2
  <2> QED BY <1>1, <2>1
<1>3. ASSUME d <= -2 PROVE FALSE
  <2>1. PICK k \in Nat : k = -d /\ 2 <= k
    BY <1>1, <1>3
  <2>2. 2 * w <= k * w /\ k * w \in Nat
    BY <2>1, TimesMonotonic
  <2>3. w * d = -(k * w)
    BY <1>1, <2>1
  <2> QED BY <1>1, <2>2, <2>3
<1>4. d = -1
  BY <1>1, <1>2, <1>3
<1>5. w * d = -w
  BY <1>4
<1> QED BY <1>1, <1>5 DEF m

LEMMA FixKeeps ==
  ASSUME DivInv, FixEstimate, Followed
  PROVE  DivInv'
<1>1. /\ pc = "fix" /\ UNCHANGED <<lhs, rhs, r, b, q, exp, num>>
      /\ fixes < MaxFixes /\ Operand(r, b) /\ Fixing /\ c \in Nat /\ fixes \in Nat
      /\ lhs \in 1..MaxMant /\ rhs \in 1..MaxMant
      /\ q \in Nat /\ num \in Nat /\ exp \in Int /\ equal \in BOOLEAN
      /\ q < Pow10[P] /\ 100 * (q * b) + r = num /\ (equal <=> r = 100 * b)
      /\ \E n \in 0..P : Reached(n)
  BY DEF DivInv, Turning, FixEstimate
<1>2. /\ c' = (c - 1) % 160 /\ product' = (product - b) % Wrap /\ fixes' = fixes + 1
      /\ equal' = (equal \/ (product = r /\ r # 0))
      /\ pc' = IF r < product' THEN "fix" ELSE "rest"
  BY DEF FixEstimate
<1>3. r \in Nat /\ b \in Nat \ {0} /\ b < Pow10[P] /\ r <= 100 * b
  BY <1>1, LeadingDigits, Powers DEF Operand
<1>4. MaxFixes \in Nat /\ Pow10[P + 1] \in Nat \ {0} /\ 99 < 16 * Pow10[P + 1]
  BY DpdDivAssumption, Powers
<1>5. Wrap \in Nat /\ \A f \in Nat : f < 16 * Pow10[P + 1] => f * b \in Nat /\ f * b < Wrap
  BY <1>3, <1>4, RegisterHolds
<1>6. CASE r = 0
  <2>1. /\ fixes <= MaxFixes
        /\ product = IF fixes = 0 THEN 0 ELSE Wrap - fixes * b
    BY <1>1, <1>6 DEF Fixing
  <2> DEFINE f == fixes + 1
  <2>2. f \in Nat /\ f < 16 * Pow10[P + 1]
    BY <1>1, <1>4 DEF Followed
  <2>3. f * b \in Nat /\ f * b < Wrap /\ f * b = (fixes * b) + b /\ fixes * b \in Nat
    BY <1>1, <1>3, <1>5, <2>2
  <2>4. product' = Wrap - f * b
    <3>1. CASE fixes = 0
      <4>1. f * b = b /\ product - b = 0 - b /\ 0 < b /\ b < Wrap
        BY <1>3, <2>1, <2>3, <3>1
      <4> QED BY <1>2, <1>3, <1>5, <4>1, Borrow
    <3>2. CASE fixes # 0
      <4>1. product - b = Wrap - f * b
        BY <1>1, <1>3, <1>5, <2>1, <2>3, <3>2
      <4>2. Wrap - f * b \in Nat /\ Wrap - f * b < Wrap
        BY <1>3, <1>5, <2>3
      <4> HIDE DEF f
      <4> QED BY <1>2, <1>5, <4>1, <4>2, ModSmall
    <3> QED BY <3>1, <3>2
  <2>5. pc' = "fix"
    <3> HIDE DEF f
    <3> QED BY <1>2, <1>5, <1>6, <2>3, <2>4
  <2>6. equal' = equal
    BY <1>1, <1>2, <1>6
  <2>7. c' \in Nat
    BY <1>1, <1>2
  <2>8. Fixing'
    BY <1>1, <1>2, <1>4, <1>6, <2>2, <2>4 DEF Fixing
  <2> QED BY <1>1, <1>2, <2>5, <2>6, <2>7, <2>8, EstimateStays DEF Turning
<1>7. CASE r > 0
  <2> DEFINE e == Estimate(r, b)
             d == r \div b
             g == TwoDigits(r, b)
  <2>1. c + fixes = e /\ product = c * b /\ product >= r /\ (fixes > 0 => product > r)
    BY <1>1, <1>7 DEF Fixing
  <2>2. e \in 0..99 /\ e * b <= r + 40 * b
    BY <1>1, EstimateRight DEF Right
  <2>3. g = IF e * b = r THEN e - 1 ELSE MinOf(e, d)
    BY <1>7 DEF TwoDigits
  <2>4. d \in Nat /\ \A h \in Nat : h * b <= r <=> h <= d
    <3>1. d \in Nat
      BY <1>3, DivMod
    <3> QED BY <1>3, <3>1, DivLargest
  <2> HIDE DEF e, d, g
  <2>5. c \in 1..99
    <3>1. c # 0
      BY <1>3, <1>7, <2>1
    <3> QED BY <1>1, <2>1, <2>2, <3>1
  <2>6. PICK k \in 0..98 : c = k + 1
    <3>1. c - 1 \in 0..98 /\ c = (c - 1) + 1
      BY <2>5
    <3> QED BY <3>1
  <2>7. product = (k * b) + b /\ k * b \in Nat
    BY <1>3, <2>1, <2>6
  <2>8. c' = k
    BY <1>2, <2>6
  <2>9. product' = k * b
    <3>1. k * b < Wrap
      BY <1>4, <1>5, <2>6
    <3>2. product - b = k * b
      BY <1>3, <2>7
    <3> QED BY <1>2, <1>5, <2>7, <3>1, <3>2, ModSmall
  <2>10. r # 100 * b
    <3>1. c * b <= 99 * b /\ c * b \in Nat
      BY <1>3, <2>5, TimesMonotonic
    <3> QED BY <1>3, <2>1, <3>1
  <2>11. e * b = (c * b) + (fixes * b) /\ c * b \in Nat /\ fixes * b \in Nat /\ e * b \in Nat
    <3>1. e * b = (c + fixes) * b
      BY <2>1
    <3> QED BY <1>1, <1>3, <2>5, <3>1
  <2>12. fixes < 40
    <3>1. ASSUME fixes >= 40 PROVE FALSE
      <4>1. 40 * b <= fixes * b
        BY <1>1, <1>3, <3>1, TimesMonotonic
      <4>2. product > r
        BY <1>1, <2>1, <3>1
      <4> QED BY <1>3, <2>1, <2>2, <2>11, <4>1, <4>2
    <3> QED BY <1>1, <3>1
  <2>13. CASE product = r
    <3>1. fixes = 0 /\ e = c /\ e * b = r
      BY <1>1, <1>3, <2>1, <2>5, <2>13
    <3>2. k = g
      BY <2>3, <2>6, <3>1
    <3>3. pc' = "rest" /\ equal' = TRUE /\ r - k * b = b
      <4>1. r - k * b = b /\ ~(r < k * b)
        BY <1>3, <2>7, <2>13
      <4>2. pc' = "rest"
        BY <1>2, <2>9, <4>1
      <4>3. product = r /\ r # 0
        BY <1>7, <2>13
      <4>4. equal' = TRUE
        BY <1>2, <4>3, Zenon
      <4> QED BY <4>1, <4>2, <4>4
    <3>4. Found'
      BY <1>1, <1>2, <1>7, <2>8, <2>9, <3>1, <3>2, <3>3 DEF Found, g
    <3>5. \E n \in 0..P : Reached(n)'
      BY <1>1, <3>3, ReachedStays DEF Turning
    <3>6. c' \in Nat /\ fixes' \in Nat
      BY <1>1, <1>2, <2>8
    <3> QED
      BY <1>1, <1>3, <3>3, <3>4, <3>5, <3>6 DEF DivInv, Turning, DigitHonest, MatchesDpdDiv
  <2>14. CASE product > r /\ r < k * b
    <3>1. pc' = "fix" /\ equal' = equal /\ c' \in Nat /\ fixes' \in Nat
      BY <1>1, <1>2, <1>3, <2>7, <2>8, <2>9, <2>14
    <3>2. c' + fixes' = e
      BY <1>1, <1>2, <2>1, <2>6, <2>8
    <3>3. Fixing'
      <4>1. r' = r /\ b' = b
        BY <1>1
      <4>2. r' > 0 /\ product' = c' * b' /\ product' > r'
        BY <1>7, <2>8, <2>9, <2>14, <4>1
      <4>3. c' + fixes' = Estimate(r', b')
        BY <3>2, <4>1 DEF e
      <4>4. product' >= r'
        BY <1>3, <2>7, <2>9, <2>14, <4>1
      <4> QED BY <1>3, <4>1, <4>2, <4>3, <4>4 DEF Fixing
    <3> QED BY <1>1, <3>1, <3>3, EstimateStays DEF Turning
  <2>15. CASE product > r /\ ~(r < k * b)
    <3>1. pc' = "rest" /\ equal' = FALSE
      BY <1>1, <1>2, <1>3, <2>7, <2>9, <2>10, <2>15
    <3>2. k <= d /\ ~(k + 1 <= d)
      BY <1>3, <2>1, <2>4, <2>6, <2>7, <2>15
    <3>3. e * b # r
      BY <1>3, <2>1, <2>11, <2>15
    <3>4. k = g
      BY <1>1, <2>1, <2>2, <2>3, <2>4, <2>6, <3>2, <3>3 DEF MinOf
    <3>5. r - k * b # b
      BY <1>3, <2>7, <2>15
    <3>6. Found'
      BY <1>1, <1>2, <1>7, <2>8, <2>9, <2>12, <3>1, <3>4, <3>5 DEF Found, g
    <3>7. \E n \in 0..P : Reached(n)'
      BY <1>1, <3>1, ReachedStays DEF Turning
    <3>8. c' \in Nat /\ fixes' \in Nat
      BY <1>1, <1>2, <2>8
    <3> QED
      BY <1>1, <1>3, <3>1, <3>6, <3>7, <3>8 DEF DivInv, Turning, DigitHonest, MatchesDpdDiv
  <2> QED BY <1>3, <2>1, <2>7, <2>13, <2>14, <2>15
<1> QED BY <1>3, <1>6, <1>7

\* The table is long enough for another turn, and so is Turns.
LEMMA AnotherTurn ==
  ASSUME NEW x \in 1..MaxMant, NEW la, la = P + 1 - Digits(x), NEW n \in 0..P,
         la + 2 * n < D, 2 * n < P + 2,
         NEW z, z = x * Pow10[la + 2 * n], z < Pow10[P] * Pow10[P]
  PROVE  /\ n + 1 \in 0..P /\ la + 2 * (n + 1) < D /\ 2 * (n + 1) < P + 2
         /\ 100 * z = x * Pow10[la + 2 * (n + 1)]
<1>1. /\ P \in Nat /\ P > 1 /\ D = 2 * P + 2 /\ D < MaxShift /\ MaxShift \in Nat
  BY Powers
<1>2. la \in 1..P /\ x * Pow10[la] \in Nat /\ Pow10[P] <= x * Pow10[la] /\ x \in Nat \ {0}
  <2>1. PICK lb : lb = P - Digits(x)
    OBVIOUS
  <2> QED BY <2>1, Aligned
<1> DEFINE s == 2 * n
           u == x * Pow10[la]
           p == Pow10[s]
<1>3. s \in Nat /\ la + s <= MaxShift /\ la \in Nat /\ s \in 0..MaxShift /\ P + s <= MaxShift
  BY <1>1, <1>2
<1>4. p \in Nat \ {0} /\ Pow10[la] \in Nat \ {0} /\ Pow10[P] \in Nat \ {0}
  BY <1>1, <1>2, <1>3, PowerType
<1>5. Pow10[la + s] = Pow10[la] * p /\ Pow10[P + s] = Pow10[P] * p
  BY <1>1, <1>3, PowerSum
<1>6. z = u * p
  BY <1>2, <1>3, <1>4, <1>5
<1> HIDE DEF u, p
<1>7. Pow10[P] * p <= u * p
  BY <1>2, <1>4, TimesMonotonic DEF u
<1>8. s < P
  <2>1. p * Pow10[P] < Pow10[P] * Pow10[P]
    <3>1. Pow10[P] * p = p * Pow10[P] /\ p * Pow10[P] \in Int /\ u * p \in Int
      BY <1>2, <1>4 DEF u
    <3> QED BY <1>4, <1>6, <1>7, <3>1
  <2>2. p < Pow10[P]
    BY <1>4, <2>1, Cancel
  <2>3. P \in 0..MaxShift
    BY <1>1
  <2> QED BY <1>3, <2>2, <2>3, PowerOrder DEF p
<1>9. n + 1 \in 0..P /\ la + 2 * (n + 1) < D /\ 2 * (n + 1) < P + 2
  BY <1>1, <1>2, <1>8
<1>10. 100 * z = x * Pow10[la + 2 * (n + 1)]
  <2> DEFINE k == la + s
  <2>1. k \in Nat /\ k < MaxShift /\ k + 1 < MaxShift /\ la + 2 * (n + 1) = (k + 1) + 1
    BY <1>1, <1>2, <1>3, <1>9
  <2> HIDE DEF k
  <2>2. k \in 0..MaxShift /\ k + 1 \in 0..MaxShift
    BY <2>1, <1>1
  <2>3. Pow10[k + 1] = 10 * Pow10[k] /\ Pow10[(k + 1) + 1] = 10 * Pow10[k + 1]
    BY <2>1, <2>2, PowerStep
  <2>4. Pow10[k] \in Nat
    BY <2>2, PowerType
  <2>5. x * (100 * Pow10[k]) = 100 * (x * Pow10[k])
    BY <1>2, <2>4
  <2>6. Pow10[(k + 1) + 1] = 100 * Pow10[k]
    BY <2>3, <2>4
  <2>7. z = x * Pow10[k]
    BY DEF k
  <2> QED BY <2>1, <2>5, <2>6, <2>7
<1> QED BY <1>9, <1>10

LEMMA SubtractKeeps ==
  ASSUME DivInv, Subtract
  PROVE  DivInv'
<1> DEFINE rest == r - product
           big == 100 * q + c
<1>1. /\ pc = "rest" /\ UNCHANGED <<lhs, rhs, b, c, fixes, equal>>
      /\ Operand(r, b) /\ Found /\ c \in Nat /\ fixes \in Nat
      /\ lhs \in 1..MaxMant /\ rhs \in 1..MaxMant
      /\ q \in Nat /\ num \in Nat /\ exp \in Int /\ equal \in BOOLEAN
      /\ q < Pow10[P] /\ 100 * (q * b) + r = num
      /\ \E n \in 0..P : Reached(n)
  BY DEF DivInv, Turning, Subtract
<1>2. q' = big /\ r' = 100 * rest
  BY DEF Subtract
<1>3. IF Long(q') THEN pc' = "digit" /\ exp' = exp /\ num' = num
      ELSE pc' = "estimate" /\ exp' = exp - 2 /\ num' = 100 * num
  BY DEF Subtract
<1>4. /\ r > 0 /\ c = TwoDigits(r, b) /\ product = c * b /\ (equal <=> rest = b)
  BY <1>1 DEF Found
<1>5. r \in Nat /\ b \in Nat \ {0} /\ b < Pow10[P] /\ Pow10[P] \in Nat \ {0} /\ P \in Nat /\ P > 1
  BY <1>1, LeadingDigits, Powers
<1>6. c \in 0..99 /\ c * b <= r /\ r - c * b <= b
  BY <1>1, <1>4, TwoDigitsFit DEF PairFits
<1>7. rest \in 0..b
  <2>1. c * b \in Nat
    BY <1>5, <1>6
  <2> QED BY <1>4, <1>5, <1>6, <2>1
<1>8. big \in Nat
  BY <1>1
<1>9. (big * b) + rest = num /\ big * b \in Nat
  <2> DEFINE x == q * b
             y == c * b
  <2>1. x \in Nat /\ y \in Nat /\ big * b = 100 * x + y
    BY <1>1, <1>5
  <2>2. rest = r - y
    BY <1>4
  <2>3. 100 * x + r = num
    BY <1>1
  <2> HIDE DEF x, y, big, rest
  <2> QED BY <1>5, <2>1, <2>2, <2>3
<1>10. PICK n \in 0..P : Reached(n)
  BY <1>1
<1> DEFINE la == LeftShift
           lb == RightShift
           u == lhs * Pow10[la]
           f == Trace(u, b, lb - la)
<1>11. la' = la /\ lb' = lb /\ u' = u /\ f' = f
  BY <1>1 DEF LeftShift, RightShift
<1>12. /\ la + 2 * n < D /\ 2 * n < P + 2
       /\ num = lhs * Pow10[la + 2 * n]
       /\ b = rhs * Pow10[lb]
       /\ exp = 2 - la + lb - 2 * n
       /\ f[n] = [q |-> q, r |-> r, e |-> exp - 2]
  BY <1>1, <1>10 DEF Reached
<1>13. f[n + 1] = [q |-> big, r |-> 100 * rest, e |-> exp - 4]
  <2>1. n \in 0..(LastTurn - 1)
    BY <1>5, <1>12 DEF LastTurn
  <2>2. f[n + 1] = Turn(f[n], b)
    <3> HIDE DEF la, lb, u
    <3>1. /\ Trace(u, b, lb - la)[0] = [q |-> 0, r |-> u, e |-> lb - la]
          /\ \A k \in 0..(LastTurn - 1) :
               Trace(u, b, lb - la)[k + 1] = Turn(Trace(u, b, lb - la)[k], b)
          /\ Turns(u, b, lb - la) = Trace(u, b, lb - la)[LastTurn]
      BY TraceMeaning
    <3> QED BY <2>1, <3>1
  <2>3. ~(q >= Pow10[P]) /\ r # 0
    BY <1>1, <1>4, <1>5
  <2> HIDE DEF f
  <2>4. f[n].q = q /\ f[n].r = r /\ f[n].e = exp - 2
    BY <1>12
  <2>5. Turn(f[n], b) = [q |-> 100 * q + c, r |-> 100 * (r - product), e |-> (exp - 2) - 2]
    BY <1>4, <2>3, <2>4, Zenon DEF Turn
  <2>6. (exp - 2) - 2 = exp - 4
    BY <1>1
  <2> QED BY <2>2, <2>5, <2>6
<1> HIDE DEF rest, big
<1>14. CASE Long(q')
  <2>1. pc' = "digit" /\ exp' = exp /\ num' = num
    BY <1>3, <1>14
  <2>2. q' >= Pow10[P]
    BY <1>14 DEF Long
  <2>3. Reached(n)'
    <3>1. f'[n + 1] = [q |-> q', r |-> r', e |-> exp' - 4]
      BY <1>2, <1>11, <1>13, <2>1
    <3> QED BY <1>1, <1>11, <1>12, <2>1, <3>1 DEF Reached
  <2>4. \E n1 \in 0..P : Reached(n1)'
    BY <2>3
  <2>5. r' \in Nat /\ q' \in Nat /\ b' \in Nat \ {0}
    BY <1>1, <1>2, <1>5, <1>7, <1>8
  <2>6. \E s \in 0..b' : r' = 100 * s /\ q' * b' + s = num' /\ (equal' <=> s = b')
    <3>1. rest \in 0..b' /\ r' = 100 * rest /\ q' * b' + rest = num' /\ (equal' <=> rest = b')
      BY <1>1, <1>2, <1>4, <1>7, <1>9, <2>1
    <3> QED BY <3>1
  <2> QED
    BY <1>1, <2>1, <2>2, <2>4, <2>5, <2>6 DEF DivInv, Turning, DigitHonest, MatchesDpdDiv
<1>15. CASE ~Long(q')
  <2>1. pc' = "estimate" /\ exp' = exp - 2 /\ num' = 100 * num
    BY <1>3, <1>15
  <2>2. big < Pow10[P]
    BY <1>2, <1>5, <1>8, <1>15 DEF Long
  <2>3. num < Pow10[P] * Pow10[P]
    <3> DEFINE w == Pow10[P]
    <3>0. w \in Nat \ {0} /\ b < w /\ big + 1 <= w
      BY <1>5, <1>8, <2>2
    <3> HIDE DEF w
    <3>1. num <= (big + 1) * b
      BY <1>5, <1>7, <1>8, <1>9
    <3>2. (big + 1) * b <= w * b
      BY <1>5, <1>8, <3>0, TimesMonotonic
    <3>3. w * b < w * w
      BY <1>5, <3>0
    <3>4. w * b \in Int /\ w * w \in Int /\ (big + 1) * b \in Int
      BY <1>5, <1>8, <3>0
    <3>5. num < w * w
      BY <1>1, <3>1, <3>2, <3>3, <3>4
    <3> QED BY <3>5 DEF w
  <2>4. /\ n + 1 \in 0..P /\ la + 2 * (n + 1) < D /\ 2 * (n + 1) < P + 2
        /\ 100 * num = lhs * Pow10[la + 2 * (n + 1)]
    BY <1>1, <1>10, <1>12, <2>3, AnotherTurn DEF LeftShift
  <2>5. Reached(n + 1)'
    <3>1. exp' = 2 - la' + lb' - 2 * (n + 1) /\ exp' - 2 = exp - 4
      <4>1. la \in Int /\ lb \in Int
        <5>1. Digits(lhs) \in 1..P /\ Digits(rhs) \in 1..P
          BY <1>1, Mantissa
        <5> QED BY <1>5, <5>1 DEF LeftShift, RightShift
      <4> HIDE DEF la, lb
      <4> QED BY <1>11, <1>12, <2>1, <4>1
    <3>2. f'[n + 1] = [q |-> q', r |-> r', e |-> exp' - 2]
      BY <1>2, <1>11, <1>13, <3>1
    <3> QED BY <1>1, <1>11, <1>12, <2>1, <2>4, <3>1, <3>2 DEF Reached
  <2>6. \E n1 \in 0..P : Reached(n1)'
    BY <2>4, <2>5
  <2>7. r' \in Nat /\ q' \in Nat /\ num' \in Nat /\ exp' \in Int
    BY <1>1, <1>2, <1>7, <1>8, <2>1, <1>5
  <2>8. Operand(r', b') /\ (equal' <=> r' = 100 * b') /\ q' < Pow10[P]
    <3>1. r' <= 100 * b /\ (rest = b <=> r' = 100 * b) /\ b \in Pow10[P - 1]..(Pow10[P] - 1)
      BY <1>1, <1>2, <1>5, <1>7 DEF Operand
    <3> QED BY <1>1, <1>2, <1>4, <2>2, <2>7, <3>1 DEF Operand
  <2>9. 100 * (q' * b') + r' = num'
    BY <1>1, <1>2, <1>5, <1>7, <1>9, <2>1
  <2> QED
    BY <1>1, <2>1, <2>6, <2>7, <2>8, <2>9 DEF DivInv, Turning, DigitHonest, MatchesDpdDiv
<1> QED BY <1>14, <1>15

\* Where an exact value lies, as a fraction of a unit.
LEMMA PositionFraction ==
  ASSUME NEW v, NEW m, NEW e, NumAt(v, e) \in Int, DenAt(v, e) \in Nat \ {0}, m \in Int
  PROVE  Position(v, m, e) = Fraction(NumAt(v, e) - m * DenAt(v, e), DenAt(v, e))
BY DEF Position, Fraction

\* The digit that is cut off, made sticky, says where x / y lies; w and v are x
\* and y with zeros behind them, and j is the quotient of those.
Divided(x, y, s, t, w, v, j, rest) ==
  /\ x \in Nat \ {0} /\ y \in Nat \ {0}
  /\ s \in 0..(MaxShift - 1) /\ t \in 0..(MaxShift - 1)
  /\ w \in Nat /\ w = x * Pow10[s] /\ v \in Nat \ {0} /\ v = y * Pow10[t]
  /\ j \in Nat /\ rest \in 0..(v - 1) /\ j * v + rest = w

LEMMA DigitSound ==
  ASSUME NEW x, NEW y, NEW s, NEW t, NEW w, NEW v, NEW j, NEW rest,
         Divided(x, y, s, t, w, v, j, rest),
         NEW g, g = QuotientDigit(j, 100 * rest),
         ~(g \in {0, 5} /\ 100 * rest # 0 /\ (100 * rest) % Pow10[D \div 2] = 0)
  PROVE  Position(Exact(1, x, y, 0), j \div 10, 1 + t - s) = RemClass(g)
<1> DEFINE h == j \div 10
           d == j % 10
           z == d * v + rest
           n == 10 * v
           low == (100 * rest) % Pow10[D \div 2]
<1>0. /\ x \in Nat \ {0} /\ y \in Nat \ {0}
      /\ s \in 0..(MaxShift - 1) /\ t \in 0..(MaxShift - 1)
      /\ w \in Nat /\ w = x * Pow10[s] /\ v \in Nat \ {0} /\ v = y * Pow10[t]
      /\ j \in Nat /\ rest \in 0..(v - 1) /\ j * v + rest = w
  BY DEF Divided
<1>1. h \in Nat /\ d \in 0..9 /\ j = 10 * h + d
  BY <1>0
<1>2. g = IF d \in {0, 5} /\ low # 0 THEN d + 1 ELSE d
  BY DEF QuotientDigit
<1>3. rest = 0 => low = 0
  <2>1. D \div 2 = P + 1 /\ Pow10[P + 1] \in Nat \ {0}
    BY Powers
  <2>2. 0 % Pow10[P + 1] = 0
    BY <2>1
  <2> SUFFICES ASSUME rest = 0 PROVE low = 0
    OBVIOUS
  <2>3. 100 * rest = 0
    OBVIOUS
  <2> QED BY <2>1, <2>2, <2>3
<1>4. ~(g \in {0, 5} /\ rest # 0 /\ low = 0)
  <2>1. rest # 0 => 100 * rest # 0
    BY <1>0
  <2> QED BY <2>1
<1> HIDE DEF h, d, low
<1>5. z \in Nat /\ n \in Nat \ {0} /\ z < n /\ w = h * n + z
  <2>1. d * v <= 9 * v /\ d * v \in Nat
    BY <1>0, <1>1, TimesMonotonic
  <2>2. (10 * h + d) * v = 10 * (h * v) + d * v /\ h * v \in Nat
    BY <1>0, <1>1
  <2>3. h * n = 10 * (h * v) /\ h * n \in Nat
    BY <1>0, <1>1
  <2>4. w = h * n + z /\ z \in Nat
    BY <1>0, <1>1, <2>1, <2>2, <2>3
  <2>5. z < n
    BY <1>0, <2>1
  <2> HIDE DEF z, n
  <2>6. n \in Nat \ {0}
    BY <1>0 DEF n
  <2> QED BY <2>4, <2>5, <2>6
<1>6. 10 * z = d * n + 10 * rest /\ 10 * rest \in 0..(n - 1)
  BY <1>0, <1>1
<1>7. g = IF d \in {0, 5} /\ 10 * rest # 0 THEN d + 1 ELSE d
  <2>1. CASE rest = 0
    BY <1>0, <1>2, <1>3, <2>1
  <2>2. CASE rest # 0
    BY <1>0, <1>1, <1>2, <1>4, <2>2
  <2> QED BY <2>1, <2>2
<1> HIDE DEF z, n
<1>8. Classifies(g, z, n)
  <2> DEFINE u == 10 * rest
  <2>1. u \in 0..(n - 1) /\ 10 * z = d * n + u /\ g = IF d \in {0, 5} /\ u # 0 THEN d + 1 ELSE d
    BY <1>6, <1>7
  <2>2. d \in Int
    BY <1>1
  <2> HIDE DEF u
  <2> QED BY <1>5, <2>1, <2>2, StickyClass
<1>9. RemClass(g) = Fraction(z, n)
  BY <1>5, <1>8, ClassifiesFraction
<1> DEFINE e == 1 + t - s
           value == Exact(1, x, y, 0)
           a == NumAt(value, e)
           b1 == DenAt(value, e)
<1>10. MaxShift \in Nat
  BY DecimalAssumption
<1>11. \E k \in Nat \ {0} : a * k = w /\ b1 * k = n /\ a \in Nat /\ b1 \in Nat \ {0}
  <2>1. CASE s >= t + 1
    <3>1. PICK i \in Nat : s = i + (t + 1)
      <4>1. s - (t + 1) \in Nat /\ s = (s - (t + 1)) + (t + 1)
        BY <1>0, <1>10, <2>1
      <4> QED BY <4>1
    <3>2. i \in 0..MaxShift /\ t + 1 \in 0..MaxShift /\ t \in 0..MaxShift /\ 0 - e = i /\ e <= 0
      BY <1>0, <1>10, <3>1, <2>1
    <3>3. MaxOf(0 - e, 0) = i /\ MaxOf(e - 0, 0) = 0
      BY <1>0, <1>10, <3>1, <3>2 DEF MaxOf
    <3>4. a = x * Pow10[i] /\ b1 = y * Pow10[0]
      BY <1>0, <3>3 DEF NumAt, DenAt, Exact
    <3>5. /\ Pow10[0] = 1 /\ Pow10[s] = Pow10[i] * Pow10[t + 1] /\ Pow10[t + 1] = 10 * Pow10[t]
          /\ Pow10[i] \in Nat \ {0} /\ Pow10[t] \in Nat \ {0}
      <4>1. i + (t + 1) <= MaxShift /\ t < MaxShift
        BY <1>0, <1>10, <3>1
      <4>2. Pow10[i + (t + 1)] = Pow10[i] * Pow10[t + 1]
        BY <3>1, <3>2, <4>1, PowerSum
      <4> QED BY <3>1, <3>2, <4>1, <4>2, PowerStep, PowerType, DecimalAssumption
    <3> DEFINE k == 10 * Pow10[t]
    <3>6. k \in Nat \ {0} /\ a \in Nat /\ b1 \in Nat \ {0}
      BY <1>0, <3>4, <3>5
    <3>7. a * k = w
      <4>1. (x * Pow10[i]) * (10 * Pow10[t]) = x * (Pow10[i] * (10 * Pow10[t]))
        BY <1>0, <3>5
      <4> QED BY <1>0, <3>4, <3>5, <4>1
    <3>8. b1 * k = n
      BY <1>0, <3>4, <3>5 DEF n
    <3> QED BY <3>6, <3>7, <3>8
  <2>2. CASE s < t + 1
    <3>1. PICK i \in Nat : t + 1 = i + s
      <4>1. (t + 1) - s \in Nat /\ t + 1 = ((t + 1) - s) + s
        BY <1>0, <1>10, <2>2
      <4> QED BY <4>1
    <3>2. i \in 0..MaxShift /\ s \in 0..MaxShift /\ t \in 0..MaxShift /\ e = i
      BY <1>0, <1>10, <3>1
    <3>3. MaxOf(0 - e, 0) = 0 /\ MaxOf(e - 0, 0) = i
      BY <1>0, <1>10, <3>1, <3>2 DEF MaxOf
    <3>4. a = x * Pow10[0] /\ b1 = y * Pow10[i]
      BY <1>0, <3>3 DEF NumAt, DenAt, Exact
    <3>5. /\ Pow10[0] = 1 /\ Pow10[t + 1] = Pow10[i] * Pow10[s] /\ Pow10[t + 1] = 10 * Pow10[t]
          /\ Pow10[i] \in Nat \ {0} /\ Pow10[s] \in Nat \ {0} /\ Pow10[t] \in Nat \ {0}
      <4>1. i + s <= MaxShift /\ t < MaxShift
        BY <1>0, <1>10, <3>1
      <4>2. Pow10[i + s] = Pow10[i] * Pow10[s]
        BY <3>1, <3>2, <4>1, PowerSum
      <4> QED BY <3>1, <3>2, <4>1, <4>2, PowerStep, PowerType, DecimalAssumption
    <3> DEFINE k == Pow10[s]
    <3>6. k \in Nat \ {0} /\ a \in Nat /\ b1 \in Nat \ {0}
      BY <1>0, <3>4, <3>5
    <3>7. a * k = w
      BY <1>0, <3>4, <3>5
    <3>8. b1 * k = n
      <4>1. (y * Pow10[i]) * Pow10[s] = y * (Pow10[i] * Pow10[s])
        BY <1>0, <3>5
      <4>2. y * (10 * Pow10[t]) = 10 * (y * Pow10[t])
        BY <1>0, <3>5
      <4> QED BY <1>0, <3>4, <3>5, <4>1, <4>2 DEF n
    <3> QED BY <3>6, <3>7, <3>8
  <2> QED BY <1>0, <1>10, <2>1, <2>2
<1>12. PICK k \in Nat \ {0} : a * k = w /\ b1 * k = n /\ a \in Nat /\ b1 \in Nat \ {0}
  BY <1>11
<1>13. Position(value, h, e) = Fraction(a - h * b1, b1)
  BY <1>0, <1>1, <1>12, PositionFraction
<1> HIDE DEF a, b1, e, value
<1> DEFINE c1 == a - h * b1
<1>14. c1 \in Int /\ c1 * k = z
  <2>1. h * b1 \in Nat /\ (h * b1) * k = h * (b1 * k)
    BY <1>1, <1>12
  <2>2. c1 * k = a * k - (h * b1) * k
    BY <1>12, <2>1
  <2>3. c1 * k = w - h * n
    BY <1>12, <2>1, <2>2
  <2>4. c1 \in Int
    BY <1>12, <2>1
  <2>5. h * n \in Nat
    BY <1>1, <1>5
  <2> HIDE DEF c1
  <2> QED BY <1>5, <2>3, <2>4, <2>5
<1> HIDE DEF c1
<1>15. Fraction(c1, b1) = Fraction(z, n)
  BY <1>12, <1>14, FractionScaled
<1> QED BY <1>9, <1>13, <1>15 DEF c1, h, e, value

LEMMA LastDigitKeeps ==
  ASSUME DivInv, LastDigit
  PROVE  DivInv'
<1> DEFINE la == LeftShift
           lb == RightShift
           u == lhs * Pow10[la]
           z == Turns(u, b, lb - la)
<1>1. /\ pc = "digit" /\ UNCHANGED <<lhs, rhs, r, b, c, num, fixes, equal>>
      /\ lhs \in 1..MaxMant /\ rhs \in 1..MaxMant /\ fixes \in Nat /\ c \in Nat
      /\ r \in Nat /\ q \in Nat /\ num \in Nat /\ exp \in Int /\ equal \in BOOLEAN
      /\ b \in Nat \ {0} /\ q >= Pow10[P]
      /\ \E rest \in 0..b : r = 100 * rest /\ q * b + rest = num /\ (equal <=> rest = b)
      /\ \E n \in 0..P : Reached(n)
  BY DEF DivInv, Turning, LastDigit
<1>2. rem' = QuotientDigit(q, r) /\ q' = q \div 10 /\ exp' = exp - 1 /\ pc' = "done"
  BY DEF LastDigit
<1>3. PICK n \in 0..P : Reached(n)
  BY <1>1
<1>4. PICK rest \in 0..b : r = 100 * rest /\ q * b + rest = num /\ (equal <=> rest = b)
  BY <1>1
<1>5. P \in Nat /\ P > 1 /\ D = 2 * P + 2 /\ D < MaxShift /\ MaxShift \in Nat
  BY Powers
<1>6. Digits(lhs) \in 1..P /\ Digits(rhs) \in 1..P /\ lhs \in Nat \ {0} /\ rhs \in Nat \ {0}
  BY <1>1, Mantissa
<1>7. la \in 1..P /\ lb \in 0..P
  BY <1>5, <1>6 DEF LeftShift, RightShift
<1>8. /\ la + 2 * n < D /\ 2 * n < P + 2
      /\ num = lhs * Pow10[la + 2 * n]
      /\ b = rhs * Pow10[lb]
      /\ exp = 2 - la + lb - 2 * n
      /\ Trace(u, b, lb - la)[n + 1] = [q |-> q, r |-> r, e |-> exp - 4]
  BY <1>1, <1>3 DEF Reached
<1>9. z = [q |-> q, r |-> r, e |-> exp - 4]
  <2>1. n + 1 \in 0..LastTurn
    BY <1>5, <1>8 DEF LastTurn
  <2>2. Long(Trace(u, b, lb - la)[n + 1].q)
    BY <1>1, <1>8 DEF Long
  <2> HIDE DEF u, la, lb
  <2> QED BY <1>8, <2>1, <2>2, TraceEnds
<1>10. DpdDiv(Number(lhs, 0, 1), Number(rhs, 0, 1)) = Sum(q', exp', 1, rem')
  <2> DEFINE y == Turns(lhs * Pow10[P + 1 - Digits(lhs)], rhs * Pow10[P - Digits(rhs)],
                        0 - 0 - (P + 1 - Digits(lhs)) + (P - Digits(rhs)))
  <2>1. DpdDiv(Number(lhs, 0, 1), Number(rhs, 0, 1)) =
          [x |-> Number(y.q \div 10, y.e + 3, 1 * 1), rem |-> QuotientDigit(y.q, y.r)]
    BY DEF DpdDiv, Number
  <2>2. 0 - 0 - la + lb = lb - la
    BY <1>7
  <2>3. y = z
    <3>1. la = P + 1 - Digits(lhs) /\ lb = P - Digits(rhs)
      BY DEF LeftShift, RightShift
    <3> QED BY <1>8, <2>2, <3>1
  <2> HIDE DEF y, z, u, la, lb
  <2>4. y.q = q /\ y.r = r /\ y.e + 3 = exp'
    BY <1>1, <1>2, <1>9, <2>3
  <2> QED BY <1>2, <2>1, <2>4 DEF Sum
<1>11. MatchesDpdDiv'
  BY <1>1, <1>10 DEF MatchesDpdDiv
<1>12. ASSUME ~equal, ~LowHalfZero'
       PROVE  Position(Exact(1, lhs, rhs, 0), q', exp') = RemClass(rem')
  <2> DEFINE s == la + 2 * n
  <2>1. s \in 0..(MaxShift - 1) /\ lb \in 0..(MaxShift - 1) /\ 1 + lb - s = exp'
    BY <1>1, <1>2, <1>5, <1>7, <1>8
  <2>2. rest \in 0..(b - 1)
    BY <1>1, <1>4, <1>12
  <2>3. ~(rem' \in {0, 5} /\ 100 * rest # 0 /\ (100 * rest) % Pow10[D \div 2] = 0)
    BY <1>1, <1>4, <1>12 DEF LowHalfZero
  <2>4. rem' = QuotientDigit(q, 100 * rest)
    BY <1>2, <1>4
  <2>5. Divided(lhs, rhs, s, lb, num, b, q, rest)
    BY <1>1, <1>4, <1>6, <1>8, <2>1, <2>2 DEF Divided
  <2> HIDE DEF s, la, lb
  <2>6. Position(Exact(1, lhs, rhs, 0), q \div 10, 1 + lb - s) = RemClass(rem')
    BY <2>3, <2>4, <2>5, DigitSound
  <2> QED BY <1>2, <2>1, <2>6
<1>13. DigitHonest'
  BY <1>1, <1>12 DEF DigitHonest
<1>14. q' \in Nat /\ exp' \in Int
  <2>1. q \div 10 \in Nat
    BY <1>1
  <2> QED BY <1>1, <1>2, <2>1
<1> QED
  BY <1>1, <1>2, <1>11, <1>13, <1>14 DEF DivInv, Turning

-----------------------------------------------------------------------------
(* The theorems                                                            *)

LEMMA DivInvariant ==
  ASSUME Followed
  PROVE  Spec => []DivInv
<1>1. Init => DivInv
  <2> SUFFICES ASSUME Init PROVE DivInv
    OBVIOUS
  <2>1. lhs \in 1..MaxMant /\ rhs \in 1..MaxMant
    BY DpdDivAssumption DEF Init
  <2>2. /\ pc = "align" /\ r = 0 /\ q = 0 /\ num = 0 /\ c = 0 /\ fixes = 0 /\ exp = 2
        /\ equal = FALSE
    BY DEF Init
  <2>3. DigitHonest /\ MatchesDpdDiv
    BY <2>2 DEF DigitHonest, MatchesDpdDiv
  <2>4. pc \notin Turning /\ pc \notin {"rest", "ones", "multiply", "fix", "digit"}
    BY <2>2 DEF Turning
  <2>5. /\ r \in Nat /\ q \in Nat /\ num \in Nat /\ c \in Nat /\ fixes \in Nat /\ exp \in Int
    BY <2>2
  <2>6. pc \in {"align", "done"}
    BY <2>2
  <2>7. equal \in BOOLEAN /\ ~equal
    BY <2>2, Zenon
  <2> QED BY <2>1, <2>2, <2>3, <2>4, <2>5, <2>6, <2>7, Zenon DEF DivInv
<1>2. DivInv /\ [Next]_vars => DivInv'
  <2> SUFFICES ASSUME DivInv, [Next]_vars PROVE DivInv'
    OBVIOUS
  <2>1. CASE AlignOperands
    BY <2>1, AlignKeeps
  <2>2. CASE FirstEstimate
    BY <2>2, FirstEstimateKeeps
  <2>3. CASE Ones
    BY <2>3, OnesKeeps
  <2>4. CASE Multiply
    BY <2>4, MultiplyKeeps
  <2>5. CASE FixEstimate
    BY <2>5, FixKeeps
  <2>6. CASE Subtract
    BY <2>6, SubtractKeeps
  <2>7. CASE LastDigit
    BY <2>7, LastDigitKeeps
  <2>8. CASE UNCHANGED vars
    <3>1. /\ Counting' = Counting /\ Fixing' = Fixing /\ Found' = Found
          /\ \A n : Reached(n)' = Reached(n)
      BY <2>8 DEF vars, Counting, Fixing, Found, Reached, LeftShift, RightShift
    <3>2. DigitHonest' /\ MatchesDpdDiv'
      BY <2>8 DEF vars, DivInv, DigitHonest, MatchesDpdDiv, LowHalfZero
    <3> QED BY <2>8, <3>1, <3>2 DEF vars, DivInv
  <2> QED
    BY <2>1, <2>2, <2>3, <2>4, <2>5, <2>6, <2>7, <2>8 DEF Next
<1> QED BY <1>1, <1>2, PTL DEF Spec

\* The two digits estimated from the leading digits of the operands
\* (div-x86_64.s:66-67) are never too small, at every precision and for every
\* pair of mantissas: the loop that corrects them only has to go down.
THEOREM DpdEstimateNotTooSmall ==
  ASSUME Followed
  PROVE  Spec => []EstimateNotTooSmall
<1>1. DivInv => EstimateNotTooSmall
  <2> SUFFICES ASSUME DivInv, pc = "multiply" PROVE c >= MinOf(99, r \div b)
    BY DEF EstimateNotTooSmall
  <2>1. c = Estimate(r, b) /\ Operand(r, b)
    BY DEF DivInv, Turning
  <2>2. c \in 0..99 /\ \A g \in 0..99 : g * b <= r => g <= c
    BY <2>1, EstimateRight DEF Right
  <2>3. r \in Nat /\ b \in Nat \ {0}
    BY <2>1, LeadingDigits
  <2> DEFINE d == r \div b
             g == MinOf(99, d)
  <2>4. d \in Nat /\ \A h \in Nat : h <= d => h * b <= r
    <3>1. d \in Nat
      BY <2>3, DivMod
    <3> QED BY <2>3, <3>1, DivLargest
  <2> HIDE DEF d
  <2>5. g \in 0..99 /\ g <= d
    BY <2>4 DEF MinOf
  <2> HIDE DEF g
  <2>6. g <= c
    BY <2>2, <2>4, <2>5
  <2> QED BY <2>2, <2>5, <2>6 DEF g, d
<1> QED BY <1>1, DivInvariant, PTL

\* The correction of an estimate takes at most forty turns of .Lfixestimate,
\* whatever the operands, as long as something is left to divide.
THEOREM DpdFewFixes ==
  ASSUME Followed
  PROVE  Spec => []FewFixes
<1>1. DivInv => FewFixes
  <2> SUFFICES ASSUME DivInv, pc \in {"fix", "rest"}, ~Exhausted PROVE fixes <= 40
    BY DEF FewFixes
  <2>1. CASE pc = "rest"
    BY <2>1 DEF DivInv, Found
  <2>2. CASE pc = "fix"
    <3>1. Operand(r, b) /\ Fixing /\ c \in Nat /\ fixes \in Nat /\ r # 0
      BY <2>2 DEF DivInv, Turning, Exhausted
    <3>2. r \in Nat /\ b \in Nat \ {0}
      BY <3>1, LeadingDigits
    <3> DEFINE e == Estimate(r, b)
    <3>3. c + fixes = e /\ c * b >= r
      BY <3>1, <3>2 DEF Fixing
    <3>4. e \in 0..99 /\ e * b <= r + 40 * b
      BY <3>1, EstimateRight DEF Right
    <3> HIDE DEF e
    <3>5. e * b = c * b + fixes * b /\ c * b \in Nat /\ fixes * b \in Nat
      <4>1. e * b = (c + fixes) * b
        BY <3>3
      <4> QED BY <3>1, <3>2, <4>1
    <3>6. ASSUME fixes >= 41 PROVE FALSE
      <4>1. 41 * b <= fixes * b
        BY <3>1, <3>2, <3>6, TimesMonotonic
      <4> QED BY <3>2, <3>3, <3>4, <3>5, <4>1
    <3> QED BY <3>1, <3>6
  <2> QED BY <2>1, <2>2
<1> QED BY <1>1, DivInvariant, PTL

\* Quotient and rest belong to the dividend at every turn of .Ldiv, and from
\* the first equality of a product with what is left on (the jump before
\* .Lfixestimate is jb) the rest is the whole divisor, never more.
THEOREM DpdDivisionExact ==
  ASSUME Followed
  PROVE  Spec => []DivisionExact
<1>1. DivInv => DivisionExact
  <2> SUFFICES ASSUME DivInv PROVE DivisionExact
    OBVIOUS
  <2>1. CASE pc \in Turning
    <3>1. Operand(r, b) /\ 100 * (q * b) + r = num /\ (equal <=> r = 100 * b) /\ q \in Nat
      BY <2>1 DEF DivInv
    <3>2. r \in Nat /\ b \in Nat \ {0} /\ r <= 100 * b
      BY <3>1, LeadingDigits DEF Operand
    <3>3. 100 * q * b = 100 * (q * b)
      BY <3>1, <3>2
    <3>4. IF equal THEN r = 100 * b ELSE r < 100 * b
      BY <3>1, <3>2
    <3> QED BY <2>1, <3>1, <3>3, <3>4 DEF DivisionExact, Turning
  <2>2. CASE pc = "digit"
    <3>1. b \in Nat \ {0}
      BY <2>2 DEF DivInv
    <3>2. PICK rest \in 0..b : r = 100 * rest /\ q * b + rest = num /\ (equal <=> rest = b)
      BY <2>2 DEF DivInv
    <3>3. r % 100 = 0 /\ r \div 100 = rest
      BY <3>1, <3>2
    <3>4. IF equal THEN r = 100 * b ELSE r < 100 * b
      BY <3>1, <3>2
    <3> QED BY <2>2, <3>2, <3>3, <3>4 DEF DivisionExact
  <2> QED BY <2>1, <2>2 DEF DivisionExact, Turning
<1> QED BY <1>1, DivInvariant, PTL

\* The remainder digit is honest: with the exponent and the mantissa that the
\* division stores it says on which side of one half of the last digit the exact
\* quotient lies, except after an equality and for a rest that the test of the
\* low half of the register (div-x86_64.s:239) does not see.
THEOREM DpdDigitHonest ==
  ASSUME Followed
  PROVE  Spec => []DigitHonest
<1>1. DivInv => DigitHonest
  BY DEF DivInv
<1> QED BY <1>1, DivInvariant, PTL

\* The loop computes the operator DpdDiv that the models of the calls use: they
\* rest on the instructions, at every precision.
THEOREM DpdDivMatches ==
  ASSUME Followed
  PROVE  Spec => []MatchesDpdDiv
<1>1. DivInv => MatchesDpdDiv
  BY DEF DivInv
<1> QED BY <1>1, DivInvariant, PTL
=============================================================================
