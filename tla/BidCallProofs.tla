---------------------------- MODULE BidCallProofs ----------------------------
(***************************************************************************)
(* Sums of binary numbers, for every precision, exponent range, width of a  *)
(* register and pair of operands: outside of the cases that module BidCall   *)
(* names, what addsub and scale of libfpfd-bid return is the exact sum,      *)
(* truncated once, with remainders that tell the truth about it; and the    *)
(* rounded result needs only three of these cases.                          *)
(***************************************************************************)
EXTENDS BidCall, SumCallProofs

-----------------------------------------------------------------------------
(* Alignment                                                               *)

LEMMA TwosType == \A b \in 0..Bits : Pow2[b] \in Nat \ {0}
<1> DEFINE S == {b \in Nat : b <= Bits => Pow2[b] \in Nat \ {0}}
<1>1. 0 \in S
  BY BidAssumption
<1>2. \A b \in S : b + 1 \in S
  <2> SUFFICES ASSUME NEW b \in S, b + 1 <= Bits PROVE Pow2[b + 1] \in Nat \ {0}
    OBVIOUS
  <2>1. b \in Nat /\ Pow2[b] \in Nat \ {0} /\ b + 1 \in 1..Bits /\ (b + 1) - 1 = b
    BY BidAssumption
  <2>2. Pow2[b + 1] = 2 * Pow2[(b + 1) - 1]
    BY <2>1, BidAssumption
  <2> QED BY <2>1, <2>2
<1>3. S = Nat
  <2> HIDE DEF S
  <2>1. S \in SUBSET Nat
    BY DEF S
  <2> QED BY <1>1, <1>2, <2>1, SetInduction
<1>4. \A b \in 0..Bits : b \in Nat /\ b <= Bits
  BY BidAssumption
<1> QED BY <1>3, <1>4

\* bsr finds the highest bit of what is in a register.
LEMMA BsrMeaning ==
  ASSUME NEW m \in Nat \ {0}, m < Word
  PROVE  /\ Bsr(m) \in 0..(Bits - 1) /\ Pow2[Bsr(m)] <= m /\ m < Pow2[Bsr(m) + 1]
         /\ Pow2[Bsr(m) + 1] = 2 * Pow2[Bsr(m)] /\ Pow2[Bsr(m)] \in Nat
<1> DEFINE T == {b \in Nat : b <= Bits /\ m < Pow2[b]}
<1>1. Bits \in T
  BY BidAssumption
<1>2. PICK t \in T : \A y \in T : t <= y
  <2> HIDE DEF T
  <2>1. T \in SUBSET Nat
    BY DEF T
  <2> QED BY <1>1, <2>1, LeastNumber
<1>3. t \in Nat /\ t <= Bits /\ m < Pow2[t] /\ Bits \in Nat
  BY BidAssumption
<1>4. t # 0
  BY <1>3, BidAssumption
<1>5. t - 1 \in 0..(Bits - 1) /\ t - 1 \in Nat /\ Pow2[t - 1] \in Nat /\ (t - 1) + 1 = t
  BY <1>3, <1>4, TwosType
<1>6. t - 1 \notin T
  BY <1>2, <1>3, <1>5
<1>7. Pow2[t - 1] <= m
  BY <1>3, <1>5, <1>6
<1>8. \E b \in 0..(Bits - 1) : Pow2[b] <= m /\ m < Pow2[b+1]
  BY <1>3, <1>5, <1>7
<1>9. Bsr(m) \in 0..(Bits - 1) /\ Pow2[Bsr(m)] <= m /\ m < Pow2[Bsr(m) + 1]
  BY <1>8, Zenon DEF Bsr
<1> DEFINE b == Bsr(m)
<1> HIDE DEF b
<1>10. b \in 0..(Bits - 1)
  BY <1>9 DEF b
<1>11. b + 1 \in 1..Bits /\ (b + 1) - 1 = b /\ b \in 0..Bits
  BY <1>3, <1>10
<1>12. Pow2[b + 1] = 2 * Pow2[b] /\ Pow2[b] \in Nat
  BY <1>11, TwosType, BidAssumption
<1> QED BY <1>9, <1>12 DEF b

\* What the table says of the highest bit is one digit too much at most.
LEMMA BsrDigits ==
  ASSUME Room, NEW m \in Nat \ {0}, NEW n, IsDigits(n, m), n <= 2 * P, m < Word
  PROVE  Digits(Pow2[Bsr(m) + 1] - 1) \in {n, n + 1}
<1>1. /\ P \in Nat /\ P > 1 /\ D \in Nat /\ 2 * P + 2 <= D
      /\ MaxShift \in Nat /\ D + 2 <= MaxShift
  BY RegisterFacts
<1> DEFINE p == Pow2[Bsr(m)]
           w == Pow2[Bsr(m) + 1] - 1
           k == Digits(w)
<1>2. p \in Nat /\ p <= m /\ w = 2 * p - 1 /\ m <= w
  BY BsrMeaning
<1> HIDE DEF p
<1>3. w \in Nat /\ m <= w /\ w < 2 * m
  BY <1>2
<1> HIDE DEF w
<1>4. n \in 1..MaxShift /\ n + 1 \in 1..MaxShift /\ n - 1 \in 0..MaxShift /\ m < Pow10[n]
      /\ (n = 1 \/ Pow10[n - 1] <= m)
  BY <1>1 DEF IsDigits
<1>5. Pow10[n + 1] = 10 * Pow10[n] /\ Pow10[n] \in Nat
  BY <1>1, <1>4, PowerStep, PowerType
<1>6. w < Pow10[n + 1]
  BY <1>3, <1>4, <1>5
<1>7. w < Pow10[MaxShift]
  BY <1>1, <1>3, <1>4, <1>6, FitsTable
<1>8. IsDigits(k, w)
  BY <1>3, <1>7, DigitsMeaning
<1> HIDE DEF k
<1>9. k \in 1..MaxShift /\ w < Pow10[k] /\ (k = 1 \/ Pow10[k - 1] <= w)
  BY <1>8 DEF IsDigits
<1>10. n <= k
  <2>1. CASE n = 1
    BY <1>9, <2>1
  <2>2. CASE n # 1
    <3>1. Pow10[n - 1] <= m /\ Pow10[n - 1] \in Nat
      BY <1>4, <2>2, PowerType
    <3>2. k \in 0..MaxShift /\ Pow10[k] \in Nat
      BY <1>1, <1>9, PowerType
    <3>3. Pow10[n - 1] < Pow10[k]
      BY <1>3, <1>9, <3>1, <3>2
    <3>4. n - 1 < k
      BY <1>4, <3>2, <3>3, PowerOrder
    <3> QED BY <1>4, <1>9, <3>4
  <2> QED BY <2>1, <2>2
<1>11. k <= n + 1
  <2>1. CASE k = 1
    BY <1>4, <2>1
  <2>2. CASE k # 1
    <3>1. Pow10[k - 1] <= w /\ k - 1 \in 0..MaxShift /\ n + 1 \in 0..MaxShift
      BY <1>1, <1>4, <1>9, <2>2
    <3>2. Pow10[k - 1] \in Nat /\ Pow10[n + 1] \in Nat
      BY <3>1, PowerType
    <3>3. Pow10[k - 1] < Pow10[n + 1]
      BY <1>3, <1>6, <3>1, <3>2
    <3>4. k - 1 < n + 1
      BY <3>1, <3>3, PowerOrder
    <3> QED BY <1>4, <1>9, <3>4
  <2> QED BY <2>1, <2>2
<1>12. k \in {n, n + 1}
  BY <1>4, <1>9, <1>10, <1>11
<1> QED BY <1>12 DEF k, w

LEMMA LeftMantType ==
  ASSUME Room, NEW a, Addend(a)
  PROVE  /\ LeftMant(a) \in Nat /\ Pow10[D - 1] <= LeftMant(a) /\ LeftMant(a) < Pow10[D]
         /\ LeftExp(a) \in Int /\ a.mant < Word
<1>1. /\ P \in Nat /\ P > 1 /\ D \in Nat /\ 2 * P + 2 <= D
      /\ MaxShift \in Nat /\ D + 2 <= MaxShift
  BY RegisterFacts
<1> DEFINE n == Digits(a.mant)
           w == a.mant
           z == D - n
<1>2. w \in Nat \ {0} /\ a.exp \in Int /\ IsDigits(n, w) /\ n \in 1..(D - 2) /\ w < Pow10[D - 2]
  BY AddendDigits
<1> HIDE DEF n, w
<1>3. z \in Nat /\ n + z = D
  BY <1>1, <1>2
<1> HIDE DEF z
<1>4. w * Pow10[z] \in Nat \ {0} /\ IsDigits(n + z, w * Pow10[z])
  BY <1>1, <1>2, <1>3, DigitsTimes
<1>5. Pow10[D - 1] <= w * Pow10[z] /\ w * Pow10[z] < Pow10[D]
  BY <1>1, <1>3, <1>4 DEF IsDigits
<1>6. w < Word
  <2>1. Pow10[D - 2] <= Pow10[D - 1] /\ Pow10[D - 1] \in Nat /\ Pow10[D - 2] \in Nat
    BY <1>1, PowerOrder, PowerType
  <2> QED BY <1>2, <2>1, BidAssumption
<1> QED BY <1>2, <1>3, <1>4, <1>5, <1>6 DEF LeftMant, LeftExp, n, w, z

\* addsub aligns an operand with the wrong exponent only when the wrong entry of
\* bsr2exp is used, and with the right mantissa always.
LEMMA AlignResult ==
  ASSUME Room, NEW a, Addend(a)
  PROVE  /\ Align(a).m = LeftMant(a) /\ Align(a).e \in Int
         /\ Bsr(a.mant) # BadBsr => Align(a).e = LeftExp(a)
<1>1. /\ P \in Nat /\ P > 1 /\ D \in Nat /\ 2 * P + 2 <= D
      /\ MaxShift \in Nat /\ D + 2 <= MaxShift
  BY RegisterFacts
<1> DEFINE w == a.mant
           n == Digits(w)
           b == Bsr(w)
           i == Bsr2Mul(b)
           m == w * Pow10[i]
           e == a.exp + Bsr2Exp(b)
<1>2. /\ w \in Nat \ {0} /\ a.exp \in Int /\ IsDigits(n, w) /\ n \in 1..(D - 2)
      /\ w < Pow10[2 * P]
  BY AddendDigits DEF Addend
<1>3. LeftMant(a) \in Nat /\ Pow10[D - 1] <= LeftMant(a) /\ LeftMant(a) < Pow10[D] /\ w < Word
  BY LeftMantType
<1>4. n <= 2 * P
  <2> HIDE DEF w, n
  <2>1. CASE n = 1
    BY <1>1, <2>1
  <2>2. CASE n # 1
    <3>1. n - 1 \in 0..MaxShift /\ 2 * P \in 0..MaxShift /\ Pow10[n - 1] <= w
      BY <1>1, <1>2, <2>2 DEF IsDigits
    <3>2. Pow10[n - 1] \in Nat /\ Pow10[2 * P] \in Nat
      BY <3>1, PowerType
    <3>3. Pow10[n - 1] < Pow10[2 * P]
      BY <1>2, <3>1, <3>2
    <3>4. n - 1 < 2 * P
      BY <3>1, <3>3, PowerOrder
    <3> QED BY <1>1, <1>2, <3>4
  <2> QED BY <2>1, <2>2
<1>5. Align(a) = IF m >= Pow10[D - 1] THEN [m |-> m, e |-> e] ELSE [m |-> m * 10, e |-> e - 1]
  BY Zenon DEF Align
<1>6. i \in {D - n, D - n - 1}
  <2> HIDE DEF w, n
  <2>1. Digits(Pow2[b + 1] - 1) \in {n, n + 1}
    BY <1>2, <1>3, <1>4, BsrDigits
  <2>2. i = D - Digits(Pow2[b + 1] - 1)
    BY DEF Bsr2Mul
  <2> HIDE DEF b, i
  <2> DEFINE c == Digits(Pow2[b + 1] - 1)
  <2> HIDE DEF c
  <2>3. c \in {n, n + 1} /\ i = D - c
    BY <2>1, <2>2 DEF c
  <2> QED BY <1>1, <1>2, <2>3
<1>7. e \in Int /\ (b # BadBsr => e = a.exp - i)
  <2>1. i \in Int
    BY <1>1, <1>2, <1>6
  <2>2. Bsr2Exp(b) = IF b = BadBsr THEN -i - 1 ELSE -i
    BY DEF Bsr2Exp
  <2> HIDE DEF i, b
  <2> QED BY <1>2, <2>1, <2>2
<1> HIDE DEF e
<1>8. LeftMant(a) = w * Pow10[D - n] /\ LeftExp(a) = a.exp - (D - n)
  BY DEF LeftMant, LeftExp
<1>9. CASE i = D - n
  <2>1. m = LeftMant(a)
    BY <1>8, <1>9
  <2>2. m >= Pow10[D - 1]
    BY <1>1, <1>3, <2>1, PowerType
  <2>3. Align(a) = [m |-> m, e |-> e]
    BY <1>5, <2>2
  <2> QED BY <1>7, <1>8, <1>9, <2>1, <2>3
<1>10. CASE i = D - n - 1
  <2> DEFINE y == Pow10[D - n - 1]
  <2>1. Pow10[D - n] = 10 * y /\ y \in Nat
    <3> HIDE DEF n
    <3>1. /\ D - n \in 1..MaxShift /\ (D - n) - 1 = D - n - 1 /\ D - n - 1 \in 0..MaxShift
      BY <1>1, <1>2
    <3> QED BY <3>1, PowerType, DecimalAssumption
  <2>2. LeftMant(a) = w * (10 * y) /\ m = w * y
    BY <1>8, <1>10, <2>1
  <2>4. Pow10[D - 1] \in Nat /\ Pow10[D] = 10 * Pow10[D - 1]
    BY RegisterPowers
  <2> HIDE DEF y, w, m
  <2>3. LeftMant(a) = 10 * m /\ m \in Nat
    BY <1>2, <2>1, <2>2
  <2>5. m < Pow10[D - 1]
    BY <1>3, <2>3, <2>4
  <2>6. Align(a) = [m |-> m * 10, e |-> e - 1]
    BY <1>5, <2>3, <2>4, <2>5
  <2>7. i = D - n - 1
    BY <1>10
  <2> HIDE DEF i, n, b
  <2>8. n \in Int /\ D \in Int /\ e \in Int /\ (b # BadBsr => e = a.exp - i) /\ a.exp \in Int
    BY <1>1, <1>2, <1>7
  <2>9. b # BadBsr => e - 1 = a.exp - (D - n)
    BY <2>7, <2>8
  <2> QED BY <1>8, <2>3, <2>6, <2>8, <2>9 DEF b, w
<1> QED BY <1>6, <1>9, <1>10

-----------------------------------------------------------------------------
(* Division by a reciprocal and the first digit of a rest                  *)

\* A multiple of the power whose reciprocal is a little too small.
Short(w, k) == k = D - 1 /\ w > 0 /\ w % Pow10[k] = 0

LEMMA Reciprocal ==
  ASSUME NEW w \in Nat, NEW k \in 0..MaxShift
  PROVE  /\ RecipDiv(w, k) \in Nat /\ RecipDiv(w, k) <= w \div Pow10[k]
         /\ ~Short(w, k) => RecipDiv(w, k) = w \div Pow10[k]
         /\ Short(w, k) => RecipDiv(w, k) = w \div Pow10[k] - 1
<1> DEFINE y == Pow10[k]
           t == w \div y
<1>1. y \in Nat \ {0}
  BY PowerType
<1>2. RecipDiv(w, k) = IF Short(w, k) THEN t - 1 ELSE t
  BY DEF RecipDiv, Short
<1>3. ASSUME Short(w, k) PROVE w > 0 /\ w % y = 0
  BY <1>3 DEF Short
<1> HIDE DEF y
<1>4. t \in Nat /\ w % y \in 0..(y - 1) /\ (t * y) + (w % y) = w
  BY <1>1, DivMod
<1> DEFINE s == w % y
<1> HIDE DEF t, s
<1>5. Short(w, k) => t > 0
  <2>1. ASSUME Short(w, k), t = 0 PROVE FALSE
    <3>1. t * y = 0
      BY <1>1, <2>1
    <3> QED BY <1>3, <1>4, <2>1, <3>1 DEF s
  <2> QED BY <1>4, <2>1
<1> QED BY <1>2, <1>4, <1>5 DEF t, y

\* Part of a rest that is not zero and yet is zero in the low half of a register.
Hidden(r, k) == k \in 2..D /\ r % Pow10[k - 1] # 0 /\ (r % Pow10[k - 1]) % Half = 0

\* It matters behind a digit that should be made sticky.
Hides(r, k) == Hidden(r, k) /\ RecipDiv(r, k - 1) \in {0, 5}

\* Apart from the short reciprocal and the low half, the first digit is right.
LEMMA FirstDigitRight ==
  ASSUME Room, NEW k \in 1..D, NEW r \in Nat, r < Pow10[k], ~Short(r, k - 1), ~Hides(r, k)
  PROVE  FirstDigit(r, k - 1) = DroppedDigit(r, k)
<1>1. /\ P \in Nat /\ P > 1 /\ D \in Nat /\ 2 * P + 2 <= D
      /\ MaxShift \in Nat /\ D + 2 <= MaxShift
  BY RegisterFacts
<1> DEFINE y == Pow10[k - 1]
           z == Pow10[k]
           d == r \div y
           t == r % y
<1>2. k - 1 \in 0..MaxShift /\ k \in 1..MaxShift
  BY <1>1
<1>3. y \in Nat \ {0} /\ z = 10 * y
  BY <1>2, PowerType, DecimalAssumption
<1>4. RecipDiv(r, k - 1) = d
  BY <1>2, Reciprocal
<1>5. k > 1 /\ d \in {0, 5} => (t % Half # 0 <=> t # 0)
  <2>1. ASSUME k > 1, d \in {0, 5}, t # 0 PROVE t % Half # 0
    BY <1>1, <1>4, <2>1 DEF Hides, Hidden
  <2>2. 0 % Half = 0
    BY BidAssumption
  <2> QED BY <2>1, <2>2
<1> HIDE DEF y, z
<1>6. d \in Nat /\ t \in 0..(y - 1) /\ (d * y) + t = r
  BY <1>3, DivMod
<1>7. (10 * r) \div z = d /\ (10 * r) % z = 10 * t
  <2> HIDE DEF d, t
  <2> DEFINE w == 10 * r
             e == d * y
             s == 10 * t
  <2>1. e \in Nat /\ e + t = r
    BY <1>3, <1>6
  <2>2. d * z = 10 * e
    <3>1. d * (10 * y) = 10 * (d * y)
      BY <1>3, <1>6
    <3> QED BY <1>3, <3>1
  <2> HIDE DEF e
  <2>3. w \in Nat /\ s \in 0..(z - 1) /\ w = d * z + s /\ z \in Nat \ {0} /\ d \in Int
    BY <1>3, <1>6, <2>1, <2>2
  <2> HIDE DEF w, s
  <2>4. w \div z = d /\ w % z = s
    BY <2>3, DivModUnique
  <2> QED BY <2>4 DEF w, s
<1>8. DroppedDigit(r, k) = IF d \in {0, 5} /\ t # 0 THEN d + 1 ELSE d
  <2>1. DroppedDigit(r, k) = IF d \in {0, 5} /\ 10 * t # 0 THEN d + 1 ELSE d
    BY <1>7 DEF DroppedDigit, z
  <2> HIDE DEF d, t
  <2> QED BY <1>6, <2>1
<1>9. CASE k = 1
  <2>1. y = 1
    BY <1>9, DecimalAssumption DEF y
  <2>2. d = r /\ t = 0
    <3> HIDE DEF d, t
    <3> QED BY <1>6, <2>1
  <2>3. FirstDigit(r, k - 1) = r
    <3>1. k - 1 = 0
      BY <1>9
    <3> QED BY <3>1 DEF FirstDigit
  <2> QED BY <1>8, <2>2, <2>3
<1>10. CASE k # 1
  <2>1. k > 1 /\ k - 1 # 0
    BY <1>10
  <2>2. FirstDigit(r, k - 1) = IF d \in {0, 5} /\ (r - d * y) % Half # 0 THEN d + 1 ELSE d
    BY <1>4, <2>1 DEF FirstDigit, y
  <2>3. r - d * y = t
    <3> HIDE DEF d, t
    <3>1. d * y \in Nat
      BY <1>3, <1>6
    <3> DEFINE e == d * y
    <3> HIDE DEF e
    <3>2. e \in Nat /\ e + t = r /\ t \in Int
      BY <1>3, <1>6, <3>1 DEF e
    <3>3. r - e = t
      BY <3>2
    <3> QED BY <3>3 DEF e
  <2> QED BY <1>5, <1>8, <2>1, <2>2, <2>3
<1> QED BY <1>9, <1>10

-----------------------------------------------------------------------------
(* Registers                                                               *)

\* A mantissa at the left end of a register.
IsLeft(m) == m \in Nat /\ Pow10[D - 1] <= m /\ m < Pow10[D]

\* A number in a register, as addsub stores it.
InRegister(y) == y \in Impl /\ y.special = "NUMBER" /\ y.mant < Word

LEMMA WordFacts ==
  ASSUME Room
  PROVE  /\ Word \in Nat /\ 11 * Pow10[D - 1] <= Word /\ Word < 2 * Pow10[D] /\ Half \in Nat \ {0}
         /\ Pow10[D - 2] \in Nat \ {0} /\ Pow10[D - 1] = 10 * Pow10[D - 2] /\ Pow10[D] = 10 * Pow10[D - 1]
         /\ Pow10[D - 1] \in Nat /\ Pow10[D] \in Nat
<1>1. Word \in Nat
  <2>1. Bits \in 0..Bits
    BY BidAssumption
  <2>2. Pow2[Bits] \in Nat
    BY <2>1, TwosType
  <2> QED BY <2>2, BidAssumption
<1> QED BY <1>1, RegisterPowers, BidAssumption

\* A quotient leaves the first place of a register free.
LEMMA QuotientBound ==
  ASSUME Room, NEW sm, IsLeft(sm), NEW k \in 1..D
  PROVE  /\ RecipDiv(sm, k) \in Nat /\ RecipDiv(sm, k) <= sm \div Pow10[k]
         /\ sm \div Pow10[k] \in Nat /\ sm \div Pow10[k] < Pow10[D - 1]
<1>1. /\ P \in Nat /\ P > 1 /\ D \in Nat /\ 2 * P + 2 <= D
      /\ MaxShift \in Nat /\ D + 2 <= MaxShift
  BY RegisterFacts
<1>2. sm \in Nat /\ sm < Pow10[D] /\ Pow10[D] = 10 * Pow10[D - 1] /\ Pow10[D - 1] \in Nat
  BY WordFacts DEF IsLeft
<1> DEFINE y == Pow10[k]
           q == sm \div y
<1>3. y \in Nat /\ y >= 10
  <2>1. 1 \in 0..MaxShift /\ k \in 0..MaxShift /\ 1 <= k
    BY <1>1
  <2> QED BY <2>1, PowerType, PowerOrder, SmallPowers
<1> HIDE DEF y
<1>4. q \in Nat /\ (q * y) + (sm % y) = sm /\ sm % y \in 0..(y - 1)
  <2>1. y \in Nat \ {0}
    BY <1>3
  <2> QED BY <1>2, <2>1, DivMod
<1> HIDE DEF q
<1>5. q < Pow10[D - 1]
  <2>1. 10 * q <= y * q /\ y * q = q * y
    BY <1>3, <1>4, TimesMonotonic
  <2> DEFINE z == q * y
             t == sm % y
  <2>2. z \in Nat /\ t \in Nat
    BY <1>3, <1>4
  <2> HIDE DEF z, t
  <2>3. 10 * q <= z /\ z + t = sm
    BY <1>4, <2>1 DEF z, t
  <2> QED BY <1>2, <1>4, <2>2, <2>3
<1>6. k \in 0..MaxShift
  BY <1>1
<1>7. RecipDiv(sm, k) \in Nat /\ RecipDiv(sm, k) <= sm \div Pow10[k]
  BY <1>2, <1>6, Reciprocal
<1> QED BY <1>4, <1>5, <1>7 DEF q, y

\* Neither a carry nor a borrow follows a division.
LEMMA QuotientFits ==
  ASSUME Room, NEW m, IsLeft(m), NEW sm, IsLeft(sm), NEW k \in 1..D
  PROVE  m + RecipDiv(sm, k) < Word /\ RecipDiv(sm, k) < m
<1> DEFINE q == RecipDiv(sm, k)
           z == sm \div Pow10[k]
<1>1. q \in Nat /\ q <= z /\ z \in Nat /\ z < Pow10[D - 1]
  BY QuotientBound
<1> HIDE DEF q, z
<1>2. m + q < Word /\ q < m
  BY <1>1, WordFacts DEF IsLeft
<1> QED BY <1>2 DEF q

\* What is stored of a sum fits a register.
LEMMA SumInRegister ==
  ASSUME Room, NEW m, IsLeft(m), NEW b \in Int, NEW sm, IsLeft(sm), NEW c \in Int, c <= b,
         NEW s \in {-1, 1}
  PROVE  /\ InRegister(AddMant([m |-> m, e |-> b], [m |-> sm, e |-> c], s).x)
         /\ InRegister(SubMant([m |-> m, e |-> b], [m |-> sm, e |-> c], s).x)
<1>1. /\ P \in Nat /\ P > 1 /\ D \in Nat /\ 2 * P + 2 <= D
      /\ MaxShift \in Nat /\ D + 2 <= MaxShift
  BY RegisterFacts
<1>2. /\ Word \in Nat /\ 11 * Pow10[D - 1] <= Word /\ Word < 2 * Pow10[D]
      /\ Pow10[D] = 10 * Pow10[D - 1] /\ Pow10[D - 1] \in Nat /\ Pow10[D - 1] = 10 * Pow10[D - 2]
      /\ Pow10[D - 2] \in Nat \ {0} /\ Pow10[D] \in Nat
  BY WordFacts
<1>3. /\ m \in Nat /\ Pow10[D - 1] <= m /\ m < Pow10[D]
      /\ sm \in Nat /\ Pow10[D - 1] <= sm /\ sm < Pow10[D]
  BY DEF IsLeft
<1>4. \A w \in Nat, e \in Int, t \in {-1, 1} : \A r : w < Word => InRegister(Sum(w, e, t, r).x)
  BY DEF InRegister, Sum, Number, Impl, Special, Sign
<1> DEFINE k == b - c
           q == RecipDiv(sm, k)
           t == m + sm
           y == Pow10[k]
           rest0 == sm - (q * y)
           z == (m - q) - 1
           large == [m |-> m, e |-> b]
           little == [m |-> sm, e |-> c]
<1>5. k \in Nat /\ -s \in {-1, 1} /\ b + 1 \in Int /\ b - 1 \in Int
  OBVIOUS
<1>6. ASSUME k \in 1..D PROVE q \in Nat /\ m + q < Word /\ q < m /\ y \in Nat \ {0}
  <2>1. k \in 0..MaxShift
    BY <1>1, <1>6
  <2> HIDE DEF k
  <2> QED BY <1>6, <2>1, QuotientFits, QuotientBound, PowerType
<1>7. /\ t \in Nat /\ (t >= Word => t \div 10 \in Nat /\ t \div 10 < Word)
      /\ m - 1 \in Nat /\ m - 1 < Word
  BY <1>2, <1>3
<1>8. InRegister(AddMant(large, little, s).x)
  <2>1. AddMant(large, little, s) =
          IF k > D THEN Sum(m, b, s, 1)
          ELSE IF k = 0 THEN IF t >= Word THEN Sum(t \div 10, b + 1, s, t % 10) ELSE Sum(t, b, s, 0)
          ELSE Sum(m + q, b, s, FirstDigit(rest0, k - 1))
    BY DEF AddMant
  <2> HIDE DEF k, q, t, rest0
  <2>2. CASE k > D
    <3>1. m < Word
      BY <1>2, <1>3
    <3> QED BY <1>3, <1>4, <2>1, <2>2, <3>1
  <2>3. CASE k = 0
    BY <1>1, <1>2, <1>4, <1>5, <1>7, <2>1, <2>3
  <2>4. CASE k \in 1..D
    <3>1. m + q \in Nat /\ m + q < Word
      BY <1>3, <1>6, <2>4
    <3>2. AddMant(large, little, s) = Sum(m + q, b, s, FirstDigit(rest0, k - 1))
      BY <1>1, <2>1, <2>4
    <3> QED BY <1>4, <3>1, <3>2
  <2> QED BY <1>1, <1>5, <2>2, <2>3, <2>4
<1>9. InRegister(SubMant(large, little, s).x)
  <2> DEFINE w == (z * 10) + (y - rest0)
  <2>1. SubMant(large, little, s) =
          IF k > D THEN Sum(m - 1, b, s, sm % Half)
          ELSE IF k = 0 THEN IF m >= sm THEN Sum(m - sm, b, s, 0) ELSE Sum(sm - m, b, -s, 0)
          ELSE IF rest0 = 0 THEN Sum(m - q, b, s, 0)
          ELSE IF z >= Pow10[D - 1] THEN Sum(z, b, s, FirstDigit(y - rest0, k - 1))
          ELSE Sum(w % Word, b - 1, s, 0)
    BY DEF SubMant
  <2>2. ASSUME k \in 1..D PROVE w % Word \in Nat /\ w % Word < Word
    <3>1. q * y \in Nat
      <4> HIDE DEF q, y, k
      <4> QED BY <1>6, <2>2
    <3> DEFINE j == q * y
    <3> HIDE DEF j, q, y, k
    <3>2. w \in Int
      BY <1>3, <1>6, <2>2, <3>1 DEF j
    <3> HIDE DEF w
    <3> QED BY <1>2, <3>2
  <2> HIDE DEF k, q, rest0, w
  <2>3. CASE k > D
    BY <1>4, <1>7, <2>1, <2>3
  <2>4. CASE k = 0
    <3>1. /\ m >= sm => m - sm \in Nat /\ m - sm < Word
          /\ ~(m >= sm) => sm - m \in Nat /\ sm - m < Word
      BY <1>2, <1>3
    <3> QED BY <1>1, <1>4, <1>5, <2>1, <2>4, <3>1
  <2>5. CASE k \in 1..D
    <3>1. m - q \in Nat /\ m - q < Word /\ z \in Nat /\ z < Word /\ ~(k > D) /\ k # 0
      BY <1>1, <1>2, <1>3, <1>6, <2>5
    <3> HIDE DEF z, y
    <3> QED BY <1>4, <1>5, <2>1, <2>2, <2>5, <3>1
  <2> QED BY <1>1, <1>5, <2>3, <2>4, <2>5
<1> QED BY <1>8, <1>9

-----------------------------------------------------------------------------
(* scale                                                                   *)

\* What scale normalises a number of d digits to, and the remainder of that.
Normal(y, d) ==
  IF d < P THEN y.mant * Pow10[P - d] ELSE IF d = P THEN y.mant ELSE y.mant \div Pow10[d - P]
NormalRem(y, d) ==
  IF d < P THEN 0 ELSE IF d = P THEN 32 ELSE DroppedDigit(y.mant % Pow10[d - P], d - P)

LEMMA ScaleShape ==
  ASSUME Room, NEW y, InRegister(y)
  PROVE  LET d == Digits(y.mant)
         IN  /\ y.mant \in Nat /\ y.exp \in Int /\ IsDigits(d, y.mant) /\ d \in 1..(D + 1)
             /\ y.mant = 0 => BidScale(y) = Underflowed(y)
             /\ y.mant # 0 =>
                  /\ BidScale(y) = ToRange(y, Normal(y, d), y.exp + d - P, NormalRem(y, d))
                  /\ Normal(y, d) \in Nat /\ Pow10[P - 1] <= Normal(y, d) /\ Normal(y, d) < Pow10[P]
<1>1. /\ P \in Nat /\ P > 1 /\ D \in Nat /\ 2 * P + 2 <= D
      /\ MaxShift \in Nat /\ D + 2 <= MaxShift
  BY RegisterFacts
<1> DEFINE m == y.mant
           d == Digits(m)
<1>2. m \in Nat /\ y.exp \in Int /\ m < Word
  BY DEF InRegister, Impl
<1>3. m < Pow10[D + 1]
  <2>1. Pow10[D + 1] = 10 * Pow10[D]
    BY <1>1, PowerStep
  <2> HIDE DEF m
  <2> QED BY <1>2, <2>1, WordFacts
<1>4. IsDigits(d, m)
  <2>1. D + 1 \in 0..MaxShift
    BY <1>1
  <2>2. m < Pow10[MaxShift]
    BY <1>2, <1>3, <2>1, FitsTable
  <2> QED BY <1>2, <2>2, DigitsMeaning
<1>5. d \in 1..(D + 1)
  <2> HIDE DEF m, d
  <2>1. d \in 1..MaxShift /\ (d = 1 \/ Pow10[d - 1] <= m)
    BY <1>4 DEF IsDigits
  <2>2. CASE d # 1
    <3>1. d - 1 \in 0..MaxShift /\ D + 1 \in 0..MaxShift
      BY <1>1, <2>1, <2>2
    <3>2. Pow10[d - 1] \in Nat /\ Pow10[D + 1] \in Nat
      BY <3>1, PowerType
    <3>3. Pow10[d - 1] < Pow10[D + 1]
      BY <1>2, <1>3, <2>1, <2>2, <3>2
    <3>4. d - 1 < D + 1
      BY <3>1, <3>3, PowerOrder
    <3> QED BY <1>1, <2>1, <3>4
  <2> QED BY <1>1, <2>1, <2>2
<1>6. BidScale(y) =
        IF m = 0 THEN Underflowed(y)
        ELSE IF d < P THEN ToRange(y, m * Pow10[-(d - P)], y.exp + (d - P), 0)
        ELSE IF d = P THEN ToRange(y, m, y.exp, 32)
        ELSE ToRange(y, m \div Pow10[d - P], y.exp + (d - P), DroppedDigit(m % Pow10[d - P], d - P))
  BY Zenon DEF BidScale
<1>7. ASSUME m # 0
      PROVE  BidScale(y) = ToRange(y, Normal(y, d), y.exp + d - P, NormalRem(y, d))
  <2> HIDE DEF m, d
  <2>0. m = y.mant
    BY DEF m
  <2>1. -(d - P) = P - d /\ y.exp + (d - P) = y.exp + d - P
    BY <1>1, <1>2, <1>5
  <2>2. CASE d < P
    BY <1>6, <1>7, <2>0, <2>1, <2>2 DEF Normal, NormalRem
  <2>3. CASE d = P
    <3>1. y.exp + d - P = y.exp /\ ~(d < P)
      BY <1>1, <1>2, <2>3
    <3>2. Normal(y, d) = m /\ NormalRem(y, d) = 32
      BY <2>0, <2>3, <3>1 DEF Normal, NormalRem
    <3> QED BY <1>6, <1>7, <2>3, <3>1, <3>2
  <2>4. CASE d > P
    <3>1. ~(d < P) /\ d # P
      BY <1>1, <1>5, <2>4
    <3>2. Normal(y, d) = m \div Pow10[d - P] /\ NormalRem(y, d) = DroppedDigit(m % Pow10[d - P], d - P)
      BY <2>0, <3>1 DEF Normal, NormalRem
    <3> QED BY <1>6, <1>7, <2>1, <3>1, <3>2
  <2> QED BY <1>1, <1>5, <2>2, <2>3, <2>4
<1>8. ASSUME m # 0
      PROVE  Normal(y, d) \in Nat /\ IsDigits(P, Normal(y, d))
  <2> HIDE DEF m, d
  <2>0. m = y.mant
    BY DEF m
  <2>1. CASE d < P
    <3>0. P - d \in Nat
      BY <1>1, <1>5, <2>1
    <3>1. PICK c \in Nat : P - d = c
      BY <3>0
    <3>2. d + c = P /\ d + c <= MaxShift
      BY <1>1, <1>5, <3>1
    <3>3. m * Pow10[c] \in Nat /\ IsDigits(d + c, m * Pow10[c])
      BY <1>2, <1>4, <1>8, <3>2, DigitsTimes
    <3> QED BY <2>0, <2>1, <3>1, <3>2, <3>3 DEF Normal
  <2>2. CASE d = P
    <3>1. Normal(y, d) = m
      BY <1>1, <2>0, <2>2 DEF Normal
    <3> QED BY <1>2, <1>4, <2>2, <3>1
  <2>3. CASE d > P
    <3>1. PICK c \in Nat : d - P = c
      BY <1>1, <1>5, <2>3
    <3>2. c < d /\ d - c = P /\ ~(d < P) /\ d # P
      BY <1>1, <1>5, <2>3, <3>1
    <3>3. m \div Pow10[c] \in Nat /\ IsDigits(d - c, m \div Pow10[c])
      BY <1>2, <1>4, <3>2, DigitsCut
    <3> QED BY <2>0, <3>1, <3>2, <3>3 DEF Normal
  <2> QED BY <1>1, <1>5, <2>1, <2>2, <2>3
<1>9. ASSUME m # 0
      PROVE  Normal(y, d) \in Nat /\ Pow10[P - 1] <= Normal(y, d) /\ Normal(y, d) < Pow10[P]
  BY <1>1, <1>8, <1>9 DEF IsDigits
<1> QED BY <1>2, <1>4, <1>5, <1>6, <1>7, <1>9

\* In a format: P digits, or fewer at the smallest exponent.
FormatHolds(x0, r) ==
  \/ x0.special = "ZERO" /\ r = TotalUnderflow
  \/ /\ x0.mant < Pow10[P] /\ x0.exp \in EMin..EMax
     /\ x0.mant >= Pow10[P-1] \/ x0.exp = EMin

\* The digit that a subnormal leaves of the k that are shifted out of m, merged
\* with the remainder of the normalisation.
Merged(m, k, rem) ==
  LET d == DroppedDigit(m % Pow10[k], k)
  IN  IF k > 1 /\ d \in {0, 5} /\ rem % 32 # 0 THEN d + 1 ELSE d

\* What becomes of a normalised number, by its exponent.
LEMMA RangeOutcome ==
  ASSUME Room, NEW y, InRegister(y), NEW m \in Nat, Pow10[P - 1] <= m, m < Pow10[P],
         NEW e \in Int, NEW rem
  PROVE  LET r == ToRange(y, m, e, rem)
         IN  /\ FormatHolds(r.x, r.rem)
             /\ r.x.special = "ZERO" => e < EMin - P
             /\ r.x.special = "NUMBER" /\ r.rem # TotalOverflow => EMin - P <= e /\ e <= EMax
             /\ EMin <= e /\ e <= EMax => r.x.mant = m /\ r.x.exp = e /\ r.rem = rem
             /\ e = EMin - P =>
                  r.x.mant = 0 /\ r.x.exp = EMin /\ r.rem = 16 + m \div Pow10[P - 1]
             /\ EMin - P < e /\ e < EMin =>
                  LET k == EMin - e
                  IN  r.x.mant = m \div Pow10[k] /\ r.x.exp = EMin /\ r.rem = 16 + Merged(m, k, rem)
<1>1. /\ P \in Nat /\ P > 1 /\ D \in Nat /\ 2 * P + 2 <= D
      /\ MaxShift \in Nat /\ D + 2 <= MaxShift /\ EMin \in Int /\ EMax \in Int /\ EMin < EMax
  BY RegisterFacts, DecimalAssumption
<1>2. y \in Impl /\ y.special = "NUMBER"
  BY DEF InRegister
<1>3. /\ P \in 1..MaxShift /\ P - 1 \in 0..MaxShift /\ Pow10[P] \in Nat \ {0} /\ Pow10[P - 1] \in Nat \ {0}
      /\ Pow10[P] = 10 * Pow10[P - 1]
  <2>1. P \in 1..MaxShift /\ P - 1 \in 0..MaxShift /\ P \in 0..MaxShift
    BY <1>1
  <2> QED BY <2>1, PowerType, DecimalAssumption
<1> DEFINE r == ToRange(y, m, e, rem)
<1>4. CASE e > EMax
  <2>1. r = Overflowed(y)
    <3>1. ~(e < EMin - P) /\ ~(e = EMin - P) /\ ~(e > EMin - P /\ e < EMin) /\ ~(e >= EMin /\ e <= EMax)
      BY <1>1, <1>4
    <3> QED BY <1>4, <3>1 DEF ToRange
  <2> HIDE DEF r
  <2>2. r.x.special = "NUMBER" /\ r.rem = 10 /\ r.x.mant = MaxMant /\ r.x.exp = EMax
    BY <1>2, <2>1 DEF Overflowed, Impl
  <2>3. FormatHolds(r.x, r.rem)
    BY <1>1, <1>3, <2>2 DEF FormatHolds, MaxMant
  <2> QED BY <1>1, <1>4, <2>2, <2>3 DEF TotalOverflow, r
<1>5. CASE e < EMin - P
  <2>1. r = Underflowed(y)
    <3>1. ~(e > EMax) /\ ~(e = EMin - P) /\ ~(e > EMin - P /\ e < EMin) /\ ~(e >= EMin /\ e <= EMax)
      BY <1>1, <1>5
    <3> QED BY <1>5, <3>1 DEF ToRange
  <2> HIDE DEF r
  <2>2. r.x.special = "ZERO" /\ r.rem = 26
    BY <1>2, <2>1 DEF Underflowed, Impl
  <2> QED BY <1>1, <1>5, <2>2 DEF FormatHolds, TotalUnderflow, r
<1>6. CASE e = EMin - P
  <2>1. r = PartialUnderflow(y, m)
    <3>1. ~(e > EMax) /\ ~(e < EMin - P) /\ ~(e > EMin - P /\ e < EMin) /\ ~(e >= EMin /\ e <= EMax)
      BY <1>1, <1>6
    <3> QED BY <1>6, <3>1 DEF ToRange
  <2> DEFINE h == Pow10[P - 1]
             q == m \div h
  <2>2. q \in 0..9
    <3>0. h \in Nat \ {0} /\ m < 10 * h
      BY <1>3
    <3> HIDE DEF h
    <3>1. q \in Nat /\ (q * h) + (m % h) = m /\ m % h \in 0..(h - 1)
      BY <3>0, DivMod
    <3> HIDE DEF q
    <3>2. ASSUME 10 <= q PROVE FALSE
      <4>1. 10 * h <= q * h /\ q * h \in Nat
        BY <3>0, <3>1, <3>2, TimesMonotonic
      <4> QED BY <3>0, <3>1, <4>1
    <3> QED BY <3>1, <3>2
  <2> HIDE DEF r
  <2>3. r.x.special = "NUMBER" /\ r.rem = 16 + q /\ r.x.mant = 0 /\ r.x.exp = EMin
    BY <1>2, <2>1 DEF PartialUnderflow, Impl
  <2> HIDE DEF q
  <2>4. r.x.special # "ZERO" /\ r.rem = 16 + m \div Pow10[P - 1]
    BY <2>3 DEF q
  <2>5. FormatHolds(r.x, r.rem)
    BY <1>1, <1>3, <2>3 DEF FormatHolds
  <2> QED BY <1>1, <1>6, <2>3, <2>4, <2>5 DEF r
<1>7. CASE e > EMin - P /\ e < EMin
  <2> DEFINE k == EMin - e
             t == m % Pow10[k]
             d == DroppedDigit(t, k)
             g == IF k > 1 /\ d \in {0, 5} /\ rem % 32 # 0 THEN d + 1 ELSE d
  <2>1. r = Subnormal(y, m, k, rem)
    <3>1. ~(e > EMax) /\ ~(e < EMin - P) /\ ~(e = EMin - P) /\ ~(e >= EMin /\ e <= EMax)
      BY <1>1, <1>7
    <3> QED BY <1>7, <3>1 DEF ToRange
  <2> HIDE DEF r
  <2>2. /\ r.x.special = "NUMBER" /\ r.rem = 16 + g /\ r.x.mant = m \div Pow10[k] /\ r.x.exp = EMin
    BY <1>2, <2>1 DEF Subnormal, Impl
  <2>3. k \in 0..MaxShift
    BY <1>1, <1>7
  <2>4. g = Merged(m, k, rem)
    BY DEF Merged
  <2> HIDE DEF g, d, t, k
  <2>5. m \div Pow10[k] \in Nat /\ m \div Pow10[k] <= m
    <3> DEFINE h == Pow10[k]
    <3>1. h \in Nat \ {0}
      BY <2>3, PowerType
    <3> HIDE DEF h
    <3>2. m \div h \in Nat /\ m \div h <= m
      BY <3>1, DivMod
    <3> QED BY <3>2 DEF h
  <2>6. FormatHolds(r.x, r.rem)
    <3> DEFINE a == m \div Pow10[k]
    <3>1. a \in Nat /\ a <= m /\ r.x.mant = a
      BY <2>2, <2>5
    <3> HIDE DEF a
    <3> QED BY <1>1, <1>3, <2>2, <3>1 DEF FormatHolds
  <2>7. r.x.mant = m \div Pow10[EMin - e] /\ r.x.exp = EMin /\ r.rem = 16 + Merged(m, EMin - e, rem)
    BY <2>2, <2>4 DEF k
  <2> QED BY <1>1, <1>7, <2>2, <2>6, <2>7 DEF r
<1>8. CASE e >= EMin /\ e <= EMax
  <2>1. r = [x |-> [y EXCEPT !.mant = m, !.exp = e], rem |-> rem]
    <3>1. ~(e > EMax) /\ ~(e < EMin - P) /\ ~(e = EMin - P) /\ ~(e > EMin - P /\ e < EMin)
      BY <1>1, <1>8
    <3> QED BY <1>8, <3>1 DEF ToRange
  <2> HIDE DEF r
  <2>2. r.x.special = "NUMBER" /\ r.rem = rem /\ r.x.mant = m /\ r.x.exp = e
    BY <1>2, <2>1 DEF Impl
  <2>3. FormatHolds(r.x, r.rem)
    BY <1>1, <1>3, <1>8, <2>2 DEF FormatHolds
  <2> QED BY <1>1, <1>8, <2>2, <2>3 DEF r
<1> QED BY <1>1, <1>4, <1>5, <1>6, <1>7, <1>8

LEMMA ScaleFormat ==
  ASSUME Room, NEW y, InRegister(y)
  PROVE  FormatHolds(BidScale(y).x, BidScale(y).rem)
<1> DEFINE d == Digits(y.mant)
<1>1. CASE y.mant = 0
  <2>1. BidScale(y) = Underflowed(y)
    BY <1>1, ScaleShape
  <2>2. y \in Impl
    BY DEF InRegister
  <2> QED BY <2>1, <2>2 DEF Underflowed, FormatHolds, TotalUnderflow, Impl
<1>2. CASE y.mant # 0
  <2>1. /\ BidScale(y) = ToRange(y, Normal(y, d), y.exp + d - P, NormalRem(y, d))
        /\ Normal(y, d) \in Nat /\ Pow10[P - 1] <= Normal(y, d) /\ Normal(y, d) < Pow10[P]
        /\ y.exp \in Int /\ d \in 1..(D + 1)
    BY <1>2, ScaleShape
  <2> HIDE DEF d
  <2>2. y.exp + d - P \in Int
    BY <2>1, RegisterFacts
  <2> DEFINE m == Normal(y, d)
             e == y.exp + d - P
  <2> HIDE DEF m, e
  <2>3. FormatHolds(ToRange(y, m, e, NormalRem(y, d)).x, ToRange(y, m, e, NormalRem(y, d)).rem)
    BY <2>1, <2>2, RangeOutcome DEF m, e
  <2> QED BY <2>1, <2>3 DEF m, e
<1> QED BY <1>1, <1>2

-----------------------------------------------------------------------------
(* The smaller operand                                                     *)

\* c thousandths are q units and a part of the class h.
Thousandths(c, q, h) == \E f \in 0..999 : c = 1000 * q + f /\ Fraction(f, 1000) = h

\* c thousandths are what is left of sm when it is moved to the right by k
\* places, and a part of the class of what falls out.
CutAt(c, sm, k) ==
  \/ /\ k \in 0..D
     /\ Thousandths(c, sm \div Pow10[k], Fraction(sm % Pow10[k], Pow10[k]))
  \/ k \in Nat /\ k > D /\ c \in 1..499

\* Zeros behind a mantissa change neither the quotient nor the class of the rest.
LEMMA ZerosBehind ==
  ASSUME Room, NEW w \in Nat, NEW j \in Nat, NEW z \in Nat, j + z <= MaxShift,
         NEW sm, sm = w * Pow10[z]
  PROVE  /\ sm \div Pow10[j + z] = w \div Pow10[j]
         /\ Fraction(sm % Pow10[j + z], Pow10[j + z]) = Fraction(w % Pow10[j], Pow10[j])
<1>1. MaxShift \in Nat /\ j \in 0..MaxShift /\ z \in 0..MaxShift /\ j + z \in 0..MaxShift
  BY RegisterFacts
<1> DEFINE h == Pow10[j]
           u == Pow10[z]
           p == Pow10[j + z]
           a == w \div h
           r == w % h
           s == r * u
<1>2. h \in Nat \ {0} /\ u \in Nat \ {0} /\ p = h * u
  BY <1>1, PowerType, PowerSum
<1>3. sm = w * u
  OBVIOUS
<1> HIDE DEF h, u, p
<1>4. a \in Nat /\ r \in 0..(h - 1) /\ (a * h) + r = w
  BY <1>2, DivMod
<1> HIDE DEF a, r
<1>5. s \in Nat /\ s < p /\ p \in Nat \ {0} /\ sm = a * p + s /\ sm \in Nat
  <2>1. ((a * h) + r) * u = (a * (h * u)) + (r * u)
    BY <1>2, <1>4
  <2>2. (r + 1) * u <= h * u /\ (r + 1) * u = (r * u) + u /\ r * u \in Nat /\ h * u \in Nat
    BY <1>2, <1>4, TimesMonotonic
  <2>3. a * (h * u) \in Nat
    BY <1>4, <2>2
  <2> QED BY <1>2, <1>3, <1>4, <2>1, <2>2, <2>3
<1>6. sm \div p = a /\ sm % p = s
  <2> HIDE DEF s
  <2>1. s \in 0..(p - 1) /\ a \in Int
    BY <1>4, <1>5
  <2> QED BY <1>5, <2>1, DivModUnique
<1>7. Fraction(s, p) = Fraction(r, h)
  <2>1. r \in Int
    BY <1>2, <1>4
  <2>2. Fraction(r * u, h * u) = Fraction(r, h)
    BY <1>2, <2>1, FractionScaled, Zenon
  <2> QED BY <1>2, <2>2
<1> QED BY <1>6, <1>7 DEF a, r, p, h

LEMMA CutFound ==
  ASSUME Room, NEW l, NEW t, NEW b, NEW m, Aligned(l, t, b, m),
         NEW c, IsCut(c, Kept(t, b), Rest(t, b), Drop(t, b))
  PROVE  CutAt(c, LeftMant(t), b - LeftExp(t))
<1>1. /\ P \in Nat /\ P > 1 /\ D \in Nat /\ 2 * P + 2 <= D
      /\ MaxShift \in Nat /\ D + 2 <= MaxShift
  BY RegisterFacts
<1>2. Addend(l) /\ Addend(t)
  BY DEF Aligned
<1> DEFINE w == t.mant
           n == Digits(w)
           z == D - n
           sm == LeftMant(t)
           k == b - LeftExp(t)
           q == Kept(t, b)
           r == Rest(t, b)
           j == Drop(t, b)
<1>3. w \in Nat \ {0} /\ t.exp \in Int /\ IsDigits(n, w) /\ n \in 1..(D - 2)
  BY <1>2, AddendDigits
<1>4. b \in Int
  BY AlignedFacts
<1>5. sm = w * Pow10[z] /\ LeftExp(t) = t.exp - z
  BY DEF LeftMant, LeftExp
<1>6. t.exp - z <= b
  BY DEF Aligned
<1> HIDE DEF w, n
<1>7. z \in 2..(D - 1) /\ z \in Nat /\ k = (b - t.exp) + z /\ k \in Nat /\ n + z = D
  <2> HIDE DEF sm
  <2> QED BY <1>1, <1>3, <1>4, <1>5, <1>6
<1> HIDE DEF z, sm, k
<1>8. PICK f \in 0..999 : c = 1000 * q + f /\ SameClass(f, r, j)
  BY DEF IsCut
<1>0. Thousandths(c, q, Fraction(f, 1000))
  <2> HIDE DEF q, r, j
  <2> DEFINE A(g) == c = 1000 * q + g /\ Fraction(g, 1000) = Fraction(f, 1000)
  <2>1. f \in 0..999 /\ A(f)
    BY <1>8
  <2> HIDE DEF A
  <2>2. \E g \in 0..999 : A(g)
    BY <2>1
  <2> QED BY <2>2, Zenon DEF Thousandths, A
<1>9. CASE t.exp >= b
  <2>1. PICK i \in Nat : i = t.exp - b
    <3>1. t.exp - b \in Nat
      BY <1>3, <1>4, <1>9
    <3> QED BY <3>1
  <2>2. ~(t.exp - b < 0) /\ t.exp - b >= 0 /\ k + i = z /\ k + i <= MaxShift
    BY <1>1, <1>3, <1>4, <1>7, <1>9, <2>1
  <2>3. j = 0
    BY <2>2 DEF Drop
  <2>4. q = w * Pow10[i]
    BY <2>1, <2>2 DEF Kept, w
  <2>5. f = 0
    <3>1. r \in Nat /\ r < 1 /\ Fraction(f, 1000) = Fraction(r, 1)
      <4>1. ~(j > D) /\ Pow10[j] = 1
        BY <1>1, <2>3, SmallPowers
      <4> HIDE DEF r, j
      <4> QED BY <1>8, <4>1 DEF SameClass
    <3> HIDE DEF r
    <3>2. Fraction(r, 1) = "EXACT"
      BY <3>1 DEF Fraction
    <3> QED BY <3>1, <3>2, FractionMeaning
  <2> HIDE DEF q, r, j
  <2>6. k \in 0..MaxShift /\ i \in 0..MaxShift
    BY <1>1, <1>7, <2>2
  <2>7. Pow10[z] = Pow10[i] * Pow10[k] /\ Pow10[k] \in Nat \ {0} /\ Pow10[i] \in Nat \ {0}
    <3>1. i + k = z /\ i + k <= MaxShift
      BY <1>7, <2>2
    <3>2. Pow10[i + k] = Pow10[i] * Pow10[k]
      BY <1>7, <3>1, PowerSum
    <3> QED BY <2>6, <3>1, <3>2, PowerType
  <2>8. sm = q * Pow10[k] + 0 /\ q \in Nat /\ sm \in Nat
    <3>1. w * (Pow10[i] * Pow10[k]) = (w * Pow10[i]) * Pow10[k]
      BY <1>3, <2>7
    <3>2. w * Pow10[i] \in Nat
      BY <1>3, <2>7
    <3> QED BY <1>5, <2>4, <2>7, <3>1, <3>2
  <2>9. sm \div Pow10[k] = q /\ sm % Pow10[k] = 0
    <3> DEFINE p == Pow10[k]
    <3>1. p \in Nat \ {0} /\ sm = q * p + 0
      BY <2>7, <2>8
    <3> HIDE DEF p
    <3>2. 0 \in 0..(p - 1) /\ q \in Int
      BY <2>8, <3>1
    <3>3. sm \div p = q /\ sm % p = 0
      BY <2>8, <3>1, <3>2, DivModUnique
    <3> QED BY <3>3 DEF p
  <2>10. Fraction(0, 1000) = Fraction(0, Pow10[k])
    BY <2>7 DEF Fraction
  <2>11. k \in 0..D
    BY <1>1, <1>7, <2>2
  <2>12. q = sm \div Pow10[k] /\ Fraction(f, 1000) = Fraction(sm % Pow10[k], Pow10[k])
    BY <2>5, <2>9, <2>10
  <2>13. CutAt(c, sm, k)
    BY <1>0, <2>11, <2>12, Zenon DEF CutAt
  <2> QED BY <2>13 DEF k, sm
<1>10. CASE t.exp < b
  <2>1. j = b - t.exp /\ ~(t.exp - b >= 0) /\ j \in Nat
    BY <1>3, <1>4, <1>10 DEF Drop
  <2>2. k = j + z
    BY <1>7, <2>1
  <2>3. CASE j <= D
    <3>1. q = w \div Pow10[j] /\ r = w % Pow10[j]
      BY <2>1, <2>3 DEF Kept, Rest, w
    <3>2. Fraction(f, 1000) = Fraction(r, Pow10[j]) /\ r \in Nat
      <4>1. ~(j > D)
        BY <1>1, <2>1, <2>3
      <4> HIDE DEF r, j
      <4> QED BY <1>8, <4>1 DEF SameClass
    <3> HIDE DEF q, r, j
    <3>3. CASE k <= D
      <4>1. j + z <= MaxShift
        BY <1>1, <2>2, <3>3
      <4>2. sm \div Pow10[k] = q /\ Fraction(sm % Pow10[k], Pow10[k]) = Fraction(r, Pow10[j])
        BY <1>3, <1>5, <1>7, <2>1, <2>2, <3>1, <4>1, ZerosBehind
      <4>3. k \in 0..D
        BY <1>1, <1>7, <3>3
      <4>4. q = sm \div Pow10[k] /\ Fraction(f, 1000) = Fraction(sm % Pow10[k], Pow10[k])
        BY <3>2, <4>2
      <4>5. CutAt(c, sm, k)
        BY <1>0, <4>3, <4>4, Zenon DEF CutAt
      <4> QED BY <4>5 DEF k, sm
    <3>4. CASE k > D
      <4>1. n < j /\ n \in 0..MaxShift /\ j \in 0..MaxShift
        BY <1>1, <1>3, <1>7, <2>1, <2>2, <2>3, <3>4
      <4>2. 10 * Pow10[n] <= Pow10[j] /\ Pow10[n] \in Nat \ {0} /\ Pow10[j] \in Nat \ {0}
        BY <4>1, PowerOrder, PowerType
      <4>3. w < Pow10[n]
        BY <1>3 DEF IsDigits
      <4> DEFINE p == Pow10[j]
                 y == Pow10[n]
      <4>4. w < p /\ 2 * w < p /\ p \in Nat \ {0}
        <5> HIDE DEF p, y
        <5>1. w < y /\ 10 * y <= p /\ y \in Nat \ {0} /\ p \in Nat \ {0}
          BY <4>2, <4>3 DEF p, y
        <5> QED BY <1>3, <5>1
      <4> HIDE DEF p
      <4>5. w \div p = 0 /\ w % p = w
        <5>1. w \in 0..(p - 1) /\ w = 0 * p + w
          BY <1>3, <4>4
        <5> QED BY <1>3, <4>4, <5>1, DivModUnique
      <4>6. q = 0 /\ r = w /\ Fraction(f, 1000) = Fraction(w, p)
        BY <3>1, <3>2, <4>5 DEF p
      <4>7. Fraction(w, p) = "BELOW"
        BY <1>3, <4>4 DEF Fraction
      <4>8. 0 < f /\ 2 * f < 1000
        BY <4>6, <4>7, FractionMeaning
      <4>9. c \in 1..499
        BY <1>8, <4>6, <4>8
      <4>10. CutAt(c, sm, k)
        BY <1>7, <3>4, <4>9 DEF CutAt
      <4> QED BY <4>10 DEF k, sm
    <3> QED BY <1>1, <1>7, <3>3, <3>4
  <2>4. CASE j > D
    <3>1. q = 0
      BY <2>4 DEF IsCut
    <3>2. f = 1
      <4>1. ~(j <= D)
        BY <1>1, <2>1, <2>4
      <4> HIDE DEF r, j
      <4> QED BY <1>8, <4>1 DEF SameClass
    <3> HIDE DEF q, r, j
    <3>3. c \in 1..499 /\ k \in Nat /\ k > D
      BY <1>1, <1>7, <1>8, <2>1, <2>2, <2>4, <3>1, <3>2
    <3>4. CutAt(c, sm, k)
      BY <3>3 DEF CutAt
    <3> QED BY <3>4 DEF k, sm
  <2> QED BY <1>1, <2>1, <2>3, <2>4
<1> QED BY <1>3, <1>4, <1>9, <1>10

-----------------------------------------------------------------------------
(* What the low half of a register does not show                           *)

\* x ends in j zeros.
Multiple(x0, j) == \E i \in Nat : x0 = i * Pow10[j]

\* The low half of a register holds a mantissa, and the numbers that addsub
\* could mistake for zero in it do not occur: the power that a short quotient
\* leaves, and a rest of a number of the format.
HalfSees ==
  /\ Pow10[P] <= Half /\ Pow10[D-1] % Half # 0
  /\ \A t \in 1..(Pow10[2*P-1] - 1) : t % Pow10[D-P] = 0 => t % Half # 0

\* Of two aligned operands one is a number of the format, and the other may be
\* a product.
Tails(m, sm) == Multiple(m, D - 2*P) /\ (Multiple(m, D - P) \/ Multiple(sm, D - P))

LEMMA MultipleMod ==
  ASSUME NEW x0, NEW j \in 0..MaxShift, Multiple(x0, j)
  PROVE  x0 \in Nat /\ x0 % Pow10[j] = 0
<1> DEFINE y == Pow10[j]
<1>1. PICK i \in Nat : x0 = i * y
  BY DEF Multiple
<1>2. y \in Nat \ {0}
  BY PowerType
<1> HIDE DEF y
<1>3. x0 \in Nat /\ x0 = i * y + 0 /\ 0 \in 0..(y - 1) /\ i \in Int
  BY <1>1, <1>2
<1>4. x0 \div y = i /\ x0 % y = 0
  BY <1>2, <1>3, DivModUnique
<1> QED BY <1>3, <1>4 DEF y

LEMMA NotMultiple ==
  ASSUME NEW y \in Nat \ {0}, NEW w \in Nat, w # 0, w < y, NEW c \in Int, NEW e \in Int
  PROVE  c * y + w # e * y
<1> SUFFICES ASSUME c * y + w = e * y PROVE FALSE
  OBVIOUS
<1> DEFINE g == e - c
<1>1. g \in Int /\ g * y = w
  <2>1. (e - c) * y = (e * y) - (c * y) /\ e * y \in Int /\ c * y \in Int
    OBVIOUS
  <2> QED BY <2>1
<1> HIDE DEF g
<1>2. CASE g <= 0
  <2>1. g * y <= 0
    BY <1>1, <1>2
  <2> QED BY <1>1, <2>1
<1>3. CASE g >= 1
  <2>1. 1 * y <= g * y
    BY <1>1, <1>3, TimesMonotonic
  <2> QED BY <1>1, <2>1
<1> QED BY <1>1, <1>2, <1>3

LEMMA HiddenBuried ==
  ASSUME Room, HalfSees, NEW m \in Nat, NEW k \in 2..D,
         NEW t \in Nat, t # 0, t < Pow10[k - 1], t % Half = 0,
         NEW w \in Nat, w # 0, w <= Pow10[D - k],
         Multiple(m, D - 2*P), Multiple(m, D - P) \/ Multiple(t, D - P),
         NEW v \in Nat, v = m + w \/ m = v + w
  PROVE  v % Pow10[D - P - 1] # 0
<1>1. /\ P \in Nat /\ P > 1 /\ D \in Nat /\ 2 * P + 2 <= D
      /\ MaxShift \in Nat /\ D + 2 <= MaxShift /\ Half \in Nat \ {0}
  BY RegisterFacts, WordFacts
<1>2. Pow10[P] <= t
  <2>1. Pow10[P] \in Nat /\ Pow10[P] <= Half
    BY <1>1, PowerType DEF HalfSees
  <2>2. Half <= t
    <3> SUFFICES ASSUME t < Half PROVE FALSE
      BY <1>1
    <3>1. t % Half = t
      BY <1>1, ModSmall
    <3> QED BY <3>1
  <2> QED BY <1>1, <2>1, <2>2
<1>3. P + 2 <= k
  <2>1. P \in 0..MaxShift /\ k - 1 \in 0..MaxShift
    BY <1>1
  <2>2. Pow10[P] \in Nat /\ Pow10[k - 1] \in Nat
    BY <2>1, PowerType
  <2>3. Pow10[P] < Pow10[k - 1]
    BY <1>2, <2>2
  <2>4. P < k - 1
    BY <2>1, <2>3, PowerOrder
  <2> QED BY <1>1, <2>4
<1>4. \E j \in 0..(D - P - 1) : Multiple(m, j) /\ w < Pow10[j]
  <2>1. CASE Multiple(m, D - P)
    <3> DEFINE j == D - P - 1
    <3>1. j \in 0..MaxShift /\ D - k \in 0..MaxShift /\ D - k < j /\ j < MaxShift /\ j + 1 = D - P
      BY <1>1, <1>3
    <3> HIDE DEF j
    <3>2. Pow10[D - k] < Pow10[j] /\ Pow10[D - k] \in Nat /\ Pow10[j] \in Nat
      <4>1. Pow10[j] \in Nat \ {0} /\ Pow10[D - k] \in Nat \ {0} /\ 10 * Pow10[D - k] <= Pow10[j]
        BY <3>1, PowerType, PowerOrder
      <4> QED BY <4>1
    <3>3. Pow10[D - P] = 10 * Pow10[j]
      BY <3>1, PowerStep
    <3>4. PICK i \in Nat : m = i * Pow10[D - P]
      BY <2>1 DEF Multiple
    <3>5. m = (10 * i) * Pow10[j] /\ 10 * i \in Nat
      <4>1. i * (10 * Pow10[j]) = (10 * i) * Pow10[j]
        BY <3>2
      <4> QED BY <3>3, <3>4, <4>1
    <3>6. Multiple(m, j)
      BY <3>5 DEF Multiple
    <3>7. w < Pow10[j]
      BY <3>2
    <3>8. j \in 0..(D - P - 1)
      BY <1>1, <3>1 DEF j
    <3> QED BY <3>6, <3>7, <3>8
  <2>2. CASE Multiple(t, D - P)
    <3>1. k > 2 * P
      <4> SUFFICES ASSUME k <= 2 * P PROVE FALSE
        BY <1>1
      <4>1. k - 1 \in 0..MaxShift /\ 2 * P - 1 \in 0..MaxShift /\ k - 1 <= 2 * P - 1 /\ D - P \in 0..MaxShift
        BY <1>1
      <4>2. Pow10[k - 1] <= Pow10[2 * P - 1] /\ Pow10[k - 1] \in Nat /\ Pow10[2 * P - 1] \in Nat
            /\ Pow10[D - P] \in Nat \ {0}
        BY <4>1, PowerType, PowerOrder
      <4>3. t \in 1..(Pow10[2 * P - 1] - 1)
        BY <4>2
      <4>4. t % Pow10[D - P] = 0
        BY <2>2, <4>1, MultipleMod
      <4> QED BY <4>3, <4>4 DEF HalfSees
    <3> DEFINE j == D - 2*P
    <3>2. j \in 0..MaxShift /\ D - k \in 0..MaxShift /\ D - k < j /\ j \in 0..(D - P - 1)
      BY <1>1, <3>1
    <3>3. Multiple(m, j)
      OBVIOUS
    <3> HIDE DEF j
    <3>4. w < Pow10[j]
      <4>1. Pow10[j] \in Nat \ {0} /\ Pow10[D - k] \in Nat \ {0} /\ 10 * Pow10[D - k] <= Pow10[j]
        BY <3>2, PowerType, PowerOrder
      <4> QED BY <4>1
    <3> QED BY <3>2, <3>3, <3>4
  <2> QED BY <2>1, <2>2
<1>5. PICK j \in 0..(D - P - 1) : Multiple(m, j) /\ w < Pow10[j]
  BY <1>4
<1> DEFINE z == Pow10[D - P - 1]
           y == Pow10[j]
<1>6. PICK h \in Nat : z = y * h
  <2>1. j \in 0..MaxShift /\ D - P - 1 \in 0..MaxShift /\ j <= D - P - 1
    BY <1>1
  <2>2. PICK a \in 0..MaxShift : Pow10[D - P - 1] = Pow10[j] * Pow10[a]
    BY <2>1, PowerFactor
  <2>3. Pow10[a] \in Nat
    BY PowerType
  <2> QED BY <2>2, <2>3
<1>7. PICK i \in Nat : m = i * y
  BY <1>5 DEF Multiple
<1>8. y \in Nat \ {0} /\ z \in Nat \ {0} /\ w < y
  <2>1. j \in 0..MaxShift /\ D - P - 1 \in 0..MaxShift
    BY <1>1
  <2> QED BY <1>5, <2>1, PowerType
<1> HIDE DEF z, y
<1>9. ASSUME v % z = 0 PROVE FALSE
  <2>1. v \div z \in Nat /\ ((v \div z) * z) + (v % z) = v
    BY <1>8, DivMod
  <2> DEFINE a == v \div z
  <2> HIDE DEF a
  <2>2. a \in Nat /\ (a * z) + 0 = v
    BY <1>9, <2>1 DEF a
  <2>3. v = (a * h) * y /\ a * h \in Nat
    <3>1. a * (y * h) = (a * h) * y /\ a * h \in Nat /\ (a * h) * y \in Nat
      BY <1>6, <1>8, <2>2
    <3> DEFINE p == (a * h) * y
    <3>2. a * z = p /\ p \in Nat
      BY <1>6, <3>1
    <3> HIDE DEF p
    <3>3. v = p
      BY <2>2, <3>2
    <3> QED BY <3>1, <3>3 DEF p
  <2> DEFINE e == a * h
  <2>4. e \in Int /\ i \in Int /\ v = e * y
    BY <2>3
  <2> HIDE DEF e
  <2>5. CASE v = m + w
    <3>1. i * y + w = e * y
      BY <1>7, <2>4, <2>5
    <3> QED BY <1>8, <2>4, <3>1, NotMultiple
  <2>6. CASE m = v + w
    <3>1. e * y + w = i * y
      BY <1>7, <2>4, <2>6
    <3> QED BY <1>8, <2>4, <3>1, NotMultiple
  <2> QED BY <2>5, <2>6
<1> QED BY <1>9 DEF z

\* The first digit of a rest is a digit, and it is zero for another rest than
\* zero only where the low half of a register does not show it.
LEMMA FirstDigitSees ==
  ASSUME Room, HalfSees, NEW k \in 1..D, NEW r \in Nat, r < Pow10[k]
  PROVE  /\ FirstDigit(r, k - 1) \in 0..9
         /\ r = 0 => FirstDigit(r, k - 1) = 0
         /\ r # 0 /\ FirstDigit(r, k - 1) = 0 => k \in 2..D /\ r < Pow10[k - 1] /\ r % Half = 0
<1>1. /\ P \in Nat /\ P > 1 /\ D \in Nat /\ 2 * P + 2 <= D
      /\ MaxShift \in Nat /\ D + 2 <= MaxShift /\ Half \in Nat \ {0}
  BY RegisterFacts, WordFacts
<1> DEFINE y == Pow10[k - 1]
           a == r \div y
           t == r % y
           d == RecipDiv(r, k - 1)
           g == FirstDigit(r, k - 1)
<1>2. k - 1 \in 0..MaxShift /\ k \in 1..MaxShift
  BY <1>1
<1>3. y \in Nat \ {0} /\ Pow10[k] = 10 * y
  BY <1>2, PowerType, DecimalAssumption
<1>4. /\ ~Short(r, k - 1) => d = a
      /\ Short(r, k - 1) => d = a - 1
  BY <1>2, Reciprocal
<1>5. Short(r, k - 1) => k = D /\ r > 0 /\ t = 0 /\ y % Half # 0
  <2>1. ASSUME Short(r, k - 1) PROVE k - 1 = D - 1 /\ k = D /\ r > 0 /\ t = 0
    BY <1>1, <2>1 DEF Short
  <2>2. ASSUME Short(r, k - 1) PROVE y % Half # 0
    BY <2>1, <2>2 DEF HalfSees
  <2> QED BY <2>1, <2>2
<1>6. g = IF k - 1 = 0 THEN r
          ELSE IF d \in {0, 5} /\ (r - d * y) % Half # 0 THEN d + 1 ELSE d
  BY DEF FirstDigit
<1>7. k = 1 => y = 1
  BY DecimalAssumption
<1> HIDE DEF y, d, g
<1>8. a \in Nat /\ t \in 0..(y - 1) /\ (a * y) + t = r
  BY <1>3, DivMod
<1> HIDE DEF a, t
<1>9. a \in 0..9
  <2> SUFFICES ASSUME a >= 10 PROVE FALSE
    BY <1>8
  <2>1. 10 * y <= a * y /\ a * y \in Nat
    BY <1>3, <1>8, TimesMonotonic
  <2> QED BY <1>3, <1>8, <2>1
<1>10. CASE k = 1
  <2>1. g = r /\ r < 10
    BY <1>3, <1>6, <1>7, <1>10
  <2> QED BY <2>1 DEF g
<1>11. CASE k # 1 /\ ~Short(r, k - 1)
  <2>1. d = a /\ k \in 2..D /\ ~(k - 1 = 0)
    BY <1>1, <1>4, <1>11
  <2>2. g = IF a \in {0, 5} /\ (r - a * y) % Half # 0 THEN a + 1 ELSE a
    BY <1>6, <2>1
  <2>3. g \in 0..9
    <3> DEFINE b == (r - a * y) % Half # 0
    <3> HIDE DEF b
    <3>1. g = IF a \in {0, 5} /\ b THEN a + 1 ELSE a
      BY <2>2 DEF b
    <3> QED BY <1>9, <3>1
  <2>4. a = 0 => r - a * y = r /\ r < y
    BY <1>3, <1>8
  <2>5. r = 0 => a = 0 /\ 0 % Half = 0
    <3> SUFFICES ASSUME r = 0 PROVE a = 0 /\ 0 % Half = 0
      OBVIOUS
    <3>1. a # 0 => 1 * y <= a * y /\ a * y \in Nat
      BY <1>3, <1>8, TimesMonotonic
    <3>2. 0 % Half = 0
      BY <1>1
    <3> QED BY <1>3, <1>8, <3>1, <3>2
  <2>6. r = 0 => g = 0
    BY <2>2, <2>4, <2>5
  <2>7. r # 0 /\ g = 0 => r < y /\ r % Half = 0
    <3> SUFFICES ASSUME g = 0 PROVE r < y /\ r % Half = 0
      OBVIOUS
    <3>1. a = 0
      BY <1>9, <2>2
    <3> QED BY <2>2, <2>4, <3>1
  <2> QED BY <2>1, <2>3, <2>6, <2>7 DEF g, y
<1>12. CASE k # 1 /\ Short(r, k - 1)
  <2>1. d = a - 1 /\ r > 0 /\ t = 0 /\ y % Half # 0 /\ ~(k - 1 = 0)
    BY <1>1, <1>4, <1>5, <1>12
  <2>2. a >= 1
    <3>1. a = 0 => a * y = 0
      BY <1>3
    <3> QED BY <1>8, <1>9, <2>1, <3>1
  <2>3. r - d * y = y
    <3>1. (a - 1) * y = (a * y) - y /\ a * y \in Nat
      BY <1>3, <1>8
    <3> DEFINE p == a * y
    <3> HIDE DEF p
    <3>2. d * y = p - y /\ p = r
      BY <1>3, <1>8, <2>1, <3>1 DEF p
    <3> QED BY <1>3, <3>2
  <2>4. g = IF d \in {0, 5} THEN d + 1 ELSE d
    BY <1>6, <2>1, <2>3
  <2>5. g \in 1..9
    BY <1>9, <2>1, <2>2, <2>4
  <2> QED BY <2>1, <2>5 DEF g
<1> QED BY <1>10, <1>11, <1>12

\* What falls out of a number that ends in j zeros ends in j zeros.
LEMMA RestMultiple ==
  ASSUME NEW sm \in Nat, NEW j \in 0..MaxShift, Multiple(sm, j),
         NEW k \in 0..MaxShift, sm % Pow10[k] # 0
  PROVE  Multiple(sm % Pow10[k], j) /\ Multiple(Pow10[k] - (sm % Pow10[k]), j)
<1>0. MaxShift \in Nat
  BY DecimalAssumption
<1>1. j <= k
  <2> SUFFICES ASSUME k < j PROVE FALSE
    BY <1>0
  <2>1. PICK a \in 0..MaxShift : Pow10[j] = Pow10[k] * Pow10[a]
    BY <1>0, PowerFactor
  <2>2. PICK i \in Nat : sm = i * Pow10[j]
    BY DEF Multiple
  <2>3. Pow10[k] \in Nat /\ Pow10[a] \in Nat
    BY PowerType
  <2>4. i * (Pow10[k] * Pow10[a]) = (i * Pow10[a]) * Pow10[k] /\ i * Pow10[a] \in Nat
    BY <2>3
  <2>5. Multiple(sm, k)
    BY <2>1, <2>2, <2>4 DEF Multiple
  <2> QED BY <2>5, MultipleMod
<1>2. PICK b \in 0..MaxShift : Pow10[k] = Pow10[j] * Pow10[b]
  BY <1>1, PowerFactor
<1>3. PICK i \in Nat : sm = i * Pow10[j]
  BY DEF Multiple
<1> DEFINE p == Pow10[k]
           y == Pow10[j]
           a == Pow10[b]
           q == sm \div p
           r == sm % p
<1>4. p \in Nat \ {0} /\ y \in Nat \ {0} /\ a \in Nat \ {0} /\ p = y * a /\ sm = i * y
  BY <1>2, <1>3, PowerType
<1> HIDE DEF p, y, a
<1>5. q \in Nat /\ r \in 0..(p - 1) /\ (q * p) + r = sm
  BY <1>4, DivMod
<1> HIDE DEF q, r
<1> DEFINE e == i - q * a
           h == a - e
<1>6. e \in Int /\ r = e * y
  <2>1. q * (y * a) = (q * a) * y /\ q * a \in Nat
    BY <1>4, <1>5
  <2>2. (i - q * a) * y = (i * y) - ((q * a) * y) /\ (q * a) * y \in Nat /\ i * y \in Nat
    BY <1>4, <2>1
  <2> DEFINE x1 == (q * a) * y
             x2 == i * y
             x3 == (i - q * a) * y
             x4 == q * p
  <2>3. x4 = x1 /\ x3 = x2 - x1 /\ x1 \in Nat /\ x2 \in Nat /\ x4 + r = x2
    BY <1>4, <1>5, <2>1, <2>2
  <2>4. r \in Nat
    BY <1>4, <1>5
  <2>5. r = x3
    <3> HIDE DEF x1, x2, x3, x4
    <3> QED BY <2>3, <2>4
  <2> QED BY <2>1, <2>5
<1> HIDE DEF e
<1>7. e \in Nat
  <2>1. e <= -1 => e * y <= -1 * y
    <3> SUFFICES ASSUME e <= -1 PROVE e * y <= -1 * y
      OBVIOUS
    <3>1. 1 * y <= (-e) * y
      BY <1>4, <1>6, TimesMonotonic
    <3>2. (-e) * y = -(e * y) /\ e * y \in Int
      BY <1>4, <1>6
    <3> QED BY <1>4, <3>1, <3>2
  <2> QED BY <1>4, <1>5, <1>6, <2>1
<1>8. h \in Nat /\ p - r = h * y
  <2>1. (a - e) * y = (a * y) - (e * y) /\ a * y = y * a /\ a * y \in Nat /\ e * y \in Nat
    BY <1>4, <1>7
  <2>2. p - r = h * y
    <3> DEFINE x1 == a * y
               x2 == e * y
               x3 == (a - e) * y
    <3>1. x3 = x1 - x2 /\ x1 = p /\ x2 = r
      BY <1>4, <1>6, <2>1
    <3> HIDE DEF x1, x2, x3
    <3>2. p - r = x3
      BY <3>1
    <3> QED BY <3>2 DEF x3
  <2>3. e <= a
    <3> SUFFICES ASSUME a <= e PROVE e <= a
      BY <1>4, <1>7
    <3>1. a * y <= e * y
      BY <1>4, <1>7, TimesMonotonic
    <3> QED BY <1>4, <1>5, <1>6, <2>1, <3>1
  <2> QED BY <1>4, <1>7, <2>2, <2>3
<1> HIDE DEF h
<1>9. Multiple(r, j) /\ Multiple(p - r, j)
  BY <1>6, <1>7, <1>8 DEF Multiple, y
<1> QED BY <1>9 DEF r, p

\* A rest that the first digit does not show.
HalfZero(r, k) == k \in 2..D /\ r # 0 /\ r < Pow10[k - 1] /\ r % Half = 0

\* f thousandths are of the class of the rest r of k digits.
Shows(f, r, k) == f \in 0..999 /\ Fraction(f, 1000) = Fraction(r, Pow10[k])

\* The first digit of a rest beside the thousandths of the same class.
LEMMA DigitOutcome ==
  ASSUME Room, HalfSees, NEW k \in 1..D, NEW r \in Nat, r < Pow10[k],
         NEW f, Shows(f, r, k)
  PROVE  LET g == FirstDigit(r, k - 1)
         IN  /\ g \in 0..9 /\ (f = 0 <=> r = 0)
             /\ (f = 0 <=> g % 16 = 0) \/ HalfZero(r, k)
             /\ ~Short(r, k - 1) /\ ~Hides(r, k) => Fraction(f, 1000) = RemClass(g)
<1>1. D \in Nat /\ MaxShift \in Nat /\ D + 2 <= MaxShift
  BY RegisterFacts
<1>7. f \in 0..999 /\ Fraction(f, 1000) = Fraction(r, Pow10[k])
  BY DEF Shows
<1>2. k \in 0..MaxShift /\ Pow10[k] \in Nat \ {0}
  <2>1. k \in 0..MaxShift
    BY <1>1
  <2> QED BY <2>1, PowerType
<1> DEFINE g == FirstDigit(r, k - 1)
           p == Pow10[k]
<1>3. f = 0 <=> r = 0
  <2> HIDE DEF p
  <2>1. p \in Nat \ {0} /\ Fraction(f, 1000) = Fraction(r, p) /\ r \in Int
    BY <1>2, <1>7 DEF p
  <2>2. Fraction(f, 1000) = "EXACT" <=> f = 0
    BY <1>7, FractionMeaning
  <2>3. Fraction(r, p) = "EXACT" <=> r = 0
    BY <2>1, FractionMeaning
  <2> QED BY <2>1, <2>2, <2>3
<1>4. /\ g \in 0..9 /\ (r = 0 => g = 0)
      /\ r # 0 /\ g = 0 => k \in 2..D /\ r < Pow10[k - 1] /\ r % Half = 0
  BY FirstDigitSees
<1>5. ~Short(r, k - 1) /\ ~Hides(r, k) => Fraction(f, 1000) = RemClass(g)
  <2> SUFFICES ASSUME ~Short(r, k - 1), ~Hides(r, k) PROVE Fraction(f, 1000) = RemClass(g)
    OBVIOUS
  <2>1. g = DroppedDigit(r, k)
    BY FirstDigitRight
  <2>2. RemClass(DroppedDigit(r, k)) = Fraction(r, Pow10[k])
    BY <1>2, DropClass
  <2> QED BY <1>7, <2>1, <2>2
<1> HIDE DEF g
<1>6. (f = 0 <=> g % 16 = 0) \/ HalfZero(r, k)
  <2>1. g % 16 = g
    BY <1>4
  <2> QED BY <1>3, <1>4, <2>1 DEF HalfZero
<1> QED BY <1>3, <1>4, <1>5, <1>6 DEF g

\* Where the digit shows nothing the sum has other digits that scale cuts off.
Buried(w) == w % 10 # 0 \/ (Pow10[D - 1] <= w /\ w % Pow10[D - P - 1] # 0)

LEMMA HalfZeroBuried ==
  ASSUME Room, HalfSees, NEW m, IsLeft(m), NEW sm, IsLeft(sm), Tails(m, sm), NEW k \in 1..D
  PROVE  LET q == sm \div Pow10[k]
             t == sm % Pow10[k]
         IN  /\ HalfZero(t, k) => (m + q) % Pow10[D - P - 1] # 0
             /\ t # 0 /\ HalfZero(Pow10[k] - t, k) /\ (m - q) - 1 \in Nat =>
                  ((m - q) - 1) % Pow10[D - P - 1] # 0
<1>1. /\ P \in Nat /\ P > 1 /\ D \in Nat /\ 2 * P + 2 <= D
      /\ MaxShift \in Nat /\ D + 2 <= MaxShift
  BY RegisterFacts
<1> DEFINE p == Pow10[k]
           q == sm \div p
           t == sm % p
           z == Pow10[D - k]
           c == p - t
<1>2. /\ m \in Nat /\ sm \in Nat /\ Pow10[D - 1] <= sm /\ sm < Pow10[D]
      /\ k \in 0..MaxShift /\ D - k \in 0..MaxShift /\ D - P \in 0..MaxShift
      /\ p \in Nat \ {0} /\ z \in Nat \ {0} /\ Pow10[D] = z * p
  <2>1. k \in 0..MaxShift /\ D - k \in 0..MaxShift /\ D - P \in 0..MaxShift /\ (D - k) + k = D /\ k \in Nat
        /\ D - k \in Nat
    BY <1>1
  <2>2. Pow10[(D - k) + k] = z * p
    <3>1. (D - k) + k <= MaxShift
      BY <1>1, <2>1
    <3> QED BY <2>1, <3>1, PowerSum
  <2> QED BY <2>1, <2>2, PowerType DEF IsLeft
<1>3. ASSUME t # 0, Multiple(sm, D - P) PROVE Multiple(t, D - P) /\ Multiple(c, D - P)
  BY <1>2, <1>3, RestMultiple
<1>4. Multiple(m, D - 2*P) /\ (Multiple(m, D - P) \/ Multiple(sm, D - P))
  BY DEF Tails
<1> HIDE DEF p, z
<1>5. q \in Nat /\ t \in 0..(p - 1) /\ (q * p) + t = sm
  BY <1>2, DivMod
<1> HIDE DEF q, t
<1>6. q + 1 <= z
  <2> SUFFICES ASSUME z <= q PROVE FALSE
    BY <1>2, <1>5
  <2>1. z * p <= q * p /\ q * p \in Nat
    BY <1>2, <1>5, TimesMonotonic
  <2> QED BY <1>2, <1>5, <2>1
<1>7. ASSUME HalfZero(t, k) PROVE (m + q) % Pow10[D - P - 1] # 0
  <2>1. k \in 2..D /\ t # 0 /\ t < Pow10[k - 1] /\ t % Half = 0 /\ t \in Nat
    BY <1>5, <1>7 DEF HalfZero
  <2>2. q # 0
    <3> SUFFICES ASSUME q = 0 PROVE FALSE
      OBVIOUS
    <3>1. q * p = 0
      BY <1>2
    <3>2. k - 1 \in 0..MaxShift /\ D - 1 \in 0..MaxShift /\ k - 1 <= D - 1
      BY <1>1
    <3>3. Pow10[k - 1] <= Pow10[D - 1] /\ Pow10[k - 1] \in Nat /\ Pow10[D - 1] \in Nat
      BY <3>2, PowerOrder, PowerType
    <3> QED BY <1>2, <1>5, <2>1, <3>1, <3>3
  <2>3. q <= Pow10[D - k] /\ q \in Nat /\ m + q \in Nat
    BY <1>2, <1>5, <1>6 DEF z
  <2>4. Multiple(m, D - P) \/ Multiple(t, D - P)
    BY <1>3, <1>4, <2>1
  <2> DEFINE v == m + q
  <2>5. v \in Nat /\ v = m + q
    BY <2>3
  <2> HIDE DEF v
  <2>6. v % Pow10[D - P - 1] # 0
    BY <1>2, <1>4, <2>1, <2>2, <2>3, <2>4, <2>5, HiddenBuried
  <2> QED BY <2>6 DEF v
<1>8. ASSUME t # 0, HalfZero(c, k), (m - q) - 1 \in Nat PROVE ((m - q) - 1) % Pow10[D - P - 1] # 0
  <2>1. k \in 2..D /\ c # 0 /\ c < Pow10[k - 1] /\ c % Half = 0 /\ c \in Nat
    <3>1. c \in Nat
      BY <1>2, <1>5
    <3> HIDE DEF c
    <3> QED BY <1>8, <3>1 DEF HalfZero
  <2>3. q + 1 <= Pow10[D - k] /\ q + 1 \in Nat /\ q + 1 # 0
    BY <1>5, <1>6 DEF z
  <2>4. Multiple(m, D - P) \/ Multiple(c, D - P)
    BY <1>3, <1>4, <1>8
  <2> DEFINE v == (m - q) - 1
             w == q + 1
  <2>5. v \in Nat /\ m = v + w /\ w \in Nat /\ w # 0 /\ w <= Pow10[D - k]
    BY <1>2, <1>5, <1>8, <2>3
  <2> HIDE DEF v, w, c
  <2>6. v % Pow10[D - P - 1] # 0
    BY <1>2, <1>4, <2>1, <2>4, <2>5, HiddenBuried
  <2> QED BY <2>6 DEF v
<1> QED BY <1>7, <1>8 DEF q, t, p

-----------------------------------------------------------------------------
(* What addsub hands to scale                                              *)

\* n thousandths are m and f of u parts.  All parts can be there at once, where
\* the short reciprocal left them.  The remainder shows that there are some, or
\* the digits of m do that scale cuts off.
LeftOver(m, rem, u, n, f) ==
  /\ n = (m * u) + f /\ f <= u
  /\ f = u => m % 10 # 9
  /\ f # 0 => Pow10[D - 2] <= m
  /\ (f = 0 <=> rem % 16 = 0) \/ (f # 0 /\ Buried(m))

Handed(y, rem, b, n) ==
  /\ InRegister(y) /\ rem \in Nat /\ b \in Int
  /\ y.exp \in {b, b + 1} /\ (y.exp = b + 1 => y.mant < Pow10[D])
  /\ \E f \in Nat : LeftOver(y.mant, rem, Pow10[y.exp - (b - 3)], n, f)

\* The remainder is honest.
Truthful(y, rem, b, n) ==
  LET u == Pow10[y.exp - (b - 3)] IN Fraction(n - (y.mant * u), u) = RemClass(rem)

\* A sum w at the exponent of the larger operand, and its thousandths.
Plain(w, b, s, rem, f, n) ==
  /\ w \in Nat /\ w < Word /\ b \in Int /\ s \in {-1, 1} /\ rem \in Nat
  /\ f \in 0..1000 /\ n = (1000 * w) + f
  /\ f = 1000 => w % 10 # 9
  /\ f # 0 => Pow10[D - 2] <= w
  /\ (f = 0 <=> rem % 16 = 0) \/ (f # 0 /\ Buried(w))

LEMMA HandedPlain ==
  ASSUME Room, NEW w, NEW b, NEW s, NEW rem, NEW f, NEW n, Plain(w, b, s, rem, f, n)
  PROVE  /\ Handed(Number(w, b, s), rem, b, n)
         /\ Fraction(f, 1000) = RemClass(rem) => Truthful(Number(w, b, s), rem, b, n)
<1> DEFINE y == Number(w, b, s)
           u == Pow10[y.exp - (b - 3)]
<1>6. /\ w \in Nat /\ w < Word /\ b \in Int /\ s \in {-1, 1} /\ rem \in Nat
      /\ f \in 0..1000 /\ n = (1000 * w) + f
  BY DEF Plain
<1>1. y \in Impl /\ y.mant = w /\ y.exp = b /\ y.special = "NUMBER"
  BY <1>6 DEF Number, Impl, Sign, Special
<1> HIDE DEF y
<1>2. u = 1000
  <2>1. y.exp - (b - 3) = 3
    BY <1>1, <1>6
  <2> QED BY <2>1, SmallPowers
<1> HIDE DEF u
<1>3. LeftOver(y.mant, rem, u, n, f)
  <2>1. n = (w * 1000) + f /\ f <= 1000
    BY <1>6
  <2>2. LeftOver(w, rem, 1000, n, f)
    BY <2>1 DEF LeftOver, Plain
  <2> QED BY <1>1, <1>2, <2>2
<1>4. Handed(y, rem, b, n)
  <2>1. InRegister(y)
    BY <1>1, <1>6 DEF InRegister
  <2>2. y.exp # b + 1
    BY <1>1, <1>6
  <2>3. f \in Nat
    BY <1>6
  <2>4. \E h \in Nat : LeftOver(y.mant, rem, u, n, h)
    BY <1>3, <2>3
  <2> QED BY <1>1, <1>6, <2>1, <2>2, <2>4 DEF Handed, u
<1>5. Fraction(f, 1000) = RemClass(rem) => Truthful(y, rem, b, n)
  <2>1. n - (y.mant * u) = f
    BY <1>1, <1>2, <1>6
  <2>2. Truthful(y, rem, b, n) <=> Fraction(n - (y.mant * u), u) = RemClass(rem)
    BY DEF Truthful, u
  <2> QED BY <1>2, <2>1, <2>2
<1> QED BY <1>4, <1>5 DEF y

\* A carry out of the register drops a digit, which is its own remainder.
LEMMA HandedCarry ==
  ASSUME Room, NEW t \in Nat, t < 2 * Pow10[D], Word <= t, NEW b \in Int, NEW s \in {-1, 1},
         NEW n, n = 1000 * t
  PROVE  /\ Handed(Number(t \div 10, b + 1, s), t % 10, b, n)
         /\ Truthful(Number(t \div 10, b + 1, s), t % 10, b, n)
<1> DEFINE w == t \div 10
           r == t % 10
           y == Number(w, b + 1, s)
           u == Pow10[y.exp - (b - 3)]
           f == 1000 * r
<1>1. /\ Word \in Nat /\ 11 * Pow10[D - 1] <= Word /\ Pow10[D] = 10 * Pow10[D - 1] /\ Pow10[D - 1] = 10 * Pow10[D - 2]
      /\ Pow10[D - 2] \in Nat \ {0} /\ Pow10[D - 1] \in Nat
  BY WordFacts
<1>2. w \in Nat /\ r \in 0..9 /\ (w * 10) + r = t
  <2>1. w \in Nat /\ r \in 0..(10 - 1) /\ (w * 10) + r = t
    <3>1. 10 \in Nat \ {0}
      OBVIOUS
    <3> QED BY <3>1, DivMod
  <2> QED BY <2>1
<1> HIDE DEF w, r
<1>3. w < Pow10[D] /\ w < Word /\ Pow10[D - 2] <= w
  BY <1>1, <1>2
<1>4. y \in Impl /\ y.mant = w /\ y.exp = b + 1 /\ y.special = "NUMBER"
  BY <1>2 DEF Number, Impl, Sign, Special
<1> HIDE DEF y
<1>5. u = 10000
  <2>1. y.exp - (b - 3) = 4
    BY <1>4
  <2> QED BY <2>1, SmallPowers
<1> HIDE DEF u
<1>6. f \in Nat /\ n = (w * u) + f /\ f < u /\ (f = 0 <=> r = 0)
  BY <1>2, <1>5
<1>7. r % 16 = r
  BY <1>2
<1>12. /\ f = 0 <=> r = 0
       /\ 2 * f < u <=> r < 5
       /\ 2 * f = u <=> r = 5
  BY <1>2, <1>5
<1> HIDE DEF f
<1>13. u \in Nat /\ w * u \in Nat
  BY <1>2, <1>5
<1>8. LeftOver(y.mant, r, u, n, f)
  <2>1. f = 0 <=> r % 16 = 0
    BY <1>7, <1>12
  <2>2. f # u /\ f <= u
    BY <1>6, <1>13
  <2>3. LeftOver(w, r, u, n, f)
    BY <1>3, <1>6, <2>1, <2>2 DEF LeftOver
  <2> QED BY <1>4, <2>3
<1>9. Handed(y, r, b, n)
  <2>1. InRegister(y)
    BY <1>3, <1>4 DEF InRegister
  <2>2. \E h \in Nat : LeftOver(y.mant, r, u, n, h)
    BY <1>6, <1>8
  <2> QED BY <1>2, <1>3, <1>4, <2>1, <2>2 DEF Handed, u
<1>10. Fraction(f, u) = RemClass(r)
  <2>1. u \in Nat \ {0}
    BY <1>5
  <2>2. CASE r = 0
    BY <1>6, <1>7, <1>12, <2>1, <2>2, FractionMeaning DEF RemClass
  <2>3. CASE r \in 1..4
    BY <1>6, <1>7, <1>12, <2>1, <2>3, FractionMeaning DEF RemClass
  <2>4. CASE r = 5
    BY <1>6, <1>7, <1>12, <2>1, <2>4, FractionMeaning DEF RemClass
  <2>5. CASE r \in 6..9
    BY <1>6, <1>7, <1>12, <2>1, <2>5, FractionMeaning DEF RemClass
  <2> QED BY <1>2, <2>2, <2>3, <2>4, <2>5
<1>11. Truthful(y, r, b, n)
  <2>1. n - (y.mant * u) = f
    <3>1. n - (w * u) = f
      BY <1>6, <1>13
    <3> QED BY <1>4, <3>1
  <2>2. Truthful(y, r, b, n) <=> Fraction(n - (y.mant * u), u) = RemClass(r)
    BY DEF Truthful, u
  <2> QED BY <1>10, <2>1, <2>2
<1> QED BY <1>9, <1>11 DEF y, w, r

\* The first digit of the rest t of sm after k places is its class.
Seen(sm, t, k) == ~Short(sm, k) /\ ~(k = D /\ t % Pow10[D - 1] = 0) /\ ~Hides(t, k)

\* Places of the larger operand below those of a product are zeros.
LEMMA TailsTen ==
  ASSUME Room, NEW m, NEW sm, Tails(m, sm)
  PROVE  \E j \in Nat : m = 10 * j
<1>1. /\ P \in Nat /\ P > 1 /\ D \in Nat /\ 2 * P + 2 <= D
      /\ MaxShift \in Nat /\ D + 2 <= MaxShift
  BY RegisterFacts
<1>2. PICK i \in Nat : m = i * Pow10[D - 2*P]
  BY DEF Tails, Multiple
<1>3. 1 \in 0..MaxShift /\ D - 2*P \in 0..MaxShift /\ 1 <= D - 2*P
  BY <1>1
<1>4. PICK a \in 0..MaxShift : Pow10[D - 2*P] = Pow10[1] * Pow10[a]
  BY <1>3, PowerFactor
<1>5. Pow10[1] = 10 /\ Pow10[a] \in Nat
  BY PowerType, SmallPowers
<1>6. i * (10 * Pow10[a]) = 10 * (i * Pow10[a]) /\ i * Pow10[a] \in Nat
  BY <1>5
<1> QED BY <1>2, <1>4, <1>5, <1>6

\* Nothing is cut off without a shift.
LEMMA NoShift ==
  ASSUME NEW sm \in Nat
  PROVE  sm \div Pow10[0] = sm /\ sm % Pow10[0] = 0
<1>1. Pow10[0] = 1
  BY DecimalAssumption
<1>2. 0 \in 0..(1 - 1) /\ sm = sm * 1 + 0
  OBVIOUS
<1>3. sm \div 1 = sm /\ sm % 1 = 0
  BY <1>2, DivModUnique
<1> QED BY <1>1, <1>3

\* A quotient of the table, and its thousandths.
CutParts(m, sm, k, c, p, q, t) ==
  /\ p \in Nat \ {0} /\ q \in Nat /\ t \in Nat /\ t < p /\ (q * p) + t = sm /\ q < Pow10[D - 1]
  /\ \E f \in 0..999 : c = (1000 * q) + f /\ Fraction(f, 1000) = Fraction(t, p)
  /\ ~Short(sm, k) => RecipDiv(sm, k) = q /\ m + q < Word
  /\ Short(sm, k) => /\ k = D - 1 /\ t = 0 /\ q \in 1..9
                     /\ RecipDiv(sm, k) = q - 1 /\ (m + q) - 1 < Word

LEMMA QuotientCut ==
  ASSUME Room, NEW m, IsLeft(m), NEW sm, IsLeft(sm), NEW k \in 1..D, NEW c, CutAt(c, sm, k)
  PROVE  CutParts(m, sm, k, c, Pow10[k], sm \div Pow10[k], sm % Pow10[k])
<1>1. /\ P \in Nat /\ P > 1 /\ D \in Nat /\ 2 * P + 2 <= D
      /\ MaxShift \in Nat /\ D + 2 <= MaxShift
  BY RegisterFacts
<1> DEFINE p == Pow10[k]
           q == sm \div p
           t == sm % p
<1>2. p \in Nat \ {0} /\ sm \in Nat /\ k \in 0..MaxShift
  <2>1. k \in 0..MaxShift
    BY <1>1
  <2> QED BY <2>1, PowerType DEF IsLeft
<1>3. RecipDiv(sm, k) \in Nat /\ q < Pow10[D - 1]
  BY QuotientBound
<1>4. /\ ~Short(sm, k) => RecipDiv(sm, k) = q
      /\ Short(sm, k) => RecipDiv(sm, k) = q - 1
  BY <1>2, Reciprocal
<1>5. m + RecipDiv(sm, k) < Word
  BY QuotientFits
<1>6. Thousandths(c, q, Fraction(t, p))
  <2>1. ~(k > D)
    BY <1>1
  <2> QED BY <2>1 DEF CutAt
<1>7. \E f \in 0..999 : c = (1000 * q) + f /\ Fraction(f, 1000) = Fraction(t, p)
  <2> DEFINE h == Fraction(t, p)
  <2> HIDE DEF h, q
  <2>1. \E f \in 0..999 : c = 1000 * q + f /\ Fraction(f, 1000) = h
    BY <1>6 DEF Thousandths, h
  <2> QED BY <2>1 DEF h
<1>8. Short(sm, k) => k = D - 1 /\ t = 0
  BY DEF Short
<1> HIDE DEF p
<1>9. q \in Nat /\ t \in Nat /\ t < p /\ (q * p) + t = sm
  <2>1. q \in Nat /\ t \in 0..(p - 1) /\ (q * p) + t = sm
    BY <1>2, DivMod
  <2> HIDE DEF q, t
  <2> QED BY <1>2, <2>1
<1>10. ASSUME Short(sm, k) PROVE q \in 1..9
  <2> HIDE DEF q, t
  <2>1. p = Pow10[D - 1] /\ t = 0
    BY <1>8, <1>10 DEF p
  <2>2. Pow10[D - 1] <= sm /\ sm < Pow10[D] /\ Pow10[D] = 10 * Pow10[D - 1]
    BY WordFacts DEF IsLeft
  <2>3. q * p = sm /\ p <= sm /\ sm < 10 * p
    BY <1>2, <1>9, <2>1, <2>2
  <2>4. q # 0
    <3> SUFFICES ASSUME q = 0 PROVE FALSE
      OBVIOUS
    <3>1. q * p = 0
      BY <1>2
    <3> QED BY <1>2, <2>3, <3>1
  <2>5. q < 10
    <3> SUFFICES ASSUME 10 <= q PROVE FALSE
      BY <1>9
    <3>1. 10 * p <= q * p
      BY <1>2, <1>9, TimesMonotonic
    <3> QED BY <1>2, <2>3, <3>1
  <2> QED BY <1>9, <2>4, <2>5
<1> HIDE DEF q, t
<1>11. Short(sm, k) => (m + q) - 1 < Word
  <2> SUFFICES ASSUME Short(sm, k) PROVE (m + q) - 1 < Word
    OBVIOUS
  <2>1. RecipDiv(sm, k) = q - 1 /\ m \in Nat
    BY <1>4 DEF IsLeft
  <2> QED BY <1>5, <1>9, <2>1
<1>12. CutParts(m, sm, k, c, p, q, t)
  BY <1>2, <1>3, <1>4, <1>5, <1>7, <1>8, <1>9, <1>10, <1>11 DEF CutParts
<1> QED BY <1>12 DEF p, q, t

\* The digit of a short quotient's rest, which is the whole divisor.
LEMMA ShortDigit ==
  ASSUME Room
  PROVE  FirstDigit(Pow10[D - 1], D - 2) = 10
<1>1. /\ P \in Nat /\ P > 1 /\ D \in Nat /\ 2 * P + 2 <= D
      /\ MaxShift \in Nat /\ D + 2 <= MaxShift
  BY RegisterFacts
<1>2. D - 2 \in 0..MaxShift /\ D - 2 # D - 1 /\ D - 2 # 0
  BY <1>1
<1>3. Pow10[D - 2] \in Nat \ {0} /\ Pow10[D - 1] = 10 * Pow10[D - 2] /\ Pow10[D - 1] \in Nat
  BY WordFacts
<1> DEFINE x1 == Pow10[D - 1]
           y1 == Pow10[D - 2]
<1>4. x1 \div y1 = 10
  <2> HIDE DEF x1, y1
  <2>1. y1 \in Nat \ {0} /\ x1 = 10 * y1 + 0 /\ x1 \in Nat /\ 0 \in 0..(y1 - 1)
    BY <1>3 DEF x1, y1
  <2> QED BY <2>1, DivModUnique
<1>5. RecipDiv(x1, D - 2) = 10
  <2>1. ~Short(x1, D - 2)
    BY <1>2 DEF Short
  <2>2. RecipDiv(x1, D - 2) = x1 \div Pow10[D - 2]
    BY <1>2, <1>3, <2>1, Reciprocal
  <2> QED BY <1>4, <2>2
<1> HIDE DEF x1
<1>6. FirstDigit(x1, D - 2) = 10
  BY <1>2, <1>5 DEF FirstDigit
<1> QED BY <1>6 DEF x1

\* The exact sum in thousandths.
Total(n, m, c) == n = (1000 * m) + c

\* An addition.
LEMMA AddOutcome ==
  ASSUME Room, HalfSees, NEW m, IsLeft(m), NEW sm, IsLeft(sm), Tails(m, sm),
         NEW b \in Int, NEW e \in Int, e <= b, NEW c \in Nat, CutAt(c, sm, b - e),
         NEW s \in {-1, 1}, NEW n, Total(n, m, c)
  PROVE  LET r == AddMant([m |-> m, e |-> b], [m |-> sm, e |-> e], s)
             k == b - e
         IN  /\ Handed(r.x, r.rem, b, n)
             /\ k \in 1..D /\ Seen(sm, sm % Pow10[k], k) => Truthful(r.x, r.rem, b, n)
             /\ k \notin 1..D => Truthful(r.x, r.rem, b, n)
<1>1. /\ P \in Nat /\ P > 1 /\ D \in Nat /\ 2 * P + 2 <= D
      /\ MaxShift \in Nat /\ D + 2 <= MaxShift
  BY RegisterFacts
<1>2. /\ Word \in Nat /\ Pow10[D] = 10 * Pow10[D - 1] /\ Pow10[D - 1] = 10 * Pow10[D - 2]
      /\ Pow10[D - 2] \in Nat \ {0} /\ Pow10[D - 1] \in Nat /\ 11 * Pow10[D - 1] <= Word
  BY WordFacts
<1>3. m \in Nat /\ Pow10[D - 1] <= m /\ m < Pow10[D] /\ sm \in Nat /\ Pow10[D - 1] <= sm /\ sm < Pow10[D]
  BY DEF IsLeft
<1>12. n = (1000 * m) + c
  BY DEF Total
<1>4. m < Word /\ Pow10[D - 2] <= m /\ n \in Nat
  BY <1>2, <1>3, <1>12
<1> DEFINE k == b - e
           g == RecipDiv(sm, k)
           r == AddMant([m |-> m, e |-> b], [m |-> sm, e |-> e], s)
<1>5. k \in Nat
  OBVIOUS
<1>6. r = IF k > D THEN Sum(m, b, s, 1)
          ELSE IF k = 0
          THEN IF m + sm >= Word THEN Sum((m + sm) \div 10, b + 1, s, (m + sm) % 10)
               ELSE Sum(m + sm, b, s, 0)
          ELSE Sum(m + g, b, s, FirstDigit(sm - g * Pow10[k], k - 1))
  BY DEF AddMant
<1>7. CutAt(c, sm, k)
  OBVIOUS
<1> HIDE DEF r, k, g
<1>8. CASE k > D
  <2>1. r.x = Number(m, b, s) /\ r.rem = 1
    BY <1>6, <1>8 DEF Sum
  <2>2. c \in 1..499
    <3>1. ~(k \in 0..D)
      BY <1>1, <1>5, <1>8
    <3> QED BY <1>7, <3>1 DEF CutAt
  <2>3. RemClass(1) = "BELOW" /\ Fraction(c, 1000) = "BELOW"
    BY <2>2 DEF RemClass, Fraction
  <2>4. /\ Handed(Number(m, b, s), 1, b, n)
        /\ Fraction(c, 1000) = RemClass(1) => Truthful(Number(m, b, s), 1, b, n)
    <3>1. c \in 0..1000 /\ c # 0 /\ c # 1000 /\ 1 % 16 # 0
      BY <2>2
    <3>2. Plain(m, b, s, 1, c, n)
      BY <1>12, <1>3, <1>4, <3>1 DEF Plain
    <3> QED BY <3>2, HandedPlain
  <2>5. k \notin 1..D
    BY <1>1, <1>5, <1>8
  <2> QED BY <2>1, <2>3, <2>4, <2>5 DEF k, r
<1>9. CASE k = 0
  <2>1. c = 1000 * sm
    <3>1. Thousandths(c, sm \div Pow10[k], Fraction(sm % Pow10[k], Pow10[k]))
      BY <1>1, <1>7, <1>9 DEF CutAt
    <3>2. sm \div Pow10[k] = sm /\ sm % Pow10[k] = 0 /\ Pow10[k] = 1
      BY <1>3, <1>9, NoShift, DecimalAssumption
    <3>3. Fraction(0, 1) = "EXACT"
      BY DEF Fraction
    <3>4. Thousandths(c, sm, "EXACT")
      BY <3>1, <3>2, <3>3
    <3>5. PICK f \in 0..999 : c = 1000 * sm + f /\ Fraction(f, 1000) = "EXACT"
      BY <3>4 DEF Thousandths
    <3>6. f = 0
      BY <3>5, FractionMeaning
    <3> QED BY <1>3, <3>5, <3>6
  <2> DEFINE t == m + sm
  <2>2. t \in Nat /\ n = 1000 * t /\ t < 2 * Pow10[D]
    BY <1>12, <1>2, <1>3, <2>1
  <2>3. ~(k > D) /\ k \notin 1..D
    BY <1>1, <1>9
  <2>4. CASE Word <= t
    <3>1. r.x = Number(t \div 10, b + 1, s) /\ r.rem = t % 10
      BY <1>2, <1>6, <1>9, <2>2, <2>3, <2>4 DEF Sum
    <3> HIDE DEF t
    <3>2. Handed(r.x, r.rem, b, n) /\ Truthful(r.x, r.rem, b, n)
      BY <2>2, <2>4, <3>1, HandedCarry
    <3> QED BY <2>3, <3>2 DEF k, r
  <2>5. CASE ~(Word <= t)
    <3>1. r.x = Number(t, b, s) /\ r.rem = 0
      BY <1>2, <1>6, <1>9, <2>2, <2>3, <2>5 DEF Sum
    <3>2. t < Word
      BY <1>2, <2>2, <2>5
    <3> HIDE DEF t
    <3>3. 0 \in 0..1000 /\ 0 % 16 = 0 /\ n = (1000 * t) + 0 /\ n \in Nat
      BY <2>2
    <3>4. /\ Handed(Number(t, b, s), 0, b, n)
          /\ Fraction(0, 1000) = RemClass(0) => Truthful(Number(t, b, s), 0, b, n)
      <4>1. Plain(t, b, s, 0, 0, n)
        BY <2>2, <3>2, <3>3 DEF Plain
      <4> QED BY <4>1, HandedPlain
    <3>5. Fraction(0, 1000) = RemClass(0)
      BY DEF Fraction, RemClass
    <3> QED BY <2>3, <3>1, <3>4, <3>5 DEF k, r
  <2> QED BY <2>4, <2>5
<1>10. CASE k \in 1..D
  <2> DEFINE p == Pow10[k]
             q == sm \div p
             t == sm % p
  <2>7. CutParts(m, sm, k, c, p, q, t)
    BY <1>7, <1>10, QuotientCut
  <2>2. r.x = Number(m + g, b, s) /\ r.rem = FirstDigit(sm - (g * p), k - 1)
    BY <1>1, <1>6, <1>10 DEF Sum
  <2>3. /\ HalfZero(t, k) => (m + q) % Pow10[D - P - 1] # 0
    BY <1>10, HalfZeroBuried
  <2> HIDE DEF p, q, t
  <2>1. /\ p \in Nat \ {0} /\ q \in Nat /\ t \in Nat /\ t < p /\ (q * p) + t = sm /\ q < Pow10[D - 1]
        /\ \E f \in 0..999 : c = (1000 * q) + f /\ Fraction(f, 1000) = Fraction(t, p)
        /\ ~Short(sm, k) => g = q /\ m + q < Word
        /\ Short(sm, k) => k = D - 1 /\ t = 0 /\ q \in 1..9 /\ g = q - 1 /\ (m + q) - 1 < Word
    BY <2>7 DEF CutParts, g
  <2>4. PICK f \in 0..999 : c = (1000 * q) + f /\ Fraction(f, 1000) = Fraction(t, p)
    BY <2>1
  <2>5. CASE Short(sm, k)
    <3>1. k = D - 1 /\ t = 0 /\ q \in 1..9 /\ g = q - 1 /\ (m + q) - 1 < Word /\ p = Pow10[D - 1]
      BY <2>1, <2>5 DEF p
    <3>2. sm - (g * p) = p
      <4>1. (q - 1) * p = (q * p) - p /\ q * p \in Nat
        BY <2>1
      <4> QED BY <1>3, <2>1, <3>1, <4>1
    <3>3. r.rem = 10
      <4>1. k - 1 = D - 2
        BY <1>1, <3>1
      <4> QED BY <2>2, <3>1, <3>2, <4>1, ShortDigit
    <3>4. f = 0
      <4>1. Fraction(t, p) = "EXACT"
        BY <2>1, <3>1, FractionMeaning
      <4> QED BY <2>4, <4>1, FractionMeaning
    <3> DEFINE w == m + g
    <3>5. w \in Nat /\ w < Word /\ n = (1000 * w) + 1000 /\ Pow10[D - 2] <= w
      <4>1. w = (m + q) - 1 /\ c = 1000 * q /\ q - 1 \in Nat
        BY <1>3, <2>4, <3>1, <3>4
      <4> QED BY <1>12, <1>2, <1>3, <1>4, <3>1, <4>1
    <3>6. w % 10 # 9
      <4>1. PICK j \in Nat : m = 10 * j
        BY TailsTen
      <4>2. w = j * 10 + (q - 1) /\ q - 1 \in 0..(10 - 1)
        BY <3>1, <4>1
      <4> HIDE DEF w
      <4> QED BY <3>1, <4>2
    <3> HIDE DEF w
    <3>7. Handed(Number(w, b, s), 10, b, n)
      <4>1. 1000 \in 0..1000 /\ 10 % 16 # 0 /\ 10 \in Nat
        OBVIOUS
      <4>2. Plain(w, b, s, 10, 1000, n)
        BY <3>5, <3>6, <4>1 DEF Plain
      <4> QED BY <4>2, HandedPlain
    <3>8. ~Seen(sm, sm % Pow10[k], k)
      BY <2>5 DEF Seen
    <3> QED BY <1>10, <2>2, <3>3, <3>7, <3>8 DEF w, k, r
  <2>6. CASE ~Short(sm, k)
    <3>1. g = q /\ m + q < Word
      BY <2>1, <2>6
    <3>2. sm - (g * p) = t
      <4>1. q * p \in Nat
        BY <2>1
      <4> QED BY <1>3, <2>1, <3>1, <4>1
    <3> DEFINE d == FirstDigit(t, k - 1)
               w == m + q
    <3>3. r.x = Number(w, b, s) /\ r.rem = d
      BY <2>2, <3>1, <3>2
    <3>4. /\ d \in 0..9 /\ (f = 0 <=> t = 0)
          /\ (f = 0 <=> d % 16 = 0) \/ HalfZero(t, k)
          /\ ~Short(t, k - 1) /\ ~Hides(t, k) => Fraction(f, 1000) = RemClass(d)
      <4>1. t \in Nat /\ t < Pow10[k] /\ Shows(f, t, k)
        BY <2>1, <2>4 DEF p, Shows
      <4> HIDE DEF d
      <4> QED BY <1>10, <4>1, DigitOutcome DEF d
    <3> HIDE DEF d
    <3>5. w \in Nat /\ w < Word /\ n = (1000 * w) + f /\ Pow10[D - 1] <= w /\ Pow10[D - 2] <= w
      BY <1>12, <1>2, <1>3, <2>1, <2>4, <3>1
    <3> HIDE DEF w
    <3>6. (f = 0 <=> d % 16 = 0) \/ (f # 0 /\ Buried(w))
      BY <2>3, <3>4, <3>5 DEF HalfZero, Buried, w
    <3>7. /\ Handed(Number(w, b, s), d, b, n)
          /\ Fraction(f, 1000) = RemClass(d) => Truthful(Number(w, b, s), d, b, n)
      <4>1. f \in 0..1000 /\ f # 1000 /\ d \in Nat
        BY <3>4
      <4>2. Plain(w, b, s, d, f, n)
        BY <3>5, <3>6, <4>1 DEF Plain
      <4> QED BY <4>2, HandedPlain
    <3>8. ASSUME Seen(sm, sm % Pow10[k], k) PROVE Fraction(f, 1000) = RemClass(d)
      <4>1. ~Short(t, k - 1)
        <5> SUFFICES ASSUME Short(t, k - 1) PROVE FALSE
          OBVIOUS
        <5>1. k - 1 = D - 1 /\ t % Pow10[k - 1] = 0
          BY DEF Short
        <5>2. k = D /\ t % Pow10[D - 1] = 0
          BY <1>1, <1>5, <5>1
        <5> QED BY <3>8, <5>2 DEF Seen, t, p
      <4>2. ~Hides(t, k)
        BY <3>8 DEF Seen, t, p
      <4> QED BY <3>4, <4>1, <4>2
    <3> QED BY <1>10, <3>3, <3>7, <3>8 DEF k, r
  <2> QED BY <2>5, <2>6
<1> QED BY <1>1, <1>5, <1>8, <1>9, <1>10

\* The rest of the division, as the code has it, and the digits that a difference
\* is left with after the borrow.
Borrows(m, sm, k) ==
  LET q == RecipDiv(sm, k)
  IN  sm - q * Pow10[k] # 0 => Pow10[D - 1] <= (m - q) - 1

\* The exact difference in thousandths.
Difference(n, m, c) == n = IF 1000 * m >= c THEN (1000 * m) - c ELSE c - (1000 * m)

\* A subtraction that reclaims no digit.
LEMMA SubOutcome ==
  ASSUME Room, HalfSees, NEW m, IsLeft(m), NEW sm, IsLeft(sm), Tails(m, sm),
         NEW b \in Int, NEW e \in Int, e <= b, NEW c \in Nat, CutAt(c, sm, b - e),
         NEW s \in {-1, 1}, NEW n, Difference(n, m, c),
         b - e \in 1..D => Borrows(m, sm, b - e)
  PROVE  LET r == SubMant([m |-> m, e |-> b], [m |-> sm, e |-> e], s)
             k == b - e
         IN  /\ Handed(r.x, r.rem, b, n)
             /\ k \in 1..D /\ Seen(sm, Pow10[k] - (sm % Pow10[k]), k) => Truthful(r.x, r.rem, b, n)
             /\ k = 0 => Truthful(r.x, r.rem, b, n)
<1>1. /\ P \in Nat /\ P > 1 /\ D \in Nat /\ 2 * P + 2 <= D
      /\ MaxShift \in Nat /\ D + 2 <= MaxShift
  BY RegisterFacts
<1>2. /\ Word \in Nat /\ Pow10[D] = 10 * Pow10[D - 1] /\ Pow10[D - 1] = 10 * Pow10[D - 2]
      /\ Pow10[D - 2] \in Nat \ {0} /\ Pow10[D - 1] \in Nat /\ 11 * Pow10[D - 1] <= Word
      /\ Half \in Nat \ {0}
  BY WordFacts
<1>3. m \in Nat /\ Pow10[D - 1] <= m /\ m < Pow10[D] /\ sm \in Nat /\ Pow10[D - 1] <= sm /\ sm < Pow10[D]
  BY DEF IsLeft
<1>4. m < Word /\ Pow10[D - 2] <= m - 1 /\ n \in Nat /\ m - 1 \in Nat
  BY <1>2, <1>3 DEF Difference
<1> DEFINE k == b - e
           g == RecipDiv(sm, k)
           rest0 == sm - g * Pow10[k]
           r == SubMant([m |-> m, e |-> b], [m |-> sm, e |-> e], s)
<1>5. k \in Nat
  OBVIOUS
<1>6. r = IF k > D THEN Sum(m - 1, b, s, sm % Half)
          ELSE IF k = 0
          THEN IF m >= sm THEN Sum(m - sm, b, s, 0) ELSE Sum(sm - m, b, -s, 0)
          ELSE IF rest0 = 0 THEN Sum(m - g, b, s, 0)
          ELSE IF (m - g) - 1 >= Pow10[D - 1]
          THEN Sum((m - g) - 1, b, s, FirstDigit(Pow10[k] - rest0, k - 1))
          ELSE Sum((((m - g) - 1) * 10 + (Pow10[k] - rest0)) % Word, b - 1, s, 0)
  BY DEF SubMant
<1>7. CutAt(c, sm, k)
  OBVIOUS
<1>11. k \in 1..D => (rest0 # 0 => Pow10[D - 1] <= (m - g) - 1)
  BY DEF Borrows
<1> HIDE DEF r, k, g, rest0
<1>8. CASE k > D
  <2>1. r.x = Number(m - 1, b, s) /\ r.rem = sm % Half
    BY <1>6, <1>8 DEF Sum
  <2>2. c \in 1..499
    <3>1. ~(k \in 0..D)
      BY <1>1, <1>5, <1>8
    <3> QED BY <1>7, <3>1 DEF CutAt
  <2>3. sm % Half \in Nat
    <3>1. sm % Half \in 0..(Half - 1)
      BY <1>2, <1>3, DivMod
    <3> QED BY <1>2, <3>1
  <2>4. (m - 1) % 10 = 9
    <3>1. PICK j \in Nat : m = 10 * j
      BY TailsTen
    <3> QED BY <1>4, <3>1
  <2> DEFINE f == 1000 - c
             w == m - 1
             z == sm % Half
  <2>5. f \in 0..1000 /\ f # 0 /\ f # 1000 /\ n = (1000 * w) + f
    <3>1. 1000 * m >= c
      BY <1>3, <1>4, <2>2
    <3> QED BY <1>3, <2>2, <3>1 DEF Difference
  <2> HIDE DEF f, z
  <2>6. Plain(w, b, s, z, f, n)
    <3>1. w < Word /\ w \in Nat /\ z \in Nat
      BY <1>2, <1>3, <1>4, <2>3 DEF z
    <3>2. Buried(w)
      BY <2>4 DEF Buried
    <3> QED BY <1>4, <2>5, <3>1, <3>2 DEF Plain
  <2>7. Handed(Number(w, b, s), z, b, n)
    BY <2>6, HandedPlain
  <2>8. k \notin 1..D /\ k # 0
    BY <1>1, <1>5, <1>8
  <2> QED BY <2>1, <2>7, <2>8 DEF k, r, z
<1>9. CASE k = 0
  <2>1. c = 1000 * sm
    <3>1. Thousandths(c, sm \div Pow10[k], Fraction(sm % Pow10[k], Pow10[k]))
      BY <1>1, <1>7, <1>9 DEF CutAt
    <3>2. sm \div Pow10[k] = sm /\ sm % Pow10[k] = 0 /\ Pow10[k] = 1
      BY <1>3, <1>9, NoShift, DecimalAssumption
    <3>3. Fraction(0, 1) = "EXACT"
      BY DEF Fraction
    <3>4. Thousandths(c, sm, "EXACT")
      BY <3>1, <3>2, <3>3
    <3>5. PICK f \in 0..999 : c = 1000 * sm + f /\ Fraction(f, 1000) = "EXACT"
      BY <3>4 DEF Thousandths
    <3>6. f = 0
      BY <3>5, FractionMeaning
    <3> QED BY <1>3, <3>5, <3>6
  <2>2. ~(k > D) /\ k \notin 1..D
    BY <1>1, <1>9
  <2>3. PICK w \in Nat, t \in {-1, 1} :
           r.x = Number(w, b, t) /\ r.rem = 0 /\ w < Word /\ n = 1000 * w
    <3>1. CASE m >= sm
      <4>1. r.x = Number(m - sm, b, s) /\ r.rem = 0
        BY <1>6, <1>9, <2>2, <3>1 DEF Sum
      <4>2. m - sm \in Nat /\ m - sm < Word /\ n = 1000 * (m - sm)
        BY <1>2, <1>3, <1>4, <2>1, <3>1 DEF Difference
      <4> QED BY <4>1, <4>2
    <3>2. CASE ~(m >= sm)
      <4>1. r.x = Number(sm - m, b, -s) /\ r.rem = 0
        BY <1>6, <1>9, <2>2, <3>2 DEF Sum
      <4>2. sm - m \in Nat /\ sm - m < Word /\ n = 1000 * (sm - m) /\ -s \in {-1, 1}
        BY <1>2, <1>3, <1>4, <2>1, <3>2 DEF Difference
      <4> QED BY <4>1, <4>2
    <3> QED BY <3>1, <3>2
  <2>4. 0 \in 0..1000 /\ 0 % 16 = 0 /\ n = (1000 * w) + 0
    BY <2>3
  <2>5. Plain(w, b, t, 0, 0, n)
    BY <2>3, <2>4 DEF Plain
  <2>6. Fraction(0, 1000) = RemClass(0)
    BY DEF Fraction, RemClass
  <2>7. Handed(Number(w, b, t), 0, b, n) /\ Truthful(Number(w, b, t), 0, b, n)
    BY <2>5, <2>6, HandedPlain
  <2> QED BY <2>2, <2>3, <2>7 DEF k, r
<1>10. CASE k \in 1..D
  <2> DEFINE p == Pow10[k]
             q == sm \div p
             t == sm % p
  <2>7. CutParts(m, sm, k, c, p, q, t)
    BY <1>7, <1>10, QuotientCut
  <2>3. t # 0 /\ HalfZero(p - t, k) /\ (m - q) - 1 \in Nat => ((m - q) - 1) % Pow10[D - P - 1] # 0
    BY <1>10, HalfZeroBuried
  <2> HIDE DEF p, q, t
  <2>1. /\ p \in Nat \ {0} /\ q \in Nat /\ t \in Nat /\ t < p /\ (q * p) + t = sm /\ q < Pow10[D - 1]
        /\ \E f \in 0..999 : c = (1000 * q) + f /\ Fraction(f, 1000) = Fraction(t, p)
        /\ ~Short(sm, k) => g = q /\ m + q < Word
        /\ Short(sm, k) => k = D - 1 /\ t = 0 /\ q \in 1..9 /\ g = q - 1 /\ (m + q) - 1 < Word
    BY <2>7 DEF CutParts, g
  <2>4. PICK f \in 0..999 : c = (1000 * q) + f /\ Fraction(f, 1000) = Fraction(t, p)
    BY <2>1
  <2>8. rest0 = sm - (g * p) /\ ~(k > D) /\ k # 0 /\ (rest0 # 0 => Pow10[D - 1] <= (m - g) - 1)
    BY <1>1, <1>10, <1>11 DEF rest0, p
  <2>9. n = (1000 * m) - c /\ q < m
    <3>1. q < m
      BY <1>2, <1>3, <2>1
    <3>2. 1000 * m >= c
      BY <1>3, <2>1, <2>4, <3>1
    <3> QED BY <3>1, <3>2 DEF Difference
  <2>10. t = 0 => f = 0
    <3> SUFFICES ASSUME t = 0 PROVE f = 0
      OBVIOUS
    <3>1. Fraction(t, p) = "EXACT"
      BY <2>1, FractionMeaning
    <3> QED BY <2>4, <3>1, FractionMeaning
  <2>11. ASSUME t = 0, r.x = Number(m - q, b, s), r.rem = 0
         PROVE  Handed(r.x, r.rem, b, n) /\ Truthful(r.x, r.rem, b, n)
    <3> DEFINE w == m - q
    <3>1. w \in Nat /\ w < Word /\ n = (1000 * w) + 0
      <4>1. c = 1000 * q
        BY <2>1, <2>4, <2>10, <2>11
      <4>2. q \in Nat /\ m \in Nat /\ q < m /\ n = (1000 * m) - c /\ m < Word
        BY <1>3, <1>4, <2>1, <2>9
      <4> QED BY <1>2, <4>1, <4>2
    <3>2. 0 \in 0..1000 /\ 0 % 16 = 0
      OBVIOUS
    <3> HIDE DEF w
    <3>3. Plain(w, b, s, 0, 0, n)
      BY <3>1, <3>2 DEF Plain
    <3>4. Fraction(0, 1000) = RemClass(0)
      BY DEF Fraction, RemClass
    <3>5. Handed(Number(w, b, s), 0, b, n) /\ Truthful(Number(w, b, s), 0, b, n)
      BY <3>3, <3>4, HandedPlain
    <3> QED BY <2>11, <3>5 DEF w
  <2>5. CASE Short(sm, k)
    <3>1. k = D - 1 /\ t = 0 /\ q \in 1..9 /\ g = q - 1
      BY <2>1, <2>5
    <3>2. rest0 = p
      <4>1. (q - 1) * p = (q * p) - p /\ q * p \in Nat
        BY <2>1
      <4> QED BY <1>3, <2>1, <2>8, <3>1, <4>1
    <3>3. (m - g) - 1 = m - q /\ Pow10[D - 1] <= (m - g) - 1 /\ p # 0
      BY <1>3, <2>1, <2>8, <3>1, <3>2
    <3>4. r.x = Number(m - q, b, s) /\ r.rem = FirstDigit(p - rest0, k - 1)
      <4>1. r = Sum((m - g) - 1, b, s, FirstDigit(p - rest0, k - 1))
        BY <1>2, <1>3, <1>6, <2>1, <2>8, <3>1, <3>2, <3>3 DEF p
      <4> QED BY <3>3, <4>1 DEF Sum
    <3>5. p - rest0 = 0
      BY <2>1, <3>2
    <3>6. FirstDigit(0, k - 1) = 0
      <4>1. 0 < Pow10[k] /\ 0 \in Nat
        BY <2>1 DEF p
      <4> QED BY <1>10, <4>1, FirstDigitSees
    <3>7. Handed(r.x, r.rem, b, n) /\ Truthful(r.x, r.rem, b, n)
      BY <2>11, <3>1, <3>4, <3>5, <3>6
    <3> QED BY <2>8, <3>7 DEF k, r
  <2>6. CASE ~Short(sm, k)
    <3>1. g = q /\ rest0 = t
      <4>1. q * p \in Nat /\ g = q
        BY <2>1, <2>6
      <4> QED BY <1>3, <2>1, <2>8, <4>1
    <3>2. CASE t = 0
      <4>1. r.x = Number(m - q, b, s) /\ r.rem = 0
        BY <1>6, <2>8, <3>1, <3>2 DEF Sum
      <4>2. Handed(r.x, r.rem, b, n) /\ Truthful(r.x, r.rem, b, n)
        BY <2>11, <3>2, <4>1
      <4> QED BY <2>8, <4>2 DEF k, r
    <3>3. CASE t # 0
      <4> DEFINE w == (m - q) - 1
                 a == p - t
                 d == FirstDigit(a, k - 1)
                 h == 1000 - f
      <4>1. Pow10[D - 1] <= w /\ w \in Nat /\ w < Word /\ Pow10[D - 2] <= w
        BY <1>2, <1>3, <1>4, <2>1, <2>8, <3>1, <3>3
      <4>2. r.x = Number(w, b, s) /\ r.rem = d
        <5>1. r = Sum((m - g) - 1, b, s, FirstDigit(p - rest0, k - 1))
          BY <1>2, <1>6, <2>8, <3>1, <3>3, <4>1 DEF p
        <5> QED BY <3>1, <5>1 DEF Sum
      <4>3. f # 0 /\ Fraction(h, 1000) = Fraction(a, p) /\ a \in Nat /\ a < p /\ a # 0 /\ h \in 1..999
        <5>1. f # 0 /\ Fraction(1000 - f, 1000) = Fraction(p - t, p)
          <6>1. 0 <= t /\ t < p /\ t \in Int /\ f \in Int /\ 1000 \in Nat \ {0}
            BY <2>1
          <6> QED BY <2>1, <2>4, <3>3, <6>1, MirrorClass
        <5> QED BY <2>1, <3>3, <5>1
      <4> HIDE DEF a, d, h
      <4>4. /\ d \in 0..9 /\ (h = 0 <=> a = 0)
            /\ (h = 0 <=> d % 16 = 0) \/ HalfZero(a, k)
            /\ ~Short(a, k - 1) /\ ~Hides(a, k) => Fraction(h, 1000) = RemClass(d)
        <5>1. a \in Nat /\ a < Pow10[k] /\ Shows(h, a, k)
          BY <4>3 DEF p, Shows
        <5> QED BY <1>10, <5>1, DigitOutcome DEF d
      <4>5. n = (1000 * w) + h
        BY <1>3, <2>1, <2>4, <2>9 DEF h
      <4> HIDE DEF w
      <4>6. (h = 0 <=> d % 16 = 0) \/ (h # 0 /\ Buried(w))
        <5>1. HalfZero(a, k) => w % Pow10[D - P - 1] # 0
          BY <2>3, <3>3, <4>1 DEF a, w
        <5> QED BY <4>1, <4>3, <4>4, <5>1 DEF Buried
      <4>7. Plain(w, b, s, d, h, n)
        <5>1. h \in 0..1000 /\ h # 1000 /\ d \in Nat
          BY <4>3, <4>4
        <5> QED BY <4>1, <4>5, <4>6, <5>1 DEF Plain
      <4>8. /\ Handed(Number(w, b, s), d, b, n)
            /\ Fraction(h, 1000) = RemClass(d) => Truthful(Number(w, b, s), d, b, n)
        BY <4>7, HandedPlain
      <4>9. ASSUME Seen(sm, p - t, k) PROVE Fraction(h, 1000) = RemClass(d)
        <5>1. ~Short(a, k - 1)
          <6> SUFFICES ASSUME Short(a, k - 1) PROVE FALSE
            OBVIOUS
          <6>1. k - 1 = D - 1 /\ a % Pow10[k - 1] = 0
            BY DEF Short
          <6>2. k = D /\ a % Pow10[D - 1] = 0
            BY <1>1, <1>5, <6>1
          <6> QED BY <4>9, <6>2 DEF Seen, a
        <5>2. ~Hides(a, k)
          BY <4>9 DEF Seen, a
        <5> QED BY <4>4, <5>1, <5>2
      <4>10. Seen(sm, Pow10[k] - (sm % Pow10[k]), k) => Truthful(r.x, r.rem, b, n)
        BY <4>2, <4>8, <4>9 DEF p, t
      <4> QED BY <2>8, <4>2, <4>8, <4>10 DEF k, r
    <3> QED BY <3>2, <3>3
  <2> QED BY <2>5, <2>6
<1> QED BY <1>1, <1>5, <1>8, <1>9, <1>10

\* An aligned operand ends in the zeros that it was given.
LEMMA LeftMultiple ==
  ASSUME Room, NEW a, Addend(a), NEW j \in 1..(2*P), a.mant < Pow10[j]
  PROVE  Multiple(LeftMant(a), D - j)
<1>1. /\ P \in Nat /\ P > 1 /\ D \in Nat /\ 2 * P + 2 <= D
      /\ MaxShift \in Nat /\ D + 2 <= MaxShift
  BY RegisterFacts
<1> DEFINE d == Digits(a.mant)
<1>2. a.mant \in Nat \ {0} /\ IsDigits(d, a.mant) /\ d \in 1..(D - 2)
  BY AddendDigits
<1> HIDE DEF d
<1>3. d <= j
  <2> SUFFICES ASSUME j < d PROVE FALSE
    BY <1>1, <1>2
  <2>1. Pow10[d - 1] <= a.mant /\ j \in 0..MaxShift /\ d - 1 \in 0..MaxShift /\ j <= d - 1
    BY <1>1, <1>2 DEF IsDigits
  <2>2. Pow10[j] <= Pow10[d - 1] /\ Pow10[j] \in Nat /\ Pow10[d - 1] \in Nat
    BY <2>1, PowerOrder, PowerType
  <2> QED BY <1>2, <2>1, <2>2
<1>4. D - j \in 0..MaxShift /\ D - d \in 0..MaxShift /\ D - j <= D - d
  BY <1>1, <1>2, <1>3
<1>5. PICK i \in 0..MaxShift : Pow10[D - d] = Pow10[D - j] * Pow10[i]
  BY <1>4, PowerFactor
<1>6. Pow10[i] \in Nat /\ Pow10[D - j] \in Nat
  BY <1>4, PowerType
<1>7. a.mant * (Pow10[D - j] * Pow10[i]) = (a.mant * Pow10[i]) * Pow10[D - j] /\ a.mant * Pow10[i] \in Nat
  BY <1>2, <1>6
<1>8. LeftMant(a) = (a.mant * Pow10[i]) * Pow10[D - j]
  BY <1>5, <1>7 DEF LeftMant, d
<1> QED BY <1>7, <1>8 DEF Multiple

\* A sum or a difference of two aligned operands, as BidAddSub chooses.
Combined(same, g, h, o) == IF same THEN AddMant(g, h, o) ELSE SubMant(g, h, o)

\* The digit that addsub returns shows what it stands for.
Shown(sm, k, same) ==
  /\ k > D => same
  /\ k \in 1..D => Seen(sm, IF same THEN sm % Pow10[k] ELSE Pow10[k] - (sm % Pow10[k]), k)

LEMMA PairOutcome ==
  ASSUME Room, HalfSees, NEW l, NEW t, NEW v, Larger(l, t, v),
         Tails(LeftMant(l), LeftMant(t)), NEW o \in {-1, 1},
         NEW same \in BOOLEAN, same <=> l.sign = t.sign,
         ~same /\ LeftExp(l) - LeftExp(t) \in 1..D =>
            Borrows(LeftMant(l), LeftMant(t), LeftExp(l) - LeftExp(t))
  PROVE  LET b == LeftExp(l)
             r == Combined(same, [m |-> LeftMant(l), e |-> b], [m |-> LeftMant(t), e |-> LeftExp(t)], o)
         IN  \E n \in Nat :
               /\ OnGrid(v, b - 3, n) /\ Handed(r.x, r.rem, b, n)
               /\ Shown(LeftMant(t), b - LeftExp(t), same) => Truthful(r.x, r.rem, b, n)
<1> DEFINE b == LeftExp(l)
           e == LeftExp(t)
           m == LeftMant(l)
           sm == LeftMant(t)
           r == Combined(same, [m |-> m, e |-> b], [m |-> sm, e |-> e], o)
<1>1. Aligned(l, t, b, m) /\ v \in {ExactSum(l, Near(l, t)), ExactSum(Near(l, t), l)}
  BY DEF Larger
<1>2. Addend(l) /\ Addend(t)
  BY <1>1 DEF Aligned
<1>3. IsLeft(m) /\ IsLeft(sm) /\ b \in Int /\ e \in Int
  BY <1>2, LeftMantType DEF IsLeft
<1>4. e <= b
  BY <1>1 DEF Aligned, LeftExp
<1>5. PICK n \in Nat, c \in Nat :
        /\ OnGrid(v, b - 3, n)
        /\ IsTotal(n, l.sign, 1000 * m, t.sign, c)
        /\ IsCut(c, Kept(t, b), Rest(t, b), Drop(t, b))
  BY <1>1, AlignedTotal
<1>6. CutAt(c, sm, b - e)
  BY <1>1, <1>5, CutFound
<1>7. D \in Nat
  BY RegisterFacts
<1>8. m \in Nat
  BY <1>3 DEF IsLeft
<1> HIDE DEF b, e, m, sm
<1>9. CASE same
  <2>1. Total(n, m, c)
    BY <1>5, <1>9 DEF IsTotal, Total
  <2> DEFINE z == AddMant([m |-> m, e |-> b], [m |-> sm, e |-> e], o)
             k == b - e
  <2>2. /\ Handed(z.x, z.rem, b, n)
        /\ k \in 1..D /\ Seen(sm, sm % Pow10[k], k) => Truthful(z.x, z.rem, b, n)
        /\ k \notin 1..D => Truthful(z.x, z.rem, b, n)
    <3>1. Tails(m, sm)
      BY DEF m, sm
    <3> QED BY <1>3, <1>4, <1>6, <2>1, <3>1, AddOutcome
  <2>3. r = z
    BY <1>9 DEF Combined
  <2> HIDE DEF z, r, k
  <2>4. Shown(sm, k, same) => Truthful(z.x, z.rem, b, n)
    BY <1>9, <2>2 DEF Shown
  <2>5. Handed(r.x, r.rem, b, n) /\ (Shown(sm, b - e, same) => Truthful(r.x, r.rem, b, n))
    BY <2>2, <2>3, <2>4 DEF k
  <2> QED BY <1>5, <2>5 DEF r, b, e, m, sm
<1>10. CASE ~same
  <2>1. Difference(n, m, c)
    BY <1>5, <1>10 DEF IsTotal, Difference
  <2> DEFINE z == SubMant([m |-> m, e |-> b], [m |-> sm, e |-> e], o)
             k == b - e
  <2>2. /\ Handed(z.x, z.rem, b, n)
        /\ k \in 1..D /\ Seen(sm, Pow10[k] - (sm % Pow10[k]), k) => Truthful(z.x, z.rem, b, n)
        /\ k = 0 => Truthful(z.x, z.rem, b, n)
    <3>1. Tails(m, sm) /\ (b - e \in 1..D => Borrows(m, sm, b - e))
      BY <1>10 DEF m, sm, b, e
    <3> QED BY <1>3, <1>4, <1>6, <2>1, <3>1, SubOutcome
  <2>3. r = z
    BY <1>10 DEF Combined
  <2>4. k \in Nat
    BY <1>3, <1>4
  <2> HIDE DEF z, r, k
  <2>5. Shown(sm, k, same) => Truthful(z.x, z.rem, b, n)
    <3>1. k = 0 \/ k \in 1..D \/ k > D
      BY <1>7, <2>4
    <3> QED BY <1>10, <2>2, <3>1 DEF Shown
  <2>6. Handed(r.x, r.rem, b, n) /\ (Shown(sm, b - e, same) => Truthful(r.x, r.rem, b, n))
    BY <2>2, <2>3, <2>5 DEF k
  <2> QED BY <1>5, <2>6 DEF r, b, e, m, sm
<1> QED BY <1>9, <1>10

-----------------------------------------------------------------------------
(* scale, after addsub                                                     *)

LEMMA HandedFacts ==
  ASSUME Room, NEW y, NEW rem, NEW b, NEW n, Handed(y, rem, b, n)
  PROVE  LET m == y.mant
             i == y.exp - (b - 3)
             u == Pow10[i]
             f == n - (m * u)
             d == Digits(m)
         IN  /\ InRegister(y) /\ m \in Nat /\ y.exp \in Int /\ b \in Int /\ n \in Nat /\ rem \in Nat
             /\ i \in {3, 4} /\ u \in Nat \ {0} /\ f \in Nat /\ LeftOver(m, rem, u, n, f)
             /\ IsDigits(d, m) /\ d \in 1..(D + 1) /\ (i = 4 => d <= D)
             /\ f # 0 => d >= D - 1
<1>1. /\ P \in Nat /\ P > 1 /\ D \in Nat /\ 2 * P + 2 <= D
      /\ MaxShift \in Nat /\ D + 2 <= MaxShift
  BY RegisterFacts
<1> DEFINE m == y.mant
           i == y.exp - (b - 3)
           u == Pow10[i]
           f == n - (m * u)
           d == Digits(m)
<1>2. /\ InRegister(y) /\ rem \in Nat /\ b \in Int
      /\ y.exp \in {b, b + 1} /\ (y.exp = b + 1 => m < Pow10[D])
  BY DEF Handed
<1>3. m \in Nat /\ y.exp \in Int /\ IsDigits(d, m) /\ d \in 1..(D + 1)
  BY <1>2, ScaleShape
<1>4. i \in {3, 4} /\ (i = 4 => y.exp = b + 1) /\ i \in 0..MaxShift
  BY <1>1, <1>2, <1>3
<1>5. PICK h \in Nat : LeftOver(m, rem, u, n, h)
  BY DEF Handed
<1> HIDE DEF i, m
<1>6. u \in Nat \ {0}
  BY <1>4, PowerType
<1> HIDE DEF u, d
<1>7. m * u \in Nat /\ n = (m * u) + h
  BY <1>3, <1>5, <1>6 DEF LeftOver
<1>8. f = h /\ n \in Nat
  BY <1>7
<1>9. f # 0 => d >= D - 1
  <2> SUFFICES ASSUME f # 0 PROVE d >= D - 1
    OBVIOUS
  <2>1. Pow10[D - 2] <= m /\ m < Pow10[d] /\ d \in 0..MaxShift /\ D - 2 \in 0..MaxShift
    BY <1>1, <1>3, <1>5, <1>8 DEF LeftOver, IsDigits
  <2>2. Pow10[D - 2] \in Nat \ {0} /\ Pow10[d] \in Nat
    BY <2>1, PowerType
  <2>3. Pow10[D - 2] < Pow10[d]
    BY <1>3, <2>1, <2>2
  <2>4. D - 2 < d
    BY <2>1, <2>3, PowerOrder
  <2> QED BY <1>1, <1>3, <2>4
<1>10. i = 4 => d <= D
  <2> SUFFICES ASSUME i = 4, D < d PROVE FALSE
    BY <1>1, <1>3
  <2>1. m < Pow10[D] /\ d = D + 1 /\ Pow10[d - 1] <= m
    <3>1. d = D + 1 /\ d # 1
      BY <1>1, <1>3
    <3> QED BY <1>2, <1>3, <1>4, <3>1 DEF IsDigits, m
  <2>2. Pow10[D] <= m /\ Pow10[D] \in Nat
    <3>1. d - 1 = D /\ D \in 0..MaxShift
      BY <1>1, <2>1
    <3> QED BY <2>1, <3>1, PowerType
  <2> QED BY <1>3, <2>1, <2>2
<1>11. LeftOver(m, rem, u, n, f) /\ f \in Nat
  BY <1>5, <1>8
<1> QED BY <1>2, <1>3, <1>4, <1>6, <1>8, <1>9, <1>10, <1>11 DEF m, i, u, f, d

\* What a second cut makes of the class of a digit when the first left something.
After(h) == CASE h = "EXACT" -> "BELOW" [] h = "TIE" -> "ABOVE" [] OTHER -> h

\* A rest that is one larger than it shows, and not at a half or at the end.
LEMMA NextFraction ==
  ASSUME NEW h \in Nat, NEW z \in Nat \ {0}, h = 20 * z, NEW r \in Nat, r < h, r % 10 # 9
  PROVE  Fraction(r + 1, h) = After(Fraction(r, h)) /\ r + 1 < h
<1>1. r + 1 # h /\ r + 1 # 10 * z
  <2>1. ASSUME r + 1 = 20 * z PROVE FALSE
    <3>1. r = 10 * (2 * z - 1) + 9
      BY <2>1
    <3>2. r % 10 = 9
      BY <3>1
    <3> QED BY <3>2
  <2>2. ASSUME r + 1 = 10 * z PROVE FALSE
    <3>1. r = 10 * (z - 1) + 9
      BY <2>2
    <3>2. r % 10 = 9
      BY <3>1
    <3> QED BY <3>2
  <2> QED BY <2>1, <2>2
<1>2. r + 1 < h /\ h \in Nat \ {0}
  BY <1>1
<1>3. CASE r = 0
  <2>1. Fraction(r, h) = "EXACT" /\ Fraction(r + 1, h) = "BELOW"
    BY <1>2, <1>3, FractionMeaning
  <2> QED BY <1>2, <2>1 DEF After
<1>4. CASE r # 0 /\ r < 10 * z
  <2>1. Fraction(r, h) = "BELOW" /\ Fraction(r + 1, h) = "BELOW"
    BY <1>1, <1>2, <1>4, FractionMeaning
  <2> QED BY <1>2, <2>1 DEF After
<1>5. CASE r = 10 * z
  <2>1. Fraction(r, h) = "TIE" /\ Fraction(r + 1, h) = "ABOVE"
    BY <1>2, <1>5, FractionMeaning
  <2> QED BY <1>2, <2>1 DEF After
<1>6. CASE r > 10 * z
  <2>1. Fraction(r, h) = "ABOVE" /\ Fraction(r + 1, h) = "ABOVE"
    BY <1>2, <1>6, FractionMeaning
  <2> QED BY <1>2, <2>1 DEF After
<1> QED BY <1>3, <1>4, <1>5, <1>6

\* f of u parts behind the digit, all of them included.
Behind(u, f, h, r) ==
  /\ u \in Nat \ {0} /\ f \in Nat /\ f <= u
  /\ \E z \in Nat \ {0} : h = 20 * z
  /\ r \in Nat /\ r < h /\ (f = u => r % 10 # 9)

LEMMA TwoParts ==
  ASSUME NEW u, NEW f, NEW h, NEW r, Behind(u, f, h, r)
  PROVE  Fraction((r * u) + f, u * h) = IF f = 0 THEN Fraction(r, h) ELSE After(Fraction(r, h))
<1>3. /\ u \in Nat \ {0} /\ f \in Nat /\ f <= u
      /\ \E z \in Nat \ {0} : h = 20 * z
      /\ r \in Nat /\ r < h /\ (f = u => r % 10 # 9)
  BY DEF Behind
<1>4. PICK z \in Nat \ {0} : h = 20 * z
  BY <1>3
<1>5. h \in Nat \ {0} /\ h % 2 = 0
  BY <1>4
<1>1. CASE f < u
  <2>2. Fraction((r * u) + f, u * h) =
           IF f = 0 THEN Fraction(r, h)
           ELSE CASE Fraction(r, h) = "EXACT" -> "BELOW"
                  [] Fraction(r, h) = "TIE"   -> "ABOVE"
                  [] OTHER                    -> Fraction(r, h)
    BY <1>1, <1>3, <1>5, TwoFractions
  <2> QED BY <2>2 DEF After
<1>2. CASE f = u
  <2>1. (r * u) + f = (r + 1) * u /\ u * h = h * u
    BY <1>2, <1>3, <1>5
  <2>2. Fraction((r + 1) * u, h * u) = Fraction(r + 1, h)
    <3>1. r + 1 \in Int /\ h \in Nat \ {0}
      BY <1>3, <1>5
    <3> QED BY <1>3, <3>1, FractionScaled, Zenon
  <2>3. Fraction(r + 1, h) = After(Fraction(r, h))
    BY <1>2, <1>3, <1>4, <1>5, NextFraction
  <2>4. f # 0
    BY <1>2, <1>3
  <2> QED BY <2>1, <2>2, <2>3, <2>4
<1> QED BY <1>1, <1>2, <1>3

\* The digit that scale drops, merged with the remainder of addsub.
LEMMA CombineDigit ==
  ASSUME NEW rem \in Nat, NEW g \in 0..9
  PROVE  RemClass(Combine(rem, g)) = IF rem % 16 = 0 THEN RemClass(g) ELSE After(RemClass(g))
<1>1. (g \div 32) % 2 = 0 /\ g % 16 = g /\ (g + 1) % 16 = g + 1
  BY SMT
<1>2. Combine(rem, g) = IF g \in {0, 5} /\ rem % 16 # 0 THEN g + 1 ELSE g
  BY <1>1 DEF Combine
<1>3. CASE rem % 16 = 0
  BY <1>2, <1>3
<1>4. CASE rem % 16 # 0
  <2>1. CASE g = 0
    BY <1>2, <1>4, <2>1 DEF RemClass, After
  <2>2. CASE g \in 1..4
    BY <1>1, <1>2, <1>4, <2>2 DEF RemClass, After
  <2>3. CASE g = 5
    BY <1>2, <1>4, <2>3 DEF RemClass, After
  <2>4. CASE g \in 6..9
    BY <1>1, <1>2, <1>4, <2>4 DEF RemClass, After
  <2> QED BY <2>1, <2>2, <2>3, <2>4
<1> QED BY <1>3, <1>4

\* Digits that are not zero below the first that is dropped: it is no half.
LEMMA BuriedDigit ==
  ASSUME NEW m \in Nat, NEW k \in 1..MaxShift, NEW j \in 0..MaxShift, j < k, m % Pow10[j] # 0
  PROVE  m % Pow10[k] # 0 /\ 2 * (m % Pow10[k]) # Pow10[k]
<1>1. MaxShift \in Nat
  BY DecimalAssumption
<1>2. k - 1 \in 0..MaxShift /\ j <= k - 1 /\ k \in 0..MaxShift
  BY <1>1
<1>3. PICK i \in 0..MaxShift : Pow10[k - 1] = Pow10[j] * Pow10[i]
  BY <1>2, PowerFactor
<1> DEFINE p == Pow10[k]
           y == Pow10[j]
           c == Pow10[i]
           a == m \div p
           r == m % p
<1>4. p \in Nat \ {0} /\ y \in Nat \ {0} /\ c \in Nat \ {0}
  BY <1>2, PowerType
<1>5. p = 10 * (y * c)
  <2>1. p = 10 * Pow10[k - 1]
    BY DecimalAssumption
  <2> QED BY <1>3, <2>1
<1> HIDE DEF p, y, c
<1>6. a \in Nat /\ r \in 0..(p - 1) /\ (a * p) + r = m
  BY <1>4, DivMod
<1> HIDE DEF a, r
<1>7. ASSUME NEW w \in Nat, m = w * y PROVE FALSE
  <2>1. Multiple(m, j)
    BY <1>7 DEF Multiple, y
  <2> QED BY <2>1, MultipleMod
<1>8. a * (10 * (y * c)) = ((10 * a) * c) * y /\ ((10 * a) * c) \in Nat
  BY <1>4, <1>6
<1>9. r # 0
  <2> SUFFICES ASSUME r = 0 PROVE FALSE
    OBVIOUS
  <2>1. m = ((10 * a) * c) * y
    <3>1. a * p \in Nat
      BY <1>4, <1>6
    <3> QED BY <1>5, <1>6, <1>8, <3>1
  <2> QED BY <1>7, <1>8, <2>1
<1>10. 2 * r # p
  <2> SUFFICES ASSUME 2 * r = p PROVE FALSE
    OBVIOUS
  <2>1. r = (5 * c) * y
    <3>1. (5 * c) * y = 5 * (y * c) /\ y * c \in Nat
      BY <1>4
    <3> QED BY <1>4, <1>5, <1>6, <3>1
  <2> DEFINE w == ((10 * a) * c) + (5 * c)
  <2>2. w \in Nat
    BY <1>4, <1>6
  <2>3. w * y = (((10 * a) * c) * y) + ((5 * c) * y)
    BY <1>4, <1>6
  <2>4. m = w * y
    <3>1. m = (a * p) + r
      BY <1>6
    <3>2. a * p = ((10 * a) * c) * y
      BY <1>5, <1>8
    <3> HIDE DEF w
    <3> QED BY <2>1, <2>3, <3>1, <3>2
  <2> HIDE DEF w
  <2> QED BY <1>7, <2>2, <2>4
<1> QED BY <1>9, <1>10 DEF r, p

\* The second truncation, of so many digits that at most P are left.
LEMMA CutDigits ==
  ASSUME Room, NEW v, NEW b, NEW n, OnGrid(v, b - 3, n), NEW y, NEW rem, Handed(y, rem, b, n),
         NEW k \in Nat \ {0}, Digits(y.mant) - P <= k, (y.exp - (b - 3)) + k <= MaxShift
  PROVE  Position(v, y.mant \div Pow10[k], y.exp + k)
           = RemClass(Combine(rem, DroppedDigit(y.mant % Pow10[k], k)))
<1>1. /\ P \in Nat /\ P > 1 /\ D \in Nat /\ 2 * P + 2 <= D
      /\ MaxShift \in Nat /\ D + 2 <= MaxShift
  BY RegisterFacts
<1> DEFINE m == y.mant
           i == y.exp - (b - 3)
           u == Pow10[i]
           f == n - (m * u)
           d == Digits(m)
           h == Pow10[k]
           a == m \div h
           r == m % h
           g == DroppedDigit(r, k)
           w == b - 3
           e == y.exp + k
<1>2. /\ m \in Nat /\ y.exp \in Int /\ b \in Int /\ n \in Nat /\ rem \in Nat
      /\ i \in {3, 4} /\ u \in Nat \ {0} /\ f \in Nat /\ LeftOver(m, rem, u, n, f)
      /\ d \in 1..(D + 1) /\ (i = 4 => d <= D) /\ (f # 0 => d >= D - 1)
      /\ IsDigits(d, m)
  BY HandedFacts
<1>3. d - P <= k /\ i + k <= MaxShift
  OBVIOUS
<1> HIDE DEF d
<1>4. k \in 1..MaxShift /\ k \in 0..MaxShift /\ i + k <= MaxShift /\ i \in Nat /\ e - w = i + k /\ w <= e
      /\ e \in Int /\ w \in Int /\ e - w <= MaxShift
  BY <1>1, <1>2, <1>3
<1>5. OnGrid(v, w, n)
  OBVIOUS
<1> HIDE DEF i, w, e
<1>6. h \in Nat \ {0} /\ h % 2 = 0 /\ Pow10[e - w] = u * h
  <2>1. Pow10[i + k] = u * h
    BY <1>4, PowerSum
  <2> QED BY <1>4, <2>1, PowerType, PowerEven
<1> HIDE DEF h, u, m
<1>7. a \in Nat /\ r \in Nat /\ r < h /\ (a * h) + r = m
  <2>1. a \in Nat /\ r \in 0..(h - 1) /\ (a * h) + r = m
    BY <1>2, <1>6, DivMod
  <2> HIDE DEF a, r
  <2> QED BY <1>6, <2>1
<1> HIDE DEF a, r
<1>8. g \in 0..9 /\ RemClass(g) = Fraction(r, h)
  BY <1>4, <1>7, DropClass DEF h
<1> HIDE DEF g, f
<1>9. n = (m * u) + f /\ f <= u /\ (f = u => m % 10 # 9)
      /\ ((f = 0 <=> rem % 16 = 0) \/ (f # 0 /\ Buried(m)))
  BY <1>2 DEF LeftOver
<1>10. Position(v, a, e) = Fraction((r * u) + f, u * h)
  <2>1. Position(v, a, e) = Fraction(n - a * Pow10[e - w], Pow10[e - w])
    BY <1>4, <1>5, <1>7, GridPosition
  <2>2. n - (a * (u * h)) = (r * u) + f
    <3>1. ((a * h) + r) * u = (a * (u * h)) + (r * u)
      BY <1>2, <1>6, <1>7
    <3>2. a * (u * h) \in Nat /\ r * u \in Nat
      BY <1>2, <1>6, <1>7
    <3> DEFINE x1 == a * (u * h)
               x2 == r * u
               x3 == m * u
    <3>3. x3 = x1 + x2 /\ x1 \in Nat /\ x2 \in Nat /\ n = x3 + f
      BY <1>7, <1>9, <3>1, <3>2
    <3> HIDE DEF x1, x2, x3
    <3>4. n - x1 = x2 + f
      BY <1>2, <3>3
    <3> QED BY <3>4 DEF x1, x2
  <2> QED BY <1>6, <2>1, <2>2
<1>11. CASE f = 0
  <2>1. rem % 16 = 0
    BY <1>9, <1>11
  <2>2. Fraction((r * u) + f, u * h) = Fraction(r, h)
    <3>1. 0 <= f /\ f < u /\ f \in Int /\ u \in Nat \ {0} /\ h \in Nat \ {0} /\ h % 2 = 0
      BY <1>2, <1>6, <1>11
    <3>2. Fraction((r * u) + f, u * h) =
             IF f = 0 THEN Fraction(r, h)
             ELSE CASE Fraction(r, h) = "EXACT" -> "BELOW"
                    [] Fraction(r, h) = "TIE"   -> "ABOVE"
                    [] OTHER                    -> Fraction(r, h)
      BY <1>7, <3>1, TwoFractions
    <3> QED BY <1>11, <3>2
  <2>3. RemClass(Combine(rem, g)) = RemClass(g)
    BY <1>2, <1>8, <2>1, CombineDigit
  <2> QED BY <1>8, <1>10, <2>2, <2>3 DEF a, e, g, r, m, h
<1>12. CASE f # 0
  <2>1. d >= D - 1 /\ k >= 3
    BY <1>1, <1>2, <1>3, <1>12 DEF f, m, u
  <2>2. PICK z \in Nat \ {0} : h = 20 * z
    <3>1. k - 2 \in 0..MaxShift /\ k - 2 \in Nat /\ 2 + (k - 2) = k
      BY <1>1, <1>4, <2>1
    <3>2. Pow10[2 + (k - 2)] = Pow10[2] * Pow10[k - 2]
      <4>1. 2 + (k - 2) <= MaxShift /\ 2 \in Nat
        BY <1>1, <1>4, <3>1
      <4> QED BY <3>1, <4>1, PowerSum
    <3>3. Pow10[2] = 100 /\ Pow10[k - 2] \in Nat \ {0}
      BY <3>1, SmallPowers, PowerType
    <3> DEFINE c == Pow10[k - 2]
    <3>4. h = 100 * c /\ c \in Nat \ {0}
      BY <3>1, <3>2, <3>3 DEF h
    <3> HIDE DEF c
    <3>5. 5 * c \in Nat \ {0} /\ h = 20 * (5 * c)
      BY <3>4
    <3> QED BY <3>5
  <2>3. m % 10 # 9 => r % 10 # 9
    <3> SUFFICES ASSUME r % 10 = 9 PROVE m % 10 = 9
      OBVIOUS
    <3>1. r = 10 * (r \div 10) + 9 /\ r \div 10 \in Nat
      BY <1>7
    <3> DEFINE j == r \div 10
               c == (a * z) * 2 + j
    <3> HIDE DEF j
    <3>2. a * z \in Nat /\ a * (20 * z) = 20 * (a * z)
      BY <1>7
    <3>3. c \in Nat /\ m = 10 * c + 9
      <4> DEFINE x1 == a * z
      <4>1. x1 \in Nat /\ m = 20 * x1 + r /\ r = 10 * j + 9 /\ j \in Nat
        BY <1>7, <2>2, <3>1, <3>2 DEF j
      <4> HIDE DEF x1
      <4>2. x1 * 2 + j \in Nat /\ m = 10 * (x1 * 2 + j) + 9
        BY <4>1
      <4> QED BY <4>2 DEF x1
    <3> HIDE DEF c
    <3> QED BY <3>3
  <2>4. Fraction((r * u) + f, u * h) = After(Fraction(r, h))
    <3>1. f = u => r % 10 # 9
      BY <1>9, <2>3
    <3>2. f \in Nat /\ h \in Nat /\ u \in Nat \ {0} /\ f <= u
      BY <1>2, <1>6, <1>9
    <3>3. Fraction((r * u) + f, u * h) = IF f = 0 THEN Fraction(r, h) ELSE After(Fraction(r, h))
      <4>1. Behind(u, f, h, r)
        BY <1>7, <2>2, <3>1, <3>2 DEF Behind
      <4> QED BY <4>1, TwoParts
    <3> QED BY <1>12, <3>3
  <2>5. RemClass(Combine(rem, g)) = After(Fraction(r, h))
    <3>1. CASE rem % 16 # 0
      BY <1>2, <1>8, <3>1, CombineDigit
    <3>2. CASE rem % 16 = 0
      <4>1. Buried(m)
        BY <1>9, <1>12, <3>2
      <4>2. r # 0 /\ 2 * r # h
        <5>1. CASE m % 10 # 0
          <6>1. 1 \in 0..MaxShift /\ 1 < k /\ m % Pow10[1] # 0
            BY <1>1, <2>1, <5>1, SmallPowers
          <6> QED BY <1>2, <1>4, <6>1, BuriedDigit DEF r, h
        <5>2. CASE Pow10[D - 1] <= m /\ m % Pow10[D - P - 1] # 0
          <6>1. d >= D
            <7> SUFFICES ASSUME d < D PROVE FALSE
              BY <1>1, <1>2
            <7>1. m < Pow10[d] /\ d \in 0..MaxShift /\ D - 1 \in 0..MaxShift /\ d <= D - 1
              BY <1>1, <1>2 DEF IsDigits
            <7>2. Pow10[d] <= Pow10[D - 1] /\ Pow10[d] \in Nat /\ Pow10[D - 1] \in Nat
              BY <7>1, PowerOrder, PowerType
            <7> QED BY <1>2, <5>2, <7>1, <7>2
          <6>2. D - P - 1 \in 0..MaxShift /\ D - P - 1 < k
            BY <1>1, <1>2, <1>3, <6>1
          <6> QED BY <1>2, <1>4, <5>2, <6>2, BuriedDigit DEF r, h
        <5> QED BY <4>1, <5>1, <5>2 DEF Buried
      <4>3. After(Fraction(r, h)) = Fraction(r, h)
        <5>1. Fraction(r, h) # "EXACT" /\ Fraction(r, h) # "TIE"
          BY <1>6, <1>7, <4>2, FractionMeaning
        <5> QED BY <5>1 DEF After
      <4> QED BY <1>2, <1>8, <3>2, <4>3, CombineDigit
    <3> QED BY <3>1, <3>2
  <2> QED BY <1>10, <2>4, <2>5 DEF a, e, g, r, m, h
<1> QED BY <1>11, <1>12

\* The remainder that scale hands on with a subnormal.
LEMMA CombineSubnormal ==
  ASSUME NEW rem \in Nat, NEW g \in 0..9
  PROVE  /\ RemClass(Combine(rem, 16 + g)) =
              IF rem % 16 = 0 THEN RemClass(g) ELSE After(RemClass(g))
         /\ After(After(RemClass(g))) = After(RemClass(g))
         /\ g \notin {0, 5} => After(RemClass(g)) = RemClass(g)
<1>1. /\ ((16 + g) \div 32) % 2 = 0 /\ (16 + g) % 16 = g /\ g % 16 = g
      /\ (16 + (g + 1)) % 16 = g + 1 /\ (16 + g) + 1 = 16 + (g + 1)
  BY SMT
<1>2. Combine(rem, 16 + g) = IF g \in {0, 5} /\ rem % 16 # 0 THEN 16 + (g + 1) ELSE 16 + g
  BY <1>1 DEF Combine
<1>3. RemClass(16 + g) = RemClass(g)
  BY <1>1 DEF RemClass
<1>4. CASE g = 0
  <2>1. RemClass(g) = "EXACT" /\ RemClass(16 + (g + 1)) = "BELOW"
    BY <1>4 DEF RemClass
  <2> QED BY <1>2, <1>3, <1>4, <2>1 DEF After
<1>5. CASE g \in 1..4
  <2>1. RemClass(g) = "BELOW"
    BY <1>1, <1>5 DEF RemClass
  <2> QED BY <1>2, <1>3, <1>5, <2>1 DEF After
<1>6. CASE g = 5
  <2>1. RemClass(g) = "TIE" /\ RemClass(16 + (g + 1)) = "ABOVE"
    BY <1>6 DEF RemClass
  <2> QED BY <1>2, <1>3, <1>6, <2>1 DEF After
<1>7. CASE g \in 6..9
  <2>1. RemClass(g) = "ABOVE"
    BY <1>1, <1>7 DEF RemClass
  <2> QED BY <1>2, <1>3, <1>7, <2>1 DEF After
<1> QED BY <1>4, <1>5, <1>6, <1>7

\* Cutting j digits and then k is cutting j + k; the class of all of them is that
\* of the k, unless there was something in the j.
LEMMA TwoCuts ==
  ASSUME NEW m \in Nat, NEW j \in Nat, NEW k \in Nat \ {0}, j + k <= MaxShift
  PROVE  LET u == Pow10[j]
             h == Pow10[k]
             A == Fraction((m \div u) % h, h)
         IN  /\ m \div Pow10[j + k] = (m \div u) \div h
             /\ Fraction(m % Pow10[j + k], Pow10[j + k]) = IF m % u = 0 THEN A ELSE After(A)
<1> DEFINE u == Pow10[j]
           h == Pow10[k]
           p == Pow10[j + k]
           w == m \div u
           f == m % u
           a == w \div h
           r == w % h
<1>1. MaxShift \in Nat /\ j \in 0..MaxShift /\ k \in 0..MaxShift /\ k \in 1..MaxShift /\ j + k \in 0..MaxShift
  BY DecimalAssumption
<1>2. u \in Nat \ {0} /\ h \in Nat \ {0} /\ h % 2 = 0 /\ p = u * h /\ p \in Nat \ {0}
  BY <1>1, PowerType, PowerEven, PowerSum
<1> HIDE DEF u, h, p
<1>3. w \in Nat /\ f \in 0..(u - 1) /\ (w * u) + f = m
  BY <1>2, DivMod
<1> HIDE DEF w, f
<1>4. a \in Nat /\ r \in 0..(h - 1) /\ (a * h) + r = w
  BY <1>2, <1>3, DivMod
<1> HIDE DEF a, r
<1> DEFINE s == (r * u) + f
<1>5. s \in Nat /\ s < p /\ m = a * p + s
  <2>1. ((a * h) + r) * u = (a * (u * h)) + (r * u)
    BY <1>2, <1>4
  <2>2. (r + 1) * u <= h * u /\ (r + 1) * u = (r * u) + u /\ r * u \in Nat /\ h * u = u * h
    BY <1>2, <1>4, TimesMonotonic
  <2>3. a * (u * h) \in Nat
    BY <1>2, <1>4
  <2> QED BY <1>2, <1>3, <1>4, <2>1, <2>2, <2>3
<1>6. m \div p = a /\ m % p = s
  <2> HIDE DEF s
  <2>1. s \in 0..(p - 1) /\ a \in Int
    BY <1>2, <1>4, <1>5
  <2> QED BY <1>2, <1>5, <2>1, DivModUnique
<1>7. Fraction((r * u) + f, u * h) = IF f = 0 THEN Fraction(r, h) ELSE After(Fraction(r, h))
  <2>1. f \in Int /\ 0 <= f /\ f < u /\ r \in Nat /\ r < h
    BY <1>2, <1>3, <1>4
  <2>2. Fraction((r * u) + f, u * h) =
           IF f = 0 THEN Fraction(r, h)
           ELSE CASE Fraction(r, h) = "EXACT" -> "BELOW"
                  [] Fraction(r, h) = "TIE"   -> "ABOVE"
                  [] OTHER                    -> Fraction(r, h)
    BY <1>2, <2>1, TwoFractions
  <2> QED BY <2>2 DEF After
<1>8. Fraction(s, p) = IF f = 0 THEN Fraction(r, h) ELSE After(Fraction(r, h))
  BY <1>2, <1>7
<1> QED BY <1>6, <1>8 DEF a, r, w, f, u, h, p

\* g tells what the k digits behind the first j are, and of those too if it must.
Reads(m, j, k, rem, g) ==
  LET A == Fraction((m \div Pow10[j]) % Pow10[k], Pow10[k])
  IN  \/ RemClass(g) = IF m % Pow10[j] = 0 THEN A ELSE After(A)
      \/ RemClass(g) = A /\ rem % 16 # 0

\* The remainder of a number cut twice by scale, where the second cut reads what
\* the first left or addsub left something that makes it right.
LEMMA CutTwice ==
  ASSUME Room, NEW v, NEW b, NEW n, OnGrid(v, b - 3, n), NEW y, NEW rem, Handed(y, rem, b, n),
         NEW j \in Nat, NEW k \in Nat \ {0}, Digits(y.mant) - P <= j + k,
         (y.exp - (b - 3)) + (j + k) <= MaxShift,
         NEW g \in 0..9, Reads(y.mant, j, k, rem, g)
  PROVE  Position(v, (y.mant \div Pow10[j]) \div Pow10[k], y.exp + (j + k))
           = RemClass(Combine(rem, 16 + g))
<1> DEFINE m == y.mant
           c == j + k
           A == Fraction((m \div Pow10[j]) % Pow10[k], Pow10[k])
           q == DroppedDigit(m % Pow10[c], c)
<1>1. /\ m \in Nat /\ rem \in Nat /\ y.exp - (b - 3) \in Nat
  <2>1. m \in Nat /\ rem \in Nat /\ y.exp - (b - 3) \in {3, 4}
    BY HandedFacts
  <2> QED BY <2>1
<1>2. c \in Nat \ {0} /\ c \in 0..MaxShift /\ j + k <= MaxShift
  BY <1>1, DecimalAssumption
<1>3. m \div Pow10[c] = (m \div Pow10[j]) \div Pow10[k]
  BY <1>1, <1>2, TwoCuts
<1>4. Fraction(m % Pow10[c], Pow10[c]) = IF m % Pow10[j] = 0 THEN A ELSE After(A)
  BY <1>1, <1>2, TwoCuts
<1>5. Position(v, m \div Pow10[c], y.exp + c) = RemClass(Combine(rem, q))
  <2> HIDE DEF c
  <2>1. Digits(y.mant) - P <= c /\ (y.exp - (b - 3)) + c <= MaxShift
    BY DEF c
  <2> QED BY <1>2, <2>1, CutDigits
<1>6. q \in 0..9 /\ RemClass(q) = Fraction(m % Pow10[c], Pow10[c])
  <2> HIDE DEF c, m
  <2>1. Pow10[c] \in Nat \ {0}
    BY <1>2, PowerType
  <2> DEFINE p == Pow10[c]
             t == m % p
  <2> HIDE DEF p
  <2>2. t \in 0..(p - 1) /\ p \in Nat \ {0}
    BY <1>1, <2>1, DivMod DEF p
  <2> HIDE DEF t
  <2>3. t \in Nat /\ t < p
    BY <2>2
  <2>4. DroppedDigit(t, c) \in 0..9 /\ RemClass(DroppedDigit(t, c)) = Fraction(t, p)
    BY <1>2, <2>3, DropClass DEF p
  <2> QED BY <2>4 DEF t, p
<1> HIDE DEF c, q
<1>7. RemClass(Combine(rem, q)) = IF rem % 16 = 0 THEN RemClass(q) ELSE After(RemClass(q))
  BY <1>1, <1>6, CombineDigit
<1>8. /\ RemClass(Combine(rem, 16 + g)) = IF rem % 16 = 0 THEN RemClass(g) ELSE After(RemClass(g))
      /\ After(After(RemClass(g))) = After(RemClass(g))
  BY <1>1, CombineSubnormal
<1>9. \/ RemClass(g) = RemClass(q)
      \/ RemClass(g) = A /\ rem % 16 # 0
  BY <1>4, <1>6 DEF Reads
<1>10. RemClass(Combine(rem, q)) = RemClass(Combine(rem, 16 + g))
  <2>1. CASE RemClass(g) = RemClass(q)
    BY <1>7, <1>8, <2>1
  <2>2. CASE RemClass(g) = A /\ rem % 16 # 0 /\ m % Pow10[j] # 0
    <3>1. RemClass(q) = After(RemClass(g))
      BY <1>4, <1>6, <2>2
    <3> QED BY <1>7, <1>8, <2>2, <3>1
  <2>3. CASE RemClass(g) = A /\ m % Pow10[j] = 0
    BY <1>4, <1>6, <1>7, <1>8, <2>3
  <2> QED BY <1>9, <2>1, <2>2, <2>3
<1> QED BY <1>3, <1>5, <1>10 DEF c

\* A digit is a remainder of its own class.
LEMMA DigitClass ==
  ASSUME NEW q \in 1..9
  PROVE  Fraction(q, 10) = RemClass(q)
<1>1. q \in Int /\ 10 \in Nat \ {0} /\ q % 16 = q
  OBVIOUS
<1>2. CASE q \in 1..4
  <2>1. Fraction(q, 10) = "BELOW"
    BY <1>1, <1>2, FractionMeaning
  <2> QED BY <1>1, <1>2, <2>1 DEF RemClass
<1>3. CASE q = 5
  <2>1. Fraction(q, 10) = "TIE"
    BY <1>1, <1>3, FractionMeaning
  <2> QED BY <1>1, <1>3, <2>1 DEF RemClass
<1>4. CASE q \in 6..9
  <2>1. Fraction(q, 10) = "ABOVE"
    BY <1>1, <1>4, FractionMeaning
  <2> QED BY <1>1, <1>4, <2>1 DEF RemClass
<1> QED BY <1>2, <1>3, <1>4

\* All the digits are shifted out.  The first of them is the remainder, which is
\* right unless it is a 5 and what is behind it is lost.
LEMMA UnderflowRight ==
  ASSUME Room, NEW v, NEW b, NEW n, OnGrid(v, b - 3, n), NEW y, NEW rem, Handed(y, rem, b, n),
         EMin <= b + (D - 1), NEW d, d = Digits(y.mant), y.mant # 0, y.exp + d - P = EMin - P,
         NEW q, q = Normal(y, d) \div Pow10[P - 1], ~Drops(y, rem, 16 + q)
  PROVE  Position(v, 0, EMin) = RemClass(Combine(rem, 16 + q))
<1>1. /\ P \in Nat /\ P > 1 /\ D \in Nat /\ 2 * P + 2 <= D
      /\ MaxShift \in Nat /\ D + 2 <= MaxShift /\ EMin \in Int
  BY RegisterFacts, DecimalAssumption
<1> DEFINE m == y.mant
           j == d - 1
           u == Pow10[j]
           f == m % u
<1>2. /\ m \in Nat /\ y.exp \in Int /\ b \in Int /\ rem \in Nat
      /\ IsDigits(d, m) /\ d \in 1..(D + 1)
  BY HandedFacts
<1>3. y.exp + d = EMin /\ (y.exp - (b - 3)) + d <= MaxShift /\ d - P <= d
  BY <1>1, <1>2
<1>4. j \in Nat /\ j < d /\ j + 1 = d /\ j \in 0..MaxShift /\ d \in 1..MaxShift
  BY <1>1, <1>2
<1>5. Pow10[1] = 10 /\ Pow10[0] = 1
  BY SmallPowers
<1>6. q = m \div u
  <2>1. CASE d < P
    <3>1. Normal(y, d) = m * Pow10[P - d]
      BY <2>1 DEF Normal
    <3>2. P - d \in Nat /\ j + (P - d) = P - 1 /\ j + (P - d) <= MaxShift
      BY <1>1, <1>2, <2>1
    <3> DEFINE z == P - d
               sm == m * Pow10[z]
    <3> HIDE DEF z, j, m, sm
    <3>3. sm \div Pow10[j + z] = m \div Pow10[j]
      BY <1>2, <1>4, <3>2, ZerosBehind DEF z, sm
    <3> QED BY <3>1, <3>2, <3>3 DEF z, sm
  <2>2. CASE d = P
    <3>1. Normal(y, d) = m
      BY <1>1, <2>2 DEF Normal
    <3> QED BY <2>2, <3>1
  <2>3. CASE d > P
    <3>1. Normal(y, d) = m \div Pow10[d - P]
      BY <1>1, <1>2, <2>3 DEF Normal
    <3>2. d - P \in Nat /\ P - 1 \in Nat \ {0} /\ (d - P) + (P - 1) = j /\ (d - P) + (P - 1) <= MaxShift
      BY <1>1, <1>2, <1>4, <2>3
    <3> DEFINE a == d - P
               c == P - 1
    <3> HIDE DEF a, c, j, m
    <3>3. m \div Pow10[a + c] = (m \div Pow10[a]) \div Pow10[c]
      BY <1>2, <3>2, TwoCuts DEF a, c
    <3> QED BY <3>1, <3>2, <3>3 DEF a, c
  <2> QED BY <1>1, <1>2, <2>1, <2>2, <2>3
<1>7. q \in 1..9 /\ u \in Nat \ {0}
  <2>1. u \in Nat \ {0}
    BY <1>4, PowerType
  <2>2. Pow10[d] = 10 * u /\ m < Pow10[d] /\ u <= m
    <3>1. Pow10[d] = 10 * u
      BY <1>4, DecimalAssumption
    <3>2. d = 1 => u = 1
      BY <1>5
    <3>3. m < Pow10[d] /\ (d = 1 \/ u <= m)
      BY <1>2 DEF IsDigits
    <3> QED BY <1>2, <3>1, <3>2, <3>3
  <2> HIDE DEF u, m, f
  <2> DEFINE a == m \div u
  <2>3. a \in Nat /\ m % u \in 0..(u - 1) /\ (a * u) + (m % u) = m
    BY <1>2, <2>1, DivMod
  <2> HIDE DEF a
  <2>4. a # 0
    BY <2>1, <2>2, <2>3
  <2>5. ASSUME 10 <= a PROVE FALSE
    <3>1. 10 * u <= a * u /\ a * u \in Nat
      BY <2>1, <2>3, <2>5, TimesMonotonic
    <3> QED BY <1>2, <2>1, <2>2, <2>3, <3>1
  <2>6. a \in 1..9
    BY <2>3, <2>4, <2>5
  <2> QED BY <1>6, <2>1, <2>6 DEF a
<1>8. q \div 10 = 0 /\ q % 10 = q
  BY <1>7
<1>9. Fraction(q, 10) = RemClass(q)
  BY <1>7, DigitClass
<1>10. rem % 16 = 0 => q # 5 \/ f = 0
  <2> SUFFICES ASSUME rem % 16 = 0, q = 5, f # 0 PROVE FALSE
    OBVIOUS
  <2>1. Digits(y.mant) = d /\ y.mant % Pow10[d - 1] # 0 /\ 16 + q = 21
    OBVIOUS
  <2> QED BY <2>1 DEF Drops
<1>11. Reads(m, j, 1, rem, q)
  <2>1. (m \div Pow10[j]) % Pow10[1] = q
    BY <1>5, <1>6, <1>8
  <2>2. q # 5 => After(RemClass(q)) = RemClass(q)
    BY <1>2, <1>7, CombineSubnormal
  <2> HIDE DEF m, j
  <2> QED BY <1>5, <1>9, <1>10, <2>1, <2>2 DEF Reads, u, f
<1>12. Position(v, (m \div Pow10[j]) \div Pow10[1], y.exp + (j + 1)) = RemClass(Combine(rem, 16 + q))
  <2>1. q \in 0..9 /\ Digits(y.mant) - P <= j + 1 /\ (y.exp - (b - 3)) + (j + 1) <= MaxShift /\ 1 \in Nat \ {0}
    <3>1. q \in 0..9 /\ d - P <= j + 1 /\ (y.exp - (b - 3)) + (j + 1) <= MaxShift
      <4> HIDE DEF j
      <4> QED BY <1>3, <1>4, <1>7
    <3> QED BY <3>1
  <2> HIDE DEF j
  <2> QED BY <1>4, <1>11, <2>1, CutTwice
<1>13. (m \div Pow10[j]) \div Pow10[1] = 0 /\ y.exp + (j + 1) = EMin
  BY <1>3, <1>4, <1>5, <1>6, <1>8
<1> QED BY <1>12, <1>13

\* The remainder of the normalisation shows whether it cut anything off.
LEMMA NormalRemZero ==
  ASSUME NEW m \in Nat, NEW j \in 0..MaxShift
  PROVE  LET q == DroppedDigit(m % Pow10[j], j) IN q % 32 = 0 <=> m % Pow10[j] = 0
<1> DEFINE u == Pow10[j]
           f == m % u
           q == DroppedDigit(f, j)
<1>1. u \in Nat \ {0}
  BY PowerType
<1>2. f \in Nat /\ f < u
  <2> HIDE DEF u
  <2>1. f \in 0..(u - 1)
    BY <1>1, DivMod
  <2> QED BY <1>1, <2>1
<1> HIDE DEF f
<1>3. q \in 0..9 /\ RemClass(q) = Fraction(f, u)
  BY <1>2, DropClass
<1> HIDE DEF q, u
<1>4. q % 32 = q /\ q % 16 = q
  BY <1>3
<1>5. RemClass(q) = "EXACT" <=> q = 0
  BY <1>3, <1>4 DEF RemClass
<1>6. Fraction(f, u) = "EXACT" <=> f = 0
  BY <1>1, <1>2, FractionMeaning
<1> QED BY <1>3, <1>4, <1>5, <1>6 DEF q, f, u

\* The k digits that make a number subnormal, after the normalisation of its d.
LEMMA SubnormalRight ==
  ASSUME Room, NEW v, NEW b, NEW n, OnGrid(v, b - 3, n), NEW y, NEW rem, Handed(y, rem, b, n),
         EMin <= b + (D - 1), NEW d, d = Digits(y.mant), y.mant # 0,
         NEW k \in 1..(P - 1), y.exp + d - P = EMin - k,
         NEW g, g = Merged(Normal(y, d), k, NormalRem(y, d)), ~Drops(y, rem, 16 + g)
  PROVE  Position(v, Normal(y, d) \div Pow10[k], EMin) = RemClass(Combine(rem, 16 + g))
<1>1. /\ P \in Nat /\ P > 1 /\ D \in Nat /\ 2 * P + 2 <= D
      /\ MaxShift \in Nat /\ D + 2 <= MaxShift /\ EMin \in Int
  BY RegisterFacts, DecimalAssumption
<1> DEFINE m == y.mant
           w == Normal(y, d)
           h == Pow10[k]
           A == Fraction(w % h, h)
           c == DroppedDigit(w % h, k)
<1>2. /\ m \in Nat /\ y.exp \in Int /\ b \in Int /\ rem \in Nat /\ n \in Nat
      /\ y.exp - (b - 3) \in {3, 4} /\ LeftOver(m, rem, Pow10[y.exp - (b - 3)], n, n - (m * Pow10[y.exp - (b - 3)]))
      /\ (n - (m * Pow10[y.exp - (b - 3)]) # 0 => d >= D - 1)
      /\ IsDigits(d, m) /\ d \in 1..(D + 1) /\ InRegister(y)
  BY HandedFacts
<1>3. w \in Nat
  BY <1>2, ScaleShape
<1>4. k \in Nat \ {0} /\ k \in 0..MaxShift /\ h \in Nat \ {0}
  <2>1. k \in Nat \ {0} /\ k \in 0..MaxShift
    BY <1>1
  <2> QED BY <2>1, PowerType
<1>5. w = IF d < P THEN m * Pow10[P - d] ELSE IF d = P THEN m ELSE m \div Pow10[d - P]
  BY DEF Normal
<1> HIDE DEF w, h
<1>6. c \in 0..9 /\ RemClass(c) = A
  <2> DEFINE t == w % h
  <2>1. t \in 0..(h - 1)
    BY <1>3, <1>4, DivMod
  <2> HIDE DEF t
  <2>2. t \in Nat /\ t < Pow10[k]
    BY <1>4, <2>1 DEF h
  <2>3. DroppedDigit(t, k) \in 0..9 /\ RemClass(DroppedDigit(t, k)) = Fraction(t, h)
    BY <1>4, <2>2, DropClass DEF h
  <2> QED BY <2>3 DEF t
<1>7. g = IF k > 1 /\ c \in {0, 5} /\ NormalRem(y, d) % 32 # 0 THEN c + 1 ELSE c
  BY DEF Merged, w, h
<1> HIDE DEF c
<1>8. g \in 0..9
  BY <1>6, <1>7
<1>9. CASE d > P
  <2> DEFINE j == d - P
             f == m % Pow10[j]
  <2>1. /\ j \in Nat /\ j \in 0..MaxShift /\ d - P <= j + k
        /\ y.exp + (j + k) = EMin /\ (y.exp - (b - 3)) + (j + k) <= MaxShift
    BY <1>1, <1>2, <1>9
  <2>2. w = m \div Pow10[j] /\ NormalRem(y, d) = DroppedDigit(m % Pow10[j], j)
    BY <1>1, <1>2, <1>5, <1>9 DEF NormalRem
  <2> HIDE DEF j, f
  <2>3. NormalRem(y, d) % 32 = 0 <=> f = 0
    BY <1>2, <2>1, <2>2, NormalRemZero DEF f
  <2>4. Reads(m, j, k, rem, g)
    <3>1. RemClass(g) = (IF f = 0 THEN A ELSE After(A)) \/ (RemClass(g) = A /\ rem % 16 # 0)
      <4>1. CASE f = 0
        BY <1>6, <1>7, <2>3, <4>1
      <4>2. CASE f # 0 /\ k > 1
        <5>1. g = IF c \in {0, 5} THEN c + 1 ELSE c
          BY <1>7, <2>3, <4>2
        <5>2. Combine(1, c) = g
          <6>1. (c \div 32) % 2 = 0 /\ c % 16 = c /\ 1 % 16 = 1
            BY <1>6, SMT
          <6> QED BY <5>1, <6>1 DEF Combine
        <5>3. RemClass(Combine(1, c)) = After(RemClass(c))
          <6>1. 1 \in Nat /\ 1 % 16 # 0
            BY SMT
          <6> QED BY <1>6, <6>1, CombineDigit
        <5> QED BY <1>6, <4>2, <5>2, <5>3
      <4>3. CASE f # 0 /\ k = 1
        <5>1. g = c
          BY <1>7, <4>3
        <5>2. CASE rem % 16 # 0
          BY <1>6, <5>1, <5>2
        <5>3. CASE rem % 16 = 0
          <6>1. g \notin {0, 5}
            <7> SUFFICES ASSUME g \in {0, 5} PROVE FALSE
              OBVIOUS
            <7>1. /\ Digits(y.mant) = d /\ y.exp + d - P = EMin - 1 /\ d > P
                  /\ 16 + g \in {16, 21} /\ y.mant % Pow10[d - P] # 0
              BY <1>9, <4>3 DEF f, j
            <7> QED BY <5>3, <7>1 DEF Drops
          <6>2. After(RemClass(g)) = RemClass(g)
            BY <1>2, <1>8, <6>1, CombineSubnormal
          <6> QED BY <1>6, <4>3, <5>1, <6>2
        <5> QED BY <5>2, <5>3
      <4>4. k > 1 \/ k = 1
        BY <1>4
      <4> QED BY <4>1, <4>2, <4>3, <4>4
    <3>2. A = Fraction((m \div Pow10[j]) % Pow10[k], Pow10[k])
      BY <2>2 DEF h
    <3> QED BY <3>1, <3>2 DEF Reads, f
  <2>5. Position(v, (m \div Pow10[j]) \div Pow10[k], y.exp + (j + k)) = RemClass(Combine(rem, 16 + g))
    <3>1. Digits(y.mant) - P <= j + k
      BY <2>1
    <3> QED BY <1>4, <1>8, <2>1, <2>4, <3>1, CutTwice
  <2> QED BY <2>1, <2>2, <2>5 DEF w
<1>10. CASE d <= P
  <2> DEFINE z == P - d
             i == y.exp - (b - 3)
             f == n - (m * Pow10[i])
  <2>1. z \in Nat /\ z <= MaxShift /\ i \in Nat /\ i \in 0..MaxShift /\ f = 0
    BY <1>1, <1>2, <1>10
  <2>2. n = m * Pow10[i] /\ rem % 16 = 0
    <3> DEFINE x1 == m * Pow10[i]
    <3>1. Pow10[i] \in Nat
      BY <2>1, PowerType
    <3>2. x1 \in Nat
      BY <1>2, <3>1
    <3>3. n = x1 + f
      BY <1>2 DEF LeftOver
    <3>4. (f = 0 <=> rem % 16 = 0) \/ f # 0
      BY <1>2 DEF LeftOver
    <3> HIDE DEF x1, f
    <3>5. n = x1
      BY <2>1, <3>2, <3>3
    <3> QED BY <2>1, <3>4, <3>5 DEF x1
  <2>3. w = m * Pow10[z]
    <3>1. CASE d = P
      <4>1. z = 0 /\ Pow10[0] = 1
        BY <1>1, <3>1, SmallPowers
      <4>2. m * Pow10[z] = m
        BY <1>2, <4>1
      <4> QED BY <1>5, <3>1, <4>2
    <3>2. CASE d # P
      <4>1. d < P
        BY <1>1, <1>2, <1>10, <3>2
      <4> QED BY <1>5, <4>1
    <3> QED BY <3>1, <3>2
  <2>4. g = c
    <3>1. NormalRem(y, d) \in {0, 32}
      BY <1>1, <1>2, <1>10 DEF NormalRem
    <3>2. NormalRem(y, d) % 32 = 0
      BY <3>1
    <3> QED BY <1>7, <3>2
  <2>5. CASE z < k
    <3> DEFINE j == k - z
    <3>1. /\ j \in Nat \ {0} /\ j + z = k /\ j + z <= MaxShift /\ 0 + j = j /\ d - P <= j
          /\ y.exp + j = EMin /\ i + j <= MaxShift
      BY <1>1, <1>2, <1>4, <2>1, <2>5
    <3> HIDE DEF j, z, i, f
    <3>2. w \div Pow10[k] = m \div Pow10[j] /\ A = Fraction(m % Pow10[j], Pow10[j])
      <4>1. /\ w \div Pow10[j + z] = m \div Pow10[j]
            /\ Fraction(w % Pow10[j + z], Pow10[j + z]) = Fraction(m % Pow10[j], Pow10[j])
        <5> HIDE DEF m
        <5> QED BY <1>2, <2>1, <2>3, <3>1, ZerosBehind
      <4> QED BY <3>1, <4>1 DEF h
    <3>3. m \div Pow10[0] = m /\ m % Pow10[0] = 0
      BY <1>2, NoShift
    <3>4. Reads(m, 0, j, rem, g)
      BY <1>6, <2>4, <3>2, <3>3 DEF Reads
    <3>5. Position(v, (m \div Pow10[0]) \div Pow10[j], y.exp + (0 + j)) = RemClass(Combine(rem, 16 + g))
      <4>1. Digits(y.mant) - P <= 0 + j /\ (y.exp - (b - 3)) + (0 + j) <= MaxShift
        BY <3>1 DEF i
      <4> QED BY <1>8, <3>1, <3>4, <4>1, CutTwice
    <3> QED BY <3>1, <3>2, <3>3, <3>5 DEF w
  <2>6. CASE k <= z
    <3> DEFINE t == z - k
               a == m * Pow10[t]
    <3>1. /\ t \in Nat /\ t + k = z /\ t + k <= MaxShift /\ 0 + k = k /\ 0 + k <= MaxShift
          /\ d + t <= P /\ EMin = ((b - 3) + i) - t /\ d + i <= MaxShift /\ t \in 0..MaxShift
      BY <1>1, <1>2, <1>4, <1>10, <2>1, <2>6
    <3> HIDE DEF t, z, f
    <3>2. Pow10[z] = Pow10[t] * Pow10[k] /\ Pow10[t] \in Nat
      BY <1>4, <3>1, PowerSum, PowerType
    <3>3. a \in Nat /\ w = a * Pow10[k]
      <4>1. (m * Pow10[t]) * h = m * (Pow10[t] * h) /\ m * Pow10[t] \in Nat
        BY <1>2, <1>4, <3>2
      <4> QED BY <2>3, <3>2, <4>1 DEF h
    <3> HIDE DEF a
    <3>4. w \div Pow10[k] = a /\ A = "EXACT"
      <4>1. /\ w \div Pow10[0 + k] = a \div Pow10[0]
            /\ Fraction(w % Pow10[0 + k], Pow10[0 + k]) = Fraction(a % Pow10[0], Pow10[0])
        BY <1>4, <3>1, <3>3, ZerosBehind
      <4>2. a \div Pow10[0] = a /\ a % Pow10[0] = 0
        BY <3>3, NoShift
      <4>3. Fraction(0, Pow10[0]) = "EXACT"
        BY SmallPowers, FractionMeaning
      <4> QED BY <3>1, <4>1, <4>2, <4>3 DEF h
    <3>5. Position(v, a, EMin) = "EXACT"
      <4> DEFINE o == b - 3
      <4>1. OnGrid(v, o, n) /\ EMin = (o + i) - t /\ m \in Nat \ {0}
        BY <1>2, <3>1
      <4> HIDE DEF o, i, m
      <4>2. Position(v, m * Pow10[t], EMin) = "EXACT"
        BY <1>2, <2>1, <2>2, <3>1, <4>1, WholeGrid
      <4> QED BY <4>2 DEF a
    <3>6. RemClass(Combine(rem, 16 + g)) = RemClass(g)
      BY <1>2, <1>8, <2>2, CombineSubnormal
    <3> QED BY <1>6, <2>4, <3>4, <3>5, <3>6 DEF w
  <2>7. z < k \/ k <= z
    BY <1>4, <2>1
  <2> QED BY <2>5, <2>6, <2>7
<1> QED BY <1>1, <1>2, <1>9, <1>10

\* What scale promises of y, when addsub left rem.
ScaledRight(v, y, rem, r) ==
  /\ v.n = 0 => r.x.special = "ZERO"
  /\ r.x.special = "ZERO" /\ v.n # 0 => Position(v, 0, EMin) = "BELOW"
  /\ r.x.special = "NUMBER" /\ r.rem # TotalOverflow /\ ~Drops(y, rem, r.rem)
       => Position(v, r.x.mant, r.x.exp) = RemClass(Combine(rem, r.rem))

LEMMA ScaleOutcome ==
  ASSUME Room, NEW v, NEW b, NEW n, OnGrid(v, b - 3, n), NEW y, NEW rem, Handed(y, rem, b, n),
         EMin <= b + (D - 1)
  PROVE  ScaledRight(v, y, rem, BidScale(y))
<1>1. /\ P \in Nat /\ P > 1 /\ D \in Nat /\ 2 * P + 2 <= D
      /\ MaxShift \in Nat /\ D + 2 <= MaxShift /\ EMin \in Int
  BY RegisterFacts, DecimalAssumption
<1> DEFINE m == y.mant
           i == y.exp - (b - 3)
           u == Pow10[i]
           f == n - (m * u)
           d == Digits(m)
           g == b - 3
           e == y.exp + d - P
           r == BidScale(y)
<1>2. /\ InRegister(y) /\ m \in Nat /\ y.exp \in Int /\ b \in Int /\ n \in Nat /\ rem \in Nat
      /\ i \in {3, 4} /\ u \in Nat \ {0} /\ f \in Nat /\ LeftOver(m, rem, u, n, f)
      /\ IsDigits(d, m) /\ d \in 1..(D + 1) /\ (i = 4 => d <= D) /\ (f # 0 => d >= D - 1)
  BY HandedFacts
<1>3. /\ m = 0 => r = Underflowed(y)
      /\ m # 0 => /\ r = ToRange(y, Normal(y, d), e, NormalRem(y, d))
                  /\ Normal(y, d) \in Nat /\ Pow10[P - 1] <= Normal(y, d) /\ Normal(y, d) < Pow10[P]
  BY <1>2, ScaleShape
<1>4. OnGrid(v, g, n) /\ (n = 0 <=> v.n = 0)
  BY GridType
<1>5. Normal(y, d) = IF d < P THEN m * Pow10[P - d] ELSE IF d = P THEN m ELSE m \div Pow10[d - P]
  BY DEF Normal
<1>6. NormalRem(y, d) = IF d < P THEN 0 ELSE IF d = P THEN 32 ELSE DroppedDigit(m % Pow10[d - P], d - P)
  BY DEF NormalRem
<1>7. d > P => LET k == d - P IN Position(v, m \div Pow10[k], y.exp + k)
                                   = RemClass(Combine(rem, DroppedDigit(m % Pow10[k], k)))
  <2> SUFFICES ASSUME d > P
               PROVE  LET k == d - P IN Position(v, m \div Pow10[k], y.exp + k)
                                          = RemClass(Combine(rem, DroppedDigit(m % Pow10[k], k)))
    OBVIOUS
  <2> DEFINE k == d - P
  <2>1. k \in Nat \ {0} /\ Digits(y.mant) - P <= k /\ i + k <= MaxShift
    <3>1. d - P <= k <=> Digits(y.mant) - P <= k
      OBVIOUS
    <3> HIDE DEF d, i
    <3>2. k \in Nat \ {0} /\ i + k <= MaxShift
      BY <1>1, <1>2
    <3> QED BY <3>1, <3>2
  <2> HIDE DEF k
  <2>2. Position(v, y.mant \div Pow10[k], y.exp + k) = RemClass(Combine(rem, DroppedDigit(y.mant % Pow10[k], k)))
    BY <2>1, CutDigits
  <2> QED BY <2>2 DEF k
<1> HIDE DEF m, d, f, u, r
<1>8. n = (m * u) + f /\ f <= u /\ (f # 0 => Pow10[D - 2] <= m) /\ ((f = 0 <=> rem % 16 = 0) \/ f # 0)
  BY <1>2 DEF LeftOver
<1>9. CASE m = 0
  <2>1. f = 0
    <3>1. Pow10[D - 2] \in Nat \ {0}
      BY WordFacts
    <3> QED BY <1>8, <1>9, <3>1
  <2>2. v.n = 0
    <3>1. n = 0
      BY <1>2, <1>8, <1>9, <2>1
    <3> QED BY <1>4, <3>1
  <2>3. r.x.special = "ZERO"
    BY <1>2, <1>3, <1>9 DEF Underflowed, InRegister, Impl
  <2> QED BY <2>2, <2>3 DEF ScaledRight, r
<1>10. CASE m # 0
  <2>1. r = ToRange(y, Normal(y, d), e, NormalRem(y, d))
        /\ Normal(y, d) \in Nat /\ Pow10[P - 1] <= Normal(y, d) /\ Normal(y, d) < Pow10[P]
    BY <1>3, <1>10
  <2>2. e \in Int
    BY <1>1, <1>2
  <2> HIDE DEF e
  <2>3. /\ r.x.special = "ZERO" => e < EMin - P
        /\ r.x.special = "NUMBER" /\ r.rem # TotalOverflow => EMin - P <= e /\ e <= EMax
        /\ EMin <= e /\ e <= EMax =>
             r.x.mant = Normal(y, d) /\ r.x.exp = e /\ r.rem = NormalRem(y, d)
        /\ e = EMin - P =>
             r.x.mant = 0 /\ r.x.exp = EMin /\ r.rem = 16 + Normal(y, d) \div Pow10[P - 1]
        /\ EMin - P < e /\ e < EMin =>
             LET k == EMin - e
             IN  /\ r.x.mant = Normal(y, d) \div Pow10[k] /\ r.x.exp = EMin
                 /\ r.rem = 16 + Merged(Normal(y, d), k, NormalRem(y, d))
    BY <1>2, <2>1, <2>2, RangeOutcome
  <2>4. v.n # 0 /\ n # 0
    <3>1. 1 * u <= m * u /\ m * u \in Nat
      BY <1>2, <1>10, TimesMonotonic
    <3>2. n # 0
      BY <1>2, <1>8, <3>1
    <3> QED BY <1>4, <3>2
  <2>5. ASSUME e < EMin - P PROVE Position(v, 0, EMin) = "BELOW"
    <3>2. g + (d + i) < EMin /\ EMin - g <= MaxShift
      BY <1>1, <1>2, <2>5 DEF e
    <3>1. i \in Nat /\ d + i \in Nat /\ d + i \in 0..MaxShift /\ d \in 0..MaxShift /\ i \in 0..MaxShift
      <4>1. i \in Nat /\ d \in Nat /\ g \in Int /\ EMin \in Int /\ MaxShift \in Nat
        BY <1>1, <1>2
      <4> HIDE DEF i, g, d
      <4> QED BY <3>2, <4>1
    <3>3. n <= Pow10[d + i]
      <4>1. m + 1 <= Pow10[d] /\ Pow10[d] \in Nat
        <5>1. m < Pow10[d] /\ Pow10[d] \in Nat
          BY <1>2, <3>1, PowerType DEF IsDigits
        <5> QED BY <1>2, <5>1
      <4>2. (m + 1) * u <= Pow10[d] * u
        BY <1>2, <4>1, TimesMonotonic
      <4>3. (m + 1) * u = (m * u) + u /\ m * u \in Nat /\ Pow10[d] * u \in Nat
        BY <1>2, <4>1
      <4>4. Pow10[d + i] = Pow10[d] * u
        BY <1>1, <3>1, PowerSum DEF u
      <4> DEFINE x1 == m * u
                 x2 == Pow10[d] * u
                 x3 == (m + 1) * u
      <4>5. x3 = x1 + u /\ x1 \in Nat /\ x2 \in Nat /\ x3 <= x2 /\ n = x1 + f
        BY <1>8, <4>2, <4>3
      <4> HIDE DEF x1, x2, x3
      <4>6. n <= x2
        BY <1>2, <1>8, <4>5
      <4> QED BY <4>4, <4>6 DEF x2
    <3> HIDE DEF i, g
    <3> QED BY <1>4, <2>4, <3>1, <3>2, <3>3, BelowGrid
  <2>6. Position(v, Normal(y, d), e) = RemClass(Combine(rem, NormalRem(y, d)))
    <3>1. CASE d > P
      <4>1. Normal(y, d) = m \div Pow10[d - P] /\ NormalRem(y, d) = DroppedDigit(m % Pow10[d - P], d - P)
        BY <1>1, <1>2, <1>5, <1>6, <3>1
      <4>2. e = y.exp + (d - P)
        BY <1>1, <1>2 DEF e
      <4> QED BY <1>7, <3>1, <4>1, <4>2
    <3>2. CASE d <= P
      <4> DEFINE w == P - d
      <4>1. f = 0 /\ rem % 16 = 0
        BY <1>1, <1>2, <1>8, <3>2
      <4>2. w \in Nat /\ d + w <= P /\ e = (g + i) - w /\ i \in Nat /\ d + i <= MaxShift /\ m \in Nat \ {0}
        BY <1>1, <1>2, <1>10, <3>2 DEF e
      <4>3. n = m * Pow10[i]
        BY <1>2, <1>8, <4>1 DEF u
      <4> HIDE DEF g, i
      <4>4. Position(v, m * Pow10[w], e) = "EXACT"
        <5> HIDE DEF w
        <5> QED BY <1>2, <1>4, <4>2, <4>3, WholeGrid
      <4>5. Normal(y, d) = m * Pow10[w]
        <5>1. CASE d = P
          <6>1. w = 0 /\ Pow10[0] = 1
            BY <1>1, <5>1, SmallPowers
          <6>2. m * Pow10[w] = m
            BY <1>2, <6>1
          <6> QED BY <1>5, <5>1, <6>2
        <5>2. CASE d # P
          <6>1. d < P
            BY <1>1, <1>2, <3>2, <5>2
          <6> QED BY <1>5, <6>1
        <5> QED BY <5>1, <5>2
      <4>6. RemClass(Combine(rem, NormalRem(y, d))) = "EXACT"
        <5>1. CASE d = P
          <6>1. NormalRem(y, d) = 32
            BY <1>1, <1>6, <5>1
          <6>2. Combine(rem, 32) = rem
            BY DEF Combine
          <6>3. RemClass(rem) = "EXACT"
            BY <4>1 DEF RemClass
          <6> QED BY <6>1, <6>2, <6>3
        <5>2. CASE d # P
          <6>1. NormalRem(y, d) = 0
            BY <1>1, <1>2, <1>6, <3>2, <5>2
          <6>2. RemClass(Combine(rem, 0)) = RemClass(0)
            BY <1>2, <4>1, CombineDigit
          <6>3. RemClass(0) = "EXACT"
            BY DEF RemClass
          <6> QED BY <6>1, <6>2, <6>3
        <5> QED BY <5>1, <5>2
      <4> QED BY <4>4, <4>5, <4>6
    <3> QED BY <1>1, <1>2, <3>1, <3>2
  <2>7. ASSUME e = EMin - P, ~Drops(y, rem, r.rem)
        PROVE  Position(v, r.x.mant, r.x.exp) = RemClass(Combine(rem, r.rem))
    <3> DEFINE q == Normal(y, d) \div Pow10[P - 1]
    <3>1. r.x.mant = 0 /\ r.x.exp = EMin /\ r.rem = 16 + q
      BY <2>3, <2>7
    <3>2. d = Digits(y.mant) /\ y.mant # 0 /\ y.exp + d - P = EMin - P
      BY <1>10, <2>7 DEF d, m, e
    <3>3. ~Drops(y, rem, 16 + q)
      BY <2>7, <3>1
    <3> HIDE DEF q
    <3>4. Position(v, 0, EMin) = RemClass(Combine(rem, 16 + q))
      BY <3>2, <3>3, UnderflowRight DEF q
    <3> QED BY <3>1, <3>4
  <2>8. ASSUME EMin - P < e, e < EMin, ~Drops(y, rem, r.rem)
        PROVE  Position(v, r.x.mant, r.x.exp) = RemClass(Combine(rem, r.rem))
    <3> DEFINE k == EMin - e
               q == Merged(Normal(y, d), k, NormalRem(y, d))
    <3>1. r.x.mant = Normal(y, d) \div Pow10[k] /\ r.x.exp = EMin /\ r.rem = 16 + q
      BY <2>3, <2>8
    <3>2. k \in 1..(P - 1) /\ e = EMin - k
      BY <1>1, <2>2, <2>8
    <3>3. d = Digits(y.mant) /\ y.mant # 0 /\ y.exp + d - P = EMin - k
      BY <1>10, <3>2 DEF d, m, e
    <3>4. ~Drops(y, rem, 16 + q)
      BY <2>8, <3>1
    <3> HIDE DEF q, k
    <3>5. Position(v, Normal(y, d) \div Pow10[k], EMin) = RemClass(Combine(rem, 16 + q))
      BY <3>2, <3>3, <3>4, SubnormalRight DEF q
    <3> QED BY <3>1, <3>5
  <2>9. ASSUME r.x.special = "NUMBER", r.rem # TotalOverflow, ~Drops(y, rem, r.rem)
        PROVE  Position(v, r.x.mant, r.x.exp) = RemClass(Combine(rem, r.rem))
    <3>1. EMin - P <= e /\ e <= EMax
      BY <2>3, <2>9
    <3>2. e = EMin - P \/ (EMin - P < e /\ e < EMin) \/ (EMin <= e /\ e <= EMax)
      BY <1>1, <2>2, <3>1
    <3> QED BY <2>3, <2>6, <2>7, <2>8, <2>9, <3>2
  <2> QED BY <2>3, <2>4, <2>5, <2>9 DEF ScaledRight, r
<1> QED BY <1>9, <1>10

-----------------------------------------------------------------------------
(* The call                                                                *)

\* The run is of this library.
Linked ==
  /\ \A s, a, c : ImplAddSub(s, a, c) = BidAddSub(s, a, c)
  /\ \A a, c : ImplMul(a, c) = BidMul(a, c) /\ ImplDiv(a, c) = BidDiv(a, c)
  /\ \A y : ImplScale(y) = BidScale(y)

\* The registers: addsub leaves a number in one, scale a number of the format.
CallInv ==
  /\ pc \in {"addsub", "scale", "done"}
  /\ sgn \in {-1, 1} /\ Addend(lhs) /\ Addend(rhs)
  /\ pc = "scale" => InRegister(x)
  /\ pc = "done" => FormatHolds(x, rem2)

\* The aligned operands fill the register but for its top.
LEMMA OperandsLeft ==
  ASSUME Room, Addend(lhs), Addend(rhs)
  PROVE  /\ IsLeft(left.m) /\ left.e \in Int /\ IsLeft(right.m) /\ right.e \in Int
         /\ IsLeft(big.m) /\ IsLeft(small.m) /\ gap \in Nat
<1>1. /\ left.m = LeftMant(lhs) /\ left.e \in Int /\ right.m = LeftMant(rhs) /\ right.e \in Int
  BY AlignResult DEF left, right
<1>2. IsLeft(left.m) /\ IsLeft(right.m)
  BY <1>1, LeftMantType DEF IsLeft
<1>3. CASE left.e > right.e
  <2>1. big = left /\ small = right
    BY <1>3 DEF big, small
  <2>2. gap \in Nat
    BY <1>1, <1>3, <2>1 DEF gap
  <2> QED BY <1>1, <1>2, <2>1, <2>2
<1>4. CASE ~(left.e > right.e)
  <2>1. big = right /\ small = left
    BY <1>4 DEF big, small
  <2>2. gap \in Nat
    BY <1>1, <1>4, <2>1 DEF gap
  <2> QED BY <1>1, <1>2, <2>1, <2>2
<1> QED BY <1>3, <1>4

\* The digit that addsub takes from what a division leaves is a natural, whatever
\* the comparison with Half made of it.
LEMMA FirstDigitType ==
  ASSUME NEW r \in Nat, NEW k \in 0..MaxShift
  PROVE  FirstDigit(r, k) \in Nat
<1> DEFINE d == RecipDiv(r, k)
           t == r - d * Pow10[k]
<1>1. d \in Nat
  BY Reciprocal
<1>2. FirstDigit(r, k) = IF k = 0 THEN r ELSE IF d \in {0, 5} /\ t % Half # 0 THEN d + 1 ELSE d
  BY DEF FirstDigit
<1> HIDE DEF d, t
<1> QED BY <1>1, <1>2

\* What a division by reciprocal leaves, and its complement, are naturals, even
\* when the quotient is one too small: then the whole divisor is left.
LEMMA RestType ==
  ASSUME NEW w \in Nat, NEW k \in 0..MaxShift
  PROVE  /\ w - (RecipDiv(w, k) * Pow10[k]) \in Nat
         /\ Pow10[k] - (w - (RecipDiv(w, k) * Pow10[k])) \in Nat
<1> DEFINE y == Pow10[k]
           q == RecipDiv(w, k)
           t == w \div y
           s == w % y
<1>1. y \in Nat \ {0}
  BY PowerType
<1>2. q = t \/ (q = t - 1 /\ s = 0)
  BY Reciprocal DEF Short
<1> HIDE DEF y
<1>3. t \in Nat /\ s \in 0..(y - 1) /\ (t * y) + s = w
  BY <1>1, DivMod
<1> HIDE DEF q, t, s
<1>4. CASE q = t
  <2>1. q * y = w - s
    BY <1>1, <1>3, <1>4
  <2> QED BY <1>1, <1>3, <2>1 DEF q, y
<1>5. CASE q = t - 1 /\ s = 0
  <2>1. q * y = (t * y) - y
    BY <1>1, <1>3, <1>5
  <2>2. t * y = w
    BY <1>1, <1>3, <1>5
  <2> QED BY <1>1, <2>1, <2>2 DEF q, y
<1> QED BY <1>2, <1>4, <1>5

\* addsub hands scale a remainder, in every branch of a sum or a difference.
LEMMA SumRemainder ==
  ASSUME Room, NEW m, IsLeft(m), NEW b \in Int, NEW sm, IsLeft(sm), NEW c \in Int, c <= b,
         NEW s \in {-1, 1}
  PROVE  /\ AddMant([m |-> m, e |-> b], [m |-> sm, e |-> c], s).rem \in Nat
         /\ SubMant([m |-> m, e |-> b], [m |-> sm, e |-> c], s).rem \in Nat
<1>1. /\ P \in Nat /\ P > 1 /\ D \in Nat /\ 2 * P + 2 <= D
      /\ MaxShift \in Nat /\ D + 2 <= MaxShift
  BY RegisterFacts
<1>2. Half \in Nat \ {0} /\ m \in Nat /\ sm \in Nat
  BY WordFacts DEF IsLeft
<1>3. \A w, e, t, r : Sum(w, e, t, r).rem = r
  BY DEF Sum
<1> DEFINE k == b - c
           q == RecipDiv(sm, k)
           t == m + sm
           rest0 == sm - (q * Pow10[k])
           z == Pow10[k] - rest0
           large == [m |-> m, e |-> b]
           little == [m |-> sm, e |-> c]
<1>4. k \in Nat /\ t % 10 \in Nat /\ sm % Half \in Nat
  BY <1>2
<1>5. ASSUME k \in 1..D PROVE FirstDigit(rest0, k - 1) \in Nat /\ FirstDigit(z, k - 1) \in Nat
  <2>1. k \in 0..MaxShift /\ k - 1 \in 0..MaxShift
    BY <1>1, <1>5
  <2> HIDE DEF k
  <2>2. rest0 \in Nat /\ z \in Nat
    BY <1>2, <2>1, RestType
  <2> HIDE DEF rest0, z
  <2> QED BY <2>1, <2>2, FirstDigitType
<1>6. AddMant(large, little, s).rem \in Nat
  <2>1. AddMant(large, little, s) =
          IF k > D THEN Sum(m, b, s, 1)
          ELSE IF k = 0 THEN IF t >= Word THEN Sum(t \div 10, b + 1, s, t % 10) ELSE Sum(t, b, s, 0)
          ELSE Sum(m + q, b, s, FirstDigit(rest0, k - 1))
    BY DEF AddMant
  <2>2. AddMant(large, little, s).rem \in {1, t % 10, 0} \/ (k # 0 /\ ~(k > D) /\
          AddMant(large, little, s).rem = FirstDigit(rest0, k - 1))
    BY <1>3, <2>1
  <2> HIDE DEF k, q, t, rest0
  <2> QED BY <1>1, <1>4, <1>5, <2>2
<1>7. SubMant(large, little, s).rem \in Nat
  <2> DEFINE w == (((m - q) - 1) * 10) + z
  <2>1. SubMant(large, little, s) =
          IF k > D THEN Sum(m - 1, b, s, sm % Half)
          ELSE IF k = 0 THEN IF m >= sm THEN Sum(m - sm, b, s, 0) ELSE Sum(sm - m, b, -s, 0)
          ELSE IF rest0 = 0 THEN Sum(m - q, b, s, 0)
          ELSE IF (m - q) - 1 >= Pow10[D - 1] THEN Sum((m - q) - 1, b, s, FirstDigit(z, k - 1))
          ELSE Sum(w % Word, b - 1, s, 0)
    BY DEF SubMant
  <2>2. SubMant(large, little, s).rem \in {sm % Half, 0} \/ (k # 0 /\ ~(k > D) /\
          SubMant(large, little, s).rem = FirstDigit(z, k - 1))
    BY <1>3, <2>1
  <2> HIDE DEF k, q, z, rest0
  <2> QED BY <1>1, <1>4, <1>5, <2>2
<1> QED BY <1>6, <1>7

\* addsub hands a sum to scale in a register, whatever the operands.
LEMMA AddSubRegister ==
  ASSUME Room, NEW s \in {-1, 1}, NEW a, Addend(a), NEW c, Addend(c)
  PROVE  InRegister(BidAddSub(s, a, c).x) /\ BidAddSub(s, a, c).rem \in Nat
<1> DEFINE l == Align(a)
           r == Align(c)
           es == s * c.sign
<1>1. IsLeft(l.m) /\ l.e \in Int /\ IsLeft(r.m) /\ r.e \in Int
  BY AlignResult, LeftMantType DEF IsLeft
<1>2. a.sign \in {-1, 1} /\ es \in {-1, 1}
  <2>1. a.sign \in {-1, 1} /\ c.sign \in {-1, 1}
    BY AddendDigits
  <2> QED BY <2>1
<1>3. l = [m |-> l.m, e |-> l.e] /\ r = [m |-> r.m, e |-> r.e]
  BY DEF Align
<1>4. BidAddSub(s, a, c) =
        LET g == IF l.e > r.e THEN l ELSE r
            h == IF l.e > r.e THEN r ELSE l
            t == IF l.e > r.e THEN a.sign ELSE es
        IN  IF es = a.sign THEN AddMant(g, h, t) ELSE SubMant(g, h, t)
  BY DEF BidAddSub
<1> HIDE DEF l, r, es
<1>5. CASE l.e > r.e
  <2>1. BidAddSub(s, a, c) \in {AddMant([m |-> l.m, e |-> l.e], [m |-> r.m, e |-> r.e], a.sign),
                                SubMant([m |-> l.m, e |-> l.e], [m |-> r.m, e |-> r.e], a.sign)}
    BY <1>3, <1>4, <1>5
  <2>2. r.e <= l.e
    BY <1>1, <1>5
  <2> QED BY <1>1, <1>2, <2>1, <2>2, SumInRegister, SumRemainder
<1>6. CASE ~(l.e > r.e)
  <2>1. BidAddSub(s, a, c) \in {AddMant([m |-> r.m, e |-> r.e], [m |-> l.m, e |-> l.e], es),
                                SubMant([m |-> r.m, e |-> r.e], [m |-> l.m, e |-> l.e], es)}
    BY <1>3, <1>4, <1>6
  <2>2. l.e <= r.e
    BY <1>1, <1>6
  <2> QED BY <1>1, <1>2, <2>1, <2>2, SumInRegister, SumRemainder
<1> QED BY <1>5, <1>6

LEMMA CallInvInit ==
  ASSUME AddendPairs, Init
  PROVE  CallInv
<1>1. PICK p \in Operands : lhs = p[1] /\ rhs = p[2]
  BY DEF Init
<1>2. pc = "addsub" /\ sgn \in {-1, 1}
  BY DEF Init
<1> QED BY <1>1, <1>2 DEF CallInv, AddendPairs

LEMMA CallInvNext ==
  ASSUME Room, Linked, CallInv, [Next]_vars
  PROVE  CallInv'
<1>1. CASE AddSub
  <2>1. pc' = "scale" /\ sgn' = sgn /\ lhs' = lhs /\ rhs' = rhs
    BY <1>1 DEF AddSub
  <2>2. x' = BidAddSub(sgn, lhs, rhs).x
    BY <1>1 DEF AddSub, Linked
  <2>3. sgn \in {-1, 1} /\ Addend(lhs) /\ Addend(rhs)
    BY DEF CallInv
  <2>4. InRegister(x')
    BY <2>2, <2>3, AddSubRegister
  <2> QED BY <2>1, <2>3, <2>4 DEF CallInv
<1>2. CASE ScaleSum
  <2>1. pc = "scale" /\ pc' = "done" /\ sgn' = sgn /\ lhs' = lhs /\ rhs' = rhs
    BY <1>2 DEF ScaleSum
  <2>2. x' = BidScale(x).x /\ rem2' = BidScale(x).rem
    BY <1>2 DEF ScaleSum, Linked
  <2>3. FormatHolds(x', rem2')
    BY <2>1, <2>2, ScaleFormat DEF CallInv
  <2> QED BY <2>1, <2>3 DEF CallInv
<1>3. CASE UNCHANGED vars
  BY <1>3 DEF CallInv, vars
<1> QED BY <1>1, <1>2, <1>3 DEF Next

LEMMA CallInvHolds ==
  ASSUME Room, Linked, AddendPairs
  PROVE  Spec => []CallInv
<1>1. Init => CallInv
  BY CallInvInit
<1>2. CallInv /\ [Next]_vars => CallInv'
  BY CallInvNext
<1> QED BY <1>1, <1>2, PTL DEF Spec

\* scale of libfpfd-bid brings whatever addsub returns, the wrong sums included,
\* to P digits or to the smallest exponent.
THEOREM BidInFormat ==
  ASSUME Room, Linked, AddendPairs
  PROVE  Spec => []InFormat
<1>1. CallInv => InFormat
  BY DEF CallInv, InFormat, FormatHolds
<1> QED BY <1>1, CallInvHolds, PTL

\* The carry out of an addition and the borrow of a subtraction that addsub of
\* libfpfd-bid provides for after it divided the smaller operand cannot happen:
\* the quotient leaves the register its top and is below the larger operand.
THEOREM BidNoCarryAfterDivision ==
  ASSUME Room, Linked, AddendPairs
  PROVE  Spec => []NoCarryAfterDivision
<1>1. CallInv => NoCarryAfterDivision
  <2> SUFFICES ASSUME CallInv, gap \in 1..D
               PROVE  big.m + quotient < Word /\ quotient < big.m
    BY DEF NoCarryAfterDivision
  <2>1. IsLeft(big.m) /\ IsLeft(small.m)
    BY OperandsLeft DEF CallInv
  <2> QED BY <2>1, QuotientFits DEF quotient
<1> QED BY <1>1, CallInvHolds, PTL

\* The operands of a call, as they stand in the registers.
LEMMA CallOrder ==
  ASSUME Room, sgn \in {-1, 1}, Addend(lhs), Addend(rhs), ~WrongExponent
  PROVE  /\ left = [m |-> LeftMant(lhs), e |-> LeftExp(lhs)]
         /\ right = [m |-> LeftMant(rhs), e |-> LeftExp(rhs)]
         /\ \E o \in {-1, 1} : BidAddSub(sgn, lhs, rhs) = Combined(~subtracts, big, small, o)
<1>1. Bsr(lhs.mant) # BadBsr /\ Bsr(rhs.mant) # BadBsr
  BY DEF WrongExponent
<1>2. /\ Align(lhs).m = LeftMant(lhs) /\ Align(lhs).e = LeftExp(lhs)
      /\ Align(rhs).m = LeftMant(rhs) /\ Align(rhs).e = LeftExp(rhs)
  BY <1>1, AlignResult
<1>3. \A a : Align(a) = [m |-> Align(a).m, e |-> Align(a).e]
  BY DEF Align
<1>4. /\ left = [m |-> LeftMant(lhs), e |-> LeftExp(lhs)]
      /\ right = [m |-> LeftMant(rhs), e |-> LeftExp(rhs)]
  BY <1>2, <1>3 DEF left, right
<1> DEFINE es == sgn * rhs.sign
           o == IF left.e > right.e THEN lhs.sign ELSE es
<1>5. lhs.sign \in {-1, 1} /\ es \in {-1, 1}
  <2>1. lhs.sign \in {-1, 1} /\ rhs.sign \in {-1, 1}
    BY AddendDigits
  <2> QED BY <2>1
<1>6. BidAddSub(sgn, lhs, rhs) = IF es = lhs.sign THEN AddMant(big, small, o) ELSE SubMant(big, small, o)
  BY DEF BidAddSub, big, small, left, right
<1>7. subtracts <=> es # lhs.sign
  BY DEF subtracts
<1> HIDE DEF es
<1>8. o \in {-1, 1}
  BY <1>5
<1> HIDE DEF o
<1>9. BidAddSub(sgn, lhs, rhs) = Combined(~subtracts, big, small, o)
  BY <1>6, <1>7 DEF Combined
<1> QED BY <1>4, <1>8, <1>9

\* The cases in which the remainder of addsub is not honest.
Excused == TooFar \/ ShortReciprocal \/ LowHalfZero

LEMMA NotExcused ==
  ASSUME Room, Addend(lhs), Addend(rhs), ~Excused
  PROVE  Shown(small.m, gap, ~subtracts)
<1>1. /\ D \in Nat /\ P \in Nat /\ P > 1 /\ 2 * P + 2 <= D /\ MaxShift \in Nat /\ D + 2 <= MaxShift
  BY RegisterFacts
<1>2. IsLeft(small.m) /\ gap \in Nat
  BY OperandsLeft
<1> DEFINE sm == small.m
           k == gap
           t == IF subtracts THEN Pow10[k] - (sm % Pow10[k]) ELSE sm % Pow10[k]
<1>3. ~(subtracts /\ k > D)
  BY DEF Excused, TooFar
<1>4. ASSUME k \in 1..D PROVE Seen(sm, t, k)
  <2>1. ~Short(sm, k)
    BY DEF Excused, ShortReciprocal, Short
  <2>2. k \in 0..MaxShift /\ sm \in Nat
    BY <1>1, <1>2, <1>4 DEF IsLeft
  <2>3. Pow10[k] \in Nat \ {0}
    BY <2>2, PowerType
  <2>4. quotient = sm \div Pow10[k]
    BY <2>1, <2>2 DEF quotient, RecipDiv, Short
  <2>5. sm = (sm \div Pow10[k]) * Pow10[k] + (sm % Pow10[k]) /\ sm % Pow10[k] \in Nat /\ sm \div Pow10[k] \in Nat
    <3> DEFINE p == Pow10[k]
    <3> HIDE DEF p, k, sm
    <3>1. sm = (sm \div p) * p + (sm % p) /\ sm % p \in Nat /\ sm \div p \in Nat
      <4>1. p \in Nat \ {0} /\ sm \in Nat
        BY <2>2, <2>3 DEF p
      <4> QED BY <4>1, DivMod
    <3> QED BY <3>1 DEF p
  <2>6. rest = sm % Pow10[k]
    <3>1. (sm \div Pow10[k]) * Pow10[k] \in Nat
      BY <2>3, <2>5
    <3>2. rest = sm - (sm \div Pow10[k]) * Pow10[k]
      BY <2>4 DEF rest
    <3> DEFINE x1 == (sm \div Pow10[k]) * Pow10[k]
               x2 == sm % Pow10[k]
    <3>3. rest = sm - x1 /\ sm = x1 + x2 /\ x1 \in Nat /\ x2 \in Nat
      BY <2>5, <3>1, <3>2
    <3> HIDE DEF x1, x2, k, sm
    <3>4. rest = x2
      BY <3>3
    <3> QED BY <3>4 DEF x2
  <2>7. t = IF subtracts THEN Pow10[k] - rest ELSE rest
    BY <2>6
  <2>8. ~(k = D /\ t % Pow10[D - 1] = 0)
    BY <2>7 DEF Excused, ShortReciprocal
  <2>9. ~Hides(t, k)
    BY <2>7 DEF Excused, LowHalfZero, Hides, Hidden
  <2> QED BY <2>1, <2>8, <2>9 DEF Seen
<1> QED BY <1>3, <1>4 DEF Shown

LEMMA NotReclaimed ==
  ASSUME Room, Addend(lhs), Addend(rhs), ~Reclaims, subtracts, gap \in 1..D
  PROVE  Borrows(big.m, small.m, gap)
<1>1. IsLeft(big.m) /\ IsLeft(small.m) /\ gap \in Nat
  BY OperandsLeft
<1>2. /\ quotient \in Nat /\ big.m \in Nat
  BY <1>1, QuotientBound DEF quotient, IsLeft
<1>3. Pow10[D - 1] \in Nat
  BY WordFacts
<1>4. rest # 0 => ~(big.m - quotient - 1 < Pow10[D-1])
  BY DEF Reclaims
<1>5. big.m - quotient - 1 = (big.m - quotient) - 1
  BY <1>2
<1>6. rest # 0 => Pow10[D - 1] <= (big.m - quotient) - 1
  BY <1>2, <1>3, <1>4, <1>5
<1> QED BY <1>6 DEF Borrows, rest, quotient

\* What addsub returns, unless it takes the wrong exponent or reclaims a digit:
\* a sum that scale can work with.
Summed(v, lo, y, rem, b, n) ==
  /\ b \in Int /\ n \in Nat /\ lo <= b + (D - 1)
  /\ OnGrid(v, b - 3, n) /\ Handed(y, rem, b, n)

LEMMA CallSum ==
  ASSUME Room, HalfSees, sgn \in {-1, 1}, Addend(lhs), Addend(rhs), rhs.mant < Pow10[P],
         ~WrongExponent, ~Reclaims
  PROVE  LET r == BidAddSub(sgn, lhs, rhs)
         IN  \E b, n : /\ Summed(SumOf(sgn, lhs, rhs), rhs.exp, r.x, r.rem, b, n)
                       /\ Excused \/ Truthful(r.x, r.rem, b, n)
<1> DEFINE c == [rhs EXCEPT !.sign = sgn * @]
           v == SumOf(sgn, lhs, rhs)
           r == BidAddSub(sgn, lhs, rhs)
<1>1. /\ c.exp = rhs.exp /\ c.mant = rhs.mant /\ c.sign = sgn * rhs.sign
      /\ LeftExp(lhs) \in Int /\ LeftExp(c) \in Int /\ LeftExp(c) = LeftExp(rhs)
      /\ c.exp <= LeftExp(c) + D - 1
      /\ LeftExp(lhs) >= LeftExp(c) => Larger(lhs, c, v)
      /\ LeftExp(c) >= LeftExp(lhs) => Larger(c, lhs, v)
  BY SumOrder
<1>2. LeftMant(c) = LeftMant(rhs)
  BY <1>1 DEF LeftMant
<1>3. /\ left = [m |-> LeftMant(lhs), e |-> LeftExp(lhs)]
      /\ right = [m |-> LeftMant(rhs), e |-> LeftExp(rhs)]
  BY CallOrder
<1>4. PICK o \in {-1, 1} : r = Combined(~subtracts, big, small, o)
  BY CallOrder
<1>5. ~subtracts <=> lhs.sign = c.sign
  BY <1>1 DEF subtracts
<1>6. /\ Multiple(LeftMant(lhs), D - 2*P) /\ Multiple(LeftMant(rhs), D - 2*P)
      /\ Multiple(LeftMant(rhs), D - P)
  <2>1. P \in Nat /\ P > 1
    BY RegisterFacts
  <2>2. 2*P \in 1..(2*P) /\ P \in 1..(2*P)
    BY <2>1
  <2>3. lhs.mant < Pow10[2*P] /\ rhs.mant < Pow10[2*P]
    BY DEF Addend
  <2>4. Multiple(LeftMant(lhs), D - 2*P)
    BY <2>2, <2>3, LeftMultiple
  <2>5. Multiple(LeftMant(rhs), D - 2*P)
    BY <2>2, <2>3, LeftMultiple
  <2>6. Multiple(LeftMant(rhs), D - P)
    BY <2>2, LeftMultiple
  <2> QED BY <2>4, <2>5, <2>6
<1>7. Excused \/ Shown(small.m, gap, ~subtracts)
  BY NotExcused
<1>8. subtracts /\ gap \in 1..D => Borrows(big.m, small.m, gap)
  BY NotReclaimed
<1>9. D \in Nat /\ rhs.exp \in Int
  BY RegisterFacts, AddendDigits
<1>10. ASSUME NEW l, NEW t, Larger(l, t, v), l.sign = t.sign <=> ~subtracts,
              big = [m |-> LeftMant(l), e |-> LeftExp(l)],
              small = [m |-> LeftMant(t), e |-> LeftExp(t)],
              Tails(LeftMant(l), LeftMant(t)),
              LeftExp(l) \in Int, rhs.exp <= LeftExp(l) + (D - 1)
       PROVE  \E b, n : Summed(v, rhs.exp, r.x, r.rem, b, n) /\ (Excused \/ Truthful(r.x, r.rem, b, n))
  <2>1. gap = LeftExp(l) - LeftExp(t) /\ big.m = LeftMant(l) /\ small.m = LeftMant(t)
    BY <1>10 DEF gap
  <2> DEFINE same == ~subtracts
  <2>2. same \in BOOLEAN /\ (same <=> l.sign = t.sign)
    BY <1>10 DEF subtracts
  <2>3. ~same /\ LeftExp(l) - LeftExp(t) \in 1..D =>
            Borrows(LeftMant(l), LeftMant(t), LeftExp(l) - LeftExp(t))
    BY <1>8, <2>1
  <2>4. r = Combined(same, [m |-> LeftMant(l), e |-> LeftExp(l)],
                           [m |-> LeftMant(t), e |-> LeftExp(t)], o)
    BY <1>4, <1>10
  <2>5. Excused \/ Shown(LeftMant(t), LeftExp(l) - LeftExp(t), same)
    BY <1>7, <2>1
  <2> HIDE DEF same, r, v
  <2>6. \E n \in Nat :
          /\ OnGrid(v, LeftExp(l) - 3, n) /\ Handed(r.x, r.rem, LeftExp(l), n)
          /\ Shown(LeftMant(t), LeftExp(l) - LeftExp(t), same) => Truthful(r.x, r.rem, LeftExp(l), n)
    BY <1>4, <1>10, <2>2, <2>3, <2>4, PairOutcome
  <2> QED BY <1>10, <2>5, <2>6 DEF Summed
<1> HIDE DEF c, v, r
<1>11. CASE LeftExp(lhs) > LeftExp(rhs)
  <2>1. big = left /\ small = right
    BY <1>3, <1>11 DEF big, small
  <2>2. Larger(lhs, c, v) /\ LeftExp(lhs) \in Int /\ rhs.exp <= LeftExp(lhs) + (D - 1)
    BY <1>1, <1>9, <1>11
  <2>3. Tails(LeftMant(lhs), LeftMant(c))
    BY <1>2, <1>6 DEF Tails
  <2>4. big = [m |-> LeftMant(lhs), e |-> LeftExp(lhs)] /\ small = [m |-> LeftMant(c), e |-> LeftExp(c)]
    BY <1>1, <1>2, <1>3, <2>1
  <2> QED BY <1>5, <1>10, <2>2, <2>3, <2>4 DEF v, r
<1>12. CASE ~(LeftExp(lhs) > LeftExp(rhs))
  <2>1. big = right /\ small = left
    BY <1>3, <1>12 DEF big, small
  <2>2. Larger(c, lhs, v) /\ LeftExp(c) \in Int /\ rhs.exp <= LeftExp(c) + (D - 1)
    BY <1>1, <1>9, <1>12
  <2>3. Tails(LeftMant(c), LeftMant(lhs))
    BY <1>2, <1>6 DEF Tails
  <2>4. small = [m |-> LeftMant(lhs), e |-> LeftExp(lhs)] /\ big = [m |-> LeftMant(c), e |-> LeftExp(c)]
    BY <1>1, <1>2, <1>3, <2>1
  <2> QED BY <1>5, <1>10, <2>2, <2>3, <2>4 DEF v, r
<1> QED BY <1>11, <1>12

\* The right operand is a number of the format, not a product.
ShortRight == \A p \in Operands : p[2].mant < Pow10[P]

Wrong == WrongExponent \/ Reclaims

\* Unless addsub went wrong, what it returned is the exact sum, truncated or not
\* as the remainder says, and what scale returned was made of that.
SumInv ==
  /\ CallInv /\ rhs.exp >= EMin /\ rhs.mant < Pow10[P]
  /\ pc = "scale" => x = BidAddSub(sgn, lhs, rhs).x
  /\ pc = "scale" /\ ~Wrong =>
       \E b, n : Summed(Value, EMin, x, rem1, b, n) /\ (Excused \/ Truthful(x, rem1, b, n))
  /\ pc = "done" /\ ~Wrong =>
       \E b, n, y : /\ y = BidAddSub(sgn, lhs, rhs).x
                    /\ Summed(Value, EMin, y, rem1, b, n)
                    /\ x = BidScale(y).x /\ rem2 = BidScale(y).rem

LEMMA SumInvInit ==
  ASSUME AddendPairs, ShortRight, Init
  PROVE  SumInv
<1>1. PICK p \in Operands : lhs = p[1] /\ rhs = p[2]
  BY DEF Init
<1>2. pc = "addsub"
  BY DEF Init
<1>3. CallInv
  BY CallInvInit
<1> QED BY <1>1, <1>2, <1>3 DEF SumInv, AddendPairs, ShortRight

\* The cases are properties of the operands alone.
LEMMA SameCases ==
  ASSUME sgn' = sgn, lhs' = lhs, rhs' = rhs
  PROVE  (Wrong' <=> Wrong) /\ (Excused' <=> Excused) /\ Value' = Value
<1>1. left' = left /\ right' = right
  BY DEF left, right
<1>2. big' = big /\ small' = small
  BY <1>1 DEF big, small
<1>3. gap' = gap /\ (subtracts' <=> subtracts)
  BY <1>2 DEF gap, subtracts
<1>4. quotient' = quotient
  BY <1>2, <1>3 DEF quotient
<1>5. rest' = rest
  BY <1>2, <1>3, <1>4 DEF rest
<1>6. WrongExponent' <=> WrongExponent
  BY DEF WrongExponent
<1>7. Reclaims' <=> Reclaims
  BY <1>2, <1>3, <1>4, <1>5 DEF Reclaims
<1>8. TooFar' <=> TooFar
  BY <1>3 DEF TooFar
<1>9. ShortReciprocal' <=> ShortReciprocal
  BY <1>2, <1>3, <1>5 DEF ShortReciprocal
<1>10. LowHalfZero' <=> LowHalfZero
  BY <1>3, <1>5 DEF LowHalfZero
<1>11. Value' = Value
  BY DEF Value
<1> QED BY <1>6, <1>7, <1>8, <1>9, <1>10, <1>11 DEF Wrong, Excused

LEMMA SumInvNext ==
  ASSUME Room, HalfSees, Linked, SumInv, [Next]_vars
  PROVE  SumInv'
<1>1. CallInv'
  BY CallInvNext DEF SumInv
<1>2. CASE AddSub
  <2>1. pc' = "scale" /\ sgn' = sgn /\ lhs' = lhs /\ rhs' = rhs
    BY <1>2 DEF AddSub
  <2> DEFINE r == BidAddSub(sgn, lhs, rhs)
  <2>2. x' = r.x /\ rem1' = r.rem
    <3>1. x' = ImplAddSub(sgn, lhs, rhs).x /\ rem1' = ImplAddSub(sgn, lhs, rhs).rem
      BY <1>2 DEF AddSub
    <3>2. ImplAddSub(sgn, lhs, rhs) = r
      BY DEF Linked
    <3> QED BY <3>1, <3>2
  <2>3. /\ sgn \in {-1, 1} /\ Addend(lhs) /\ Addend(rhs)
        /\ rhs.exp >= EMin /\ rhs.mant < Pow10[P]
    BY DEF SumInv, CallInv
  <2>4. Value' = SumOf(sgn, lhs, rhs)
    BY <2>1 DEF Value, SumOf
  <2>5. (Wrong' <=> Wrong) /\ (Excused' <=> Excused)
    BY <2>1, SameCases
  <2>6. ASSUME ~Wrong
        PROVE  \E b, n : Summed(Value', EMin, x', rem1', b, n) /\ (Excused \/ Truthful(x', rem1', b, n))
    <3>1. PICK b, n : Summed(SumOf(sgn, lhs, rhs), rhs.exp, r.x, r.rem, b, n)
                      /\ (Excused \/ Truthful(r.x, r.rem, b, n))
      BY <2>3, <2>6, CallSum DEF Wrong
    <3>2. EMin <= b + (D - 1)
      <4>1. rhs.exp \in Int /\ EMin \in Int /\ D \in Nat /\ b \in Int /\ rhs.exp <= b + (D - 1)
        BY <2>3, <3>1, AddendDigits, RegisterFacts, DecimalAssumption DEF Summed
      <4> QED BY <2>3, <4>1
    <3>3. Summed(Value', EMin, x', rem1', b, n)
      BY <2>2, <2>4, <3>1, <3>2 DEF Summed
    <3> QED BY <2>2, <3>1, <3>3
  <2>7. ~Wrong' => (\E b, n : Summed(Value, EMin, x, rem1, b, n) /\ (Excused \/ Truthful(x, rem1, b, n)))'
    BY <2>5, <2>6
  <2>8. x' = BidAddSub(sgn', lhs', rhs').x
    BY <2>1, <2>2
  <2> QED BY <1>1, <2>1, <2>3, <2>7, <2>8 DEF SumInv
<1>3. CASE ScaleSum
  <2>1. pc = "scale" /\ pc' = "done" /\ sgn' = sgn /\ lhs' = lhs /\ rhs' = rhs /\ rem1' = rem1
    BY <1>3 DEF ScaleSum
  <2>2. x' = BidScale(x).x /\ rem2' = BidScale(x).rem
    <3>1. x' = ImplScale(x).x /\ rem2' = ImplScale(x).rem
      BY <1>3 DEF ScaleSum
    <3>2. ImplScale(x) = BidScale(x)
      BY DEF Linked
    <3> QED BY <3>1, <3>2
  <2>3. Value' = Value /\ (Wrong' <=> Wrong)
    BY <2>1, SameCases
  <2>4. ASSUME ~Wrong
        PROVE  \E b, n, y : /\ y = BidAddSub(sgn', lhs', rhs').x
                            /\ Summed(Value', EMin, y, rem1', b, n)
                            /\ x' = BidScale(y).x /\ rem2' = BidScale(y).rem
    <3>1. PICK b, n : Summed(Value, EMin, x, rem1, b, n)
      BY <2>1, <2>4 DEF SumInv
    <3>2. Summed(Value', EMin, x, rem1', b, n)
      BY <2>1, <2>3, <3>1
    <3>3. x = BidAddSub(sgn', lhs', rhs').x
      BY <2>1 DEF SumInv
    <3> QED BY <2>2, <3>2, <3>3
  <2>5. rhs' = rhs /\ rhs.exp >= EMin /\ rhs.mant < Pow10[P]
    BY <2>1 DEF SumInv
  <2> QED BY <1>1, <2>1, <2>3, <2>4, <2>5 DEF SumInv
<1>4. CASE UNCHANGED vars
  <2>1. /\ pc' = pc /\ sgn' = sgn /\ lhs' = lhs /\ rhs' = rhs
        /\ x' = x /\ rem1' = rem1 /\ rem2' = rem2
    BY <1>4 DEF vars
  <2>2. (Wrong' <=> Wrong) /\ (Excused' <=> Excused) /\ Value' = Value
    BY <2>1, SameCases
  <2> QED BY <1>1, <2>1, <2>2 DEF SumInv
<1> QED BY <1>2, <1>3, <1>4 DEF Next

LEMMA SumInvHolds ==
  ASSUME Room, HalfSees, Linked, AddendPairs, ShortRight
  PROVE  Spec => []SumInv
<1>1. Init => SumInv
  BY SumInvInit
<1>2. SumInv /\ [Next]_vars => SumInv'
  BY SumInvNext
<1> QED BY <1>1, <1>2, PTL DEF Spec

\* The remainder of a sum is the class of its place between two numbers.
LEMMA HandedPosition ==
  ASSUME Room, NEW v, NEW lo, NEW y, NEW rem, NEW b, NEW n,
         Summed(v, lo, y, rem, b, n), Truthful(y, rem, b, n)
  PROVE  Position(v, y.mant, y.exp) = RemClass(rem)
<1>1. /\ y.mant \in Nat /\ y.exp \in Int /\ b \in Int /\ y.exp - (b - 3) \in {3, 4}
  BY HandedFacts DEF Summed
<1>2. MaxShift \in Nat /\ 4 <= MaxShift
  BY RegisterFacts
<1>3. b - 3 \in Int /\ b - 3 <= y.exp /\ y.exp - (b - 3) <= MaxShift
  BY <1>1, <1>2
<1> DEFINE g == b - 3
<1>4. OnGrid(v, g, n)
  BY DEF Summed
<1>5. g <= y.exp /\ y.exp - g <= MaxShift
  BY <1>3
<1> HIDE DEF g
<1>6. Position(v, y.mant, y.exp) = Fraction(n - y.mant * Pow10[y.exp - g], Pow10[y.exp - g])
  BY <1>1, <1>4, <1>5, GridPosition
<1> QED BY <1>6 DEF Truthful, g

\* addsub of libfpfd-bid, at every precision, register and exponent range: its
\* result is the exact sum truncated and its remainder is honest about what was
\* cut off, but for the wrong entry of bsr2exp, a reclaimed digit, operands out
\* of each other's reach, the short reciprocal and the comparison of 32 bits.
THEOREM BidAddSubHonest ==
  ASSUME Room, HalfSees, Linked, AddendPairs, ShortRight
  PROVE  Spec => []AddSubHonest
<1>1. SumInv => AddSubHonest
  <2> SUFFICES ASSUME SumInv, Added, ~Wrong, ~Excused
               PROVE  Honest(rem1)
    BY DEF AddSubHonest, Wrong, Excused
  <2>1. PICK b, n : Summed(Value, EMin, x, rem1, b, n) /\ Truthful(x, rem1, b, n)
    BY DEF SumInv, Added
  <2>2. Position(Value, x.mant, x.exp) = RemClass(rem1)
    BY <2>1, HandedPosition
  <2> QED BY <2>2 DEF Honest
<1> QED BY <1>1, SumInvHolds, PTL

\* The remainders that addsub gets wrong for distant operands, through the short
\* reciprocal or through the comparison of 32 bits do no harm: where the digit
\* that it returns is not the first of those it dropped, scale cuts off more, and
\* fpfd32_impl_round2's combination of the two remainders is honest about the
\* exact sum.  This includes the subnormal sums, whose digits scale drops in two
\* steps: the remainder of its normalisation is merged, or does not matter.  What
\* is left out are the two cases of addsub in which the sum itself is wrong, and
\* the loss of that remainder, with nothing from addsub, behind a digit 0 or 5
\* that is shifted out alone or is the first of all of them.
THEOREM BidCombinedHonest ==
  ASSUME Room, HalfSees, Linked, AddendPairs, ShortRight
  PROVE  Spec => []CombinedHonest
<1>1. SumInv => CombinedHonest
  <2> SUFFICES ASSUME SumInv, Scaled, ~Wrong, ~ScaleDrops
               PROVE  Honest(Combine(rem1, rem2))
    BY DEF CombinedHonest, Wrong
  <2>1. PICK b, n, y : /\ y = BidAddSub(sgn, lhs, rhs).x
                       /\ Summed(Value, EMin, y, rem1, b, n)
                       /\ x = BidScale(y).x /\ rem2 = BidScale(y).rem
    BY DEF SumInv, Scaled
  <2>2. ScaledRight(Value, y, rem1, BidScale(y))
    BY <2>1, ScaleOutcome DEF Summed
  <2>3. ~Drops(y, rem1, rem2)
    BY <2>1 DEF ScaleDrops
  <2> QED BY <2>1, <2>2, <2>3 DEF ScaledRight, Scaled, Honest
<1> QED BY <1>1, SumInvHolds, PTL

\* A sum becomes a zero when it is one or is less than half a unit of the
\* smallest exponent, and an exact zero always does, unless addsub takes the
\* wrong exponent or reclaims a digit.
THEOREM BidZeroIsZero ==
  ASSUME Room, HalfSees, Linked, AddendPairs, ShortRight
  PROVE  Spec => []ZeroIsZero
<1>1. SumInv => ZeroIsZero
  <2> SUFFICES ASSUME SumInv, pc = "done", ~Wrong
               PROVE  /\ Value.n = 0 => x.special = "ZERO"
                      /\ x.special = "ZERO" /\ Value.n # 0 => Position(Value, 0, EMin) = "BELOW"
    BY DEF ZeroIsZero, Wrong
  <2>1. PICK b, n, y : Summed(Value, EMin, y, rem1, b, n) /\ x = BidScale(y).x /\ rem2 = BidScale(y).rem
    BY DEF SumInv
  <2>2. ScaledRight(Value, y, rem1, BidScale(y))
    BY <2>1, ScaleOutcome DEF Summed
  <2> QED BY <2>1, <2>2 DEF ScaledRight
<1> QED BY <1>1, SumInvHolds, PTL

-----------------------------------------------------------------------------
(* The contract with the core                                              *)

\* Each branch of scale's range check leaves a zero or a number, with a remainder.
LEMMA RangeType ==
  ASSUME Room, NEW y, InRegister(y), NEW m \in Nat, NEW e \in Int, NEW rem \in Nat
  PROVE  LET r == ToRange(y, m, e, rem)
         IN  r.rem \in Nat /\ r.x \in Impl /\ r.x.special \in {"NUMBER", "ZERO"}
<1>1. /\ P \in Nat /\ P > 1 /\ D \in Nat /\ 2 * P + 2 <= D
      /\ MaxShift \in Nat /\ D + 2 <= MaxShift /\ EMin \in Int /\ EMax \in Int /\ EMin < EMax
  BY RegisterFacts, DecimalAssumption
<1>2. y \in Impl /\ y.special = "NUMBER"
  BY DEF InRegister
<1>3. MaxMant \in Nat /\ Pow10[P - 1] \in Nat \ {0}
  <2>1. P \in 0..MaxShift /\ P - 1 \in 0..MaxShift
    BY <1>1
  <2>2. Pow10[P] \in Nat \ {0} /\ Pow10[P - 1] \in Nat \ {0}
    BY <2>1, PowerType
  <2> QED BY <2>2 DEF MaxMant
<1> DEFINE put(w, q) == [y EXCEPT !.mant = w, !.exp = q]
<1>4. ASSUME NEW w \in Nat, NEW q \in Int
      PROVE  put(w, q) \in Impl /\ put(w, q).special = "NUMBER"
  BY <1>2 DEF Impl
<1>5. Overflowed(y).rem \in Nat /\ Overflowed(y).x \in Impl /\ Overflowed(y).x.special = "NUMBER"
  <2>1. Overflowed(y).x = put(MaxMant, EMax) /\ Overflowed(y).rem = 10
    BY DEF Overflowed
  <2> HIDE DEF put
  <2> QED BY <1>1, <1>3, <1>4, <2>1
<1>6. Underflowed(y).rem \in Nat /\ Underflowed(y).x \in Impl /\ Underflowed(y).x.special = "ZERO"
  BY <1>2 DEF Underflowed, Impl, Special
<1>7. PartialUnderflow(y, m).rem \in Nat
  <2> DEFINE h == Pow10[P - 1]
  <2>1. m \div h \in Nat
    BY <1>3, DivMod
  <2> HIDE DEF h
  <2>2. PartialUnderflow(y, m).rem = 16 + (m \div h)
    BY DEF PartialUnderflow, h
  <2> QED BY <2>1, <2>2
<1>8. PartialUnderflow(y, m).x \in Impl /\ PartialUnderflow(y, m).x.special = "NUMBER"
  <2>1. PartialUnderflow(y, m).x = put(0, EMin)
    BY DEF PartialUnderflow
  <2> HIDE DEF put
  <2> QED BY <1>1, <1>4, <2>1
<1>9. ASSUME EMin - e \in 1..P
      PROVE  /\ Subnormal(y, m, EMin - e, rem).rem \in Nat
             /\ Subnormal(y, m, EMin - e, rem).x \in Impl
             /\ Subnormal(y, m, EMin - e, rem).x.special = "NUMBER"
  <2> DEFINE k == EMin - e
             h == Pow10[k]
             d == DroppedDigit(m % h, k)
             g == IF k > 1 /\ d \in {0, 5} /\ rem % 32 # 0 THEN d + 1 ELSE d
             r == Subnormal(y, m, k, rem)
  <2>1. k \in 0..MaxShift
    BY <1>1, <1>9
  <2>2. r = [x |-> [y EXCEPT !.mant = m \div h, !.exp = EMin], rem |-> 16 + g]
    BY DEF Subnormal
  <2> HIDE DEF k, r
  <2>3. h \in Nat \ {0}
    BY <2>1, PowerType
  <2>4. m \div h \in Nat /\ m % h \in Nat /\ m % h < h
    <3> HIDE DEF h
    <3>1. m \div h \in Nat /\ m % h \in 0..(h - 1)
      BY <2>3, DivMod
    <3> QED BY <2>3, <3>1
  <2>5. d \in 0..9
    BY <2>1, <2>4, DropClass
  <2> HIDE DEF d
  <2>6. g \in Nat
    BY <2>5
  <2> HIDE DEF g, h
  <2>7. r.rem = 16 + g /\ r.x = [y EXCEPT !.mant = m \div h, !.exp = EMin]
    BY <2>2
  <2>8. r.rem \in Nat /\ r.x \in Impl /\ r.x.special = "NUMBER"
    <3> DEFINE w == m \div h
    <3>1. w \in Nat /\ r.x = put(w, EMin)
      BY <2>4, <2>7
    <3> HIDE DEF w, put
    <3>2. r.x \in Impl /\ r.x.special = "NUMBER"
      BY <1>1, <1>4, <3>1
    <3>3. 16 + g \in Nat
      BY <2>6
    <3> QED BY <2>7, <3>2, <3>3
  <2> QED BY <2>8 DEF r, k
<1> DEFINE r == ToRange(y, m, e, rem)
           Good == r.rem \in Nat /\ r.x \in Impl /\ r.x.special \in {"NUMBER", "ZERO"}
<1>10. ASSUME e > EMax PROVE Good
  <2>1. r = Overflowed(y)
    <3>1. ~(e < EMin - P) /\ ~(e = EMin - P) /\ ~(e > EMin - P /\ e < EMin) /\ ~(e >= EMin /\ e <= EMax)
      BY <1>1, <1>10
    <3> QED BY <1>10, <3>1 DEF ToRange
  <2> QED BY <1>5, <2>1
<1>11. ASSUME e < EMin - P PROVE Good
  <2>1. r = Underflowed(y)
    <3>1. ~(e > EMax) /\ ~(e = EMin - P) /\ ~(e > EMin - P /\ e < EMin) /\ ~(e >= EMin /\ e <= EMax)
      BY <1>1, <1>11
    <3> QED BY <1>11, <3>1 DEF ToRange
  <2> QED BY <1>6, <2>1
<1>12. ASSUME e = EMin - P PROVE Good
  <2>1. r = PartialUnderflow(y, m)
    <3>1. ~(e > EMax) /\ ~(e < EMin - P) /\ ~(e > EMin - P /\ e < EMin) /\ ~(e >= EMin /\ e <= EMax)
      BY <1>1, <1>12
    <3> QED BY <1>12, <3>1 DEF ToRange
  <2> QED BY <1>7, <1>8, <2>1
<1>13. ASSUME e > EMin - P /\ e < EMin PROVE Good
  <2>1. r = Subnormal(y, m, EMin - e, rem)
    <3>1. ~(e > EMax) /\ ~(e < EMin - P) /\ ~(e = EMin - P) /\ ~(e >= EMin /\ e <= EMax)
      BY <1>1, <1>13
    <3> QED BY <1>13, <3>1 DEF ToRange
  <2>2. EMin - e \in 1..P
    BY <1>1, <1>13
  <2> QED BY <1>9, <2>1, <2>2
<1>14. ASSUME e >= EMin /\ e <= EMax PROVE Good
  <2>1. r = [x |-> [y EXCEPT !.mant = m, !.exp = e], rem |-> rem]
    <3>1. ~(e > EMax) /\ ~(e < EMin - P) /\ ~(e = EMin - P) /\ ~(e > EMin - P /\ e < EMin)
      BY <1>1, <1>14
    <3> QED BY <1>14, <3>1 DEF ToRange
  <2>2. r.x = put(m, e) /\ r.rem = rem
    BY <2>1
  <2> HIDE DEF r, put
  <2> QED BY <1>4, <2>2
<1>15. e > EMax \/ e < EMin - P \/ e = EMin - P \/ (e > EMin - P /\ e < EMin) \/ (e >= EMin /\ e <= EMax)
  BY <1>1
<1>16. Good
  <2> HIDE DEF Good, r
  <2> QED BY <1>15, <1>10, <1>11, <1>12, <1>13, <1>14
<1> QED BY <1>16

\* scale turns whatever fits a register into a zero or a number of the format.
LEMMA ScaleFits ==
  ASSUME Room, NEW y, InRegister(y)
  PROVE  BidScale(y).rem \in Nat /\ BidScale(y).x \in Impl /\ Fitted(BidScale(y).x)
<1> DEFINE d == Digits(y.mant)
           r == BidScale(y)
<1>0. y \in Impl
  BY DEF InRegister
<1>1. r.rem \in Nat /\ r.x \in Impl /\ r.x.special \in {"NUMBER", "ZERO"}
  <2>1. CASE y.mant = 0
    <3>1. r = Underflowed(y)
      BY <2>1, ScaleShape
    <3> QED BY <1>0, <3>1 DEF Underflowed, Impl, Special
  <2>2. CASE y.mant # 0
    <3>1. /\ r = ToRange(y, Normal(y, d), y.exp + d - P, NormalRem(y, d))
          /\ Normal(y, d) \in Nat /\ y.exp \in Int /\ d \in 1..(D + 1)
      BY <2>2, ScaleShape
    <3>2. y.exp + d - P \in Int
      BY <3>1, RegisterFacts
    <3>3. NormalRem(y, d) \in Nat
      <4> HIDE DEF d
      <4>1. CASE d <= P
        BY <3>1, <4>1, RegisterFacts DEF NormalRem
      <4>2. CASE P < d
        <5> DEFINE k == d - P
                   h == Pow10[k]
        <5>1. k \in 0..MaxShift
          BY <3>1, <4>2, RegisterFacts
        <5>2. NormalRem(y, d) = DroppedDigit(y.mant % h, k)
          BY <3>1, <4>2, RegisterFacts DEF NormalRem
        <5> HIDE DEF k
        <5>3. h \in Nat \ {0} /\ y.mant \in Nat
          BY <1>0, <5>1, PowerType DEF Impl
        <5>4. y.mant % h \in Nat /\ y.mant % h < h
          <6> HIDE DEF h
          <6>1. y.mant % h \in 0..(h - 1)
            BY <5>3, DivMod
          <6> QED BY <5>3, <6>1
        <5> QED BY <5>1, <5>2, <5>4, DropClass
      <4> QED BY <3>1, <4>1, <4>2, RegisterFacts
    <3> QED BY <3>1, <3>2, <3>3, RangeType
  <2> QED BY <2>1, <2>2
<1>2. FormatHolds(r.x, r.rem)
  BY ScaleFormat
<1>3. ASSUME r.x.special = "NUMBER" PROVE Canonical(r.x.mant, r.x.exp)
  <2>1. /\ r.x.mant < Pow10[P] /\ r.x.exp \in EMin..EMax
        /\ r.x.mant >= Pow10[P-1] \/ r.x.exp = EMin
    BY <1>2, <1>3 DEF FormatHolds
  <2>2. r.x.mant \in Nat
    BY <1>1 DEF Impl
  <2>3. Pow10[P] \in Nat
    <3>1. P \in 0..MaxShift
      BY RegisterFacts
    <3> QED BY <3>1, PowerType
  <2> HIDE DEF r
  <2> QED BY <2>1, <2>2, <2>3 DEF Canonical, MaxMant
<1> QED BY <1>1, <1>3 DEF Fitted

\* mul hands the whole product to scale or to addsub.
LEMMA ProductHands ==
  ASSUME Room, NEW a \in Operand, NEW b \in Operand
  PROVE  InRegister(BidMul(a, b)) /\ Addend(BidMul(a, b))
<1>1. /\ P \in Nat /\ P > 1 /\ D \in Nat /\ 2 * P + 2 <= D
      /\ MaxShift \in Nat /\ D + 2 <= MaxShift
  BY RegisterFacts
<1>2. /\ a.mant \in Nat \ {0} /\ a.mant < Pow10[P] /\ a.exp \in Int /\ a.sign \in {-1, 1}
      /\ b.mant \in Nat \ {0} /\ b.mant < Pow10[P] /\ b.exp \in Int /\ b.sign \in {-1, 1}
  BY OperandFacts
<1> DEFINE w == a.mant * b.mant
<1>5. w \in Nat \ {0} /\ w < Pow10[2 * P]
  BY <1>2, ProductShort
<1> HIDE DEF w
<1>6. w < Word
  <2>1. 2 * P \in 0..MaxShift /\ D - 1 \in 0..MaxShift /\ 2 * P <= D - 1
    BY <1>1
  <2>2. Pow10[2 * P] <= Pow10[D - 1] /\ Pow10[D - 1] \in Nat /\ Pow10[2 * P] \in Nat
    BY <2>1, PowerOrder, PowerType
  <2> QED BY <1>5, <2>2, WordFacts
<1>7. w % Word = w
  BY <1>5, <1>6, WordFacts, ModSmall
<1>8. a.exp + b.exp \in Int /\ a.sign * b.sign \in {-1, 1}
  BY <1>2
<1>9. BidMul(a, b) = Number(w, a.exp + b.exp, a.sign * b.sign)
  BY <1>7 DEF BidMul, w
<1> QED BY <1>5, <1>6, <1>8, <1>9 DEF Number, InRegister, Addend, Impl, Special, Sign

\* The rounds of the division are at most two, and the quotient of the last one is at
\* most one round longer than what was too short.
LEMMA QuotientShort ==
  ASSUME Room, NEW a \in Nat \ {0}, NEW b \in Nat \ {0}, a < Pow10[P], b < Pow10[P]
  PROVE  /\ DivRounds(a, b) \in 0..2
         /\ LET q == (a * Pow10[P * DivRounds(a, b)]) \div b
            IN  q \in Nat /\ q < Pow10[2 * P]
<1>1. /\ P \in Nat /\ P > 1 /\ D \in Nat /\ 2 * P + 2 <= D
      /\ MaxShift \in Nat /\ D + 2 <= MaxShift
  BY RegisterFacts
<1> DEFINE h == Pow10[P - 1]
           y == Pow10[P]
           N(k) == a * Pow10[P * k]
           Q(k) == N(k) \div b
           Least(n) == Q(n) >= h /\ \A i \in 0..(n - 1) : Q(i) < h
           n0 == DivRounds(a, b)
<1>2. /\ h \in Nat \ {0} /\ y \in Nat \ {0} /\ y = 10 * h /\ Pow10[2 * P] = y * y
  <2>1. P - 1 \in 0..MaxShift /\ P \in 1..MaxShift /\ P \in 0..MaxShift /\ P + P = 2 * P /\ P + P <= MaxShift
    BY <1>1
  <2>2. Pow10[2 * P] = y * y
    BY <1>1, <2>1, PowerSum
  <2> QED BY <2>1, <2>2, PowerType, DecimalAssumption
<1>3. N(0) = a /\ N(1) = a * y /\ N(2) = a * (y * y)
  <2>1. P * 0 = 0 /\ P * 1 = P /\ P * 2 = 2 * P /\ Pow10[0] = 1
    BY <1>1, DecimalAssumption
  <2> QED BY <1>2, <2>1
<1>4. DivRounds(a, b) = CHOOSE n \in 0..2 : Least(n)
  BY Zenon DEF DivRounds
<1> HIDE DEF h, y, N
<1>5. N(0) \in Nat /\ N(1) \in Nat /\ N(2) \in Nat /\ N(1) = N(0) * y /\ N(2) = N(1) * y
  BY <1>2, <1>3
<1>6. Q(0) \in Nat /\ Q(1) \in Nat /\ Q(2) \in Nat
  BY <1>5, DivMod
<1>7. Q(2) >= h
  <2> DEFINE c == N(2)
             q == c \div b
             s == c % b
  <2>1. c \in Nat /\ y * y <= c
    BY <1>2, <1>3, <1>5
  <2> HIDE DEF c
  <2>2. q \in Nat /\ s \in 0..(b - 1) /\ (q * b) + s = c
    BY <2>1, DivMod
  <2> HIDE DEF q, s
  <2>3. SUFFICES ASSUME q < y PROVE FALSE
    BY <1>2, <2>2 DEF q, c
  <2>4. (q + 1) * b <= y * b /\ y * b < y * y
    BY <1>2, <2>2, <2>3, b < y DEF y
  <2>5. (q + 1) * b = (q * b) + b /\ q * b \in Nat
    BY <2>2
  <2> QED BY <1>2, <2>1, <2>2, <2>4, <2>5
<1> HIDE DEF Q
<1>8. \E n \in 0..2 : Least(n)
  <2>1. CASE Q(0) >= h
    BY <2>1
  <2>2. CASE ~(Q(0) >= h) /\ Q(1) >= h
    <3>1. \A i \in 0..(1 - 1) : i = 0
      OBVIOUS
    <3>2. Least(1)
      BY <1>2, <1>6, <2>2, <3>1
    <3> QED BY <3>2
  <2>3. CASE ~(Q(0) >= h) /\ ~(Q(1) >= h)
    <3>1. \A i \in 0..(2 - 1) : i = 0 \/ i = 1
      OBVIOUS
    <3>2. Least(2)
      BY <1>2, <1>6, <1>7, <2>3, <3>1
    <3> QED BY <3>2
  <2> QED BY <2>1, <2>2, <2>3
<1>9. n0 \in 0..2 /\ Least(n0)
  <2> HIDE DEF Least
  <2> QED BY <1>4, <1>8, Zenon
<1> HIDE DEF n0
<1>10. Q(n0) \in Nat /\ Q(n0) < y * y
  <2>1. CASE n0 = 0
    <3>1. Q(0) <= a
      BY <1>3, <1>5, DivMod DEF Q
    <3>2. a < y /\ y <= y * y
      BY <1>2 DEF y
    <3> QED BY <1>2, <1>6, <2>1, <3>1, <3>2
  <2>2. ASSUME NEW u \in Nat, NEW v \in Nat, v = u * y, u \div b < h, u \div b \in Nat
        PROVE  v \div b \in Nat /\ v \div b < y * y
    <3> DEFINE q == u \div b
               s == u % b
               r == v \div b
               t == v % b
    <3>1. q \in Nat /\ s \in 0..(b - 1) /\ (q * b) + s = u
      BY DivMod
    <3>2. r \in Nat /\ t \in 0..(b - 1) /\ (r * b) + t = v
      BY <2>2, DivMod
    <3>3. q + 1 <= h
      BY <1>2, <2>2, <3>1
    <3> HIDE DEF q, s, r, t
    <3>4. u < (q + 1) * b
      BY <3>1
    <3>5. (q + 1) * b <= h * b /\ h * b \in Nat
      BY <1>2, <3>1, <3>3, TimesMonotonic
    <3>6. u < h * b
      BY <3>1, <3>4, <3>5
    <3>7. u * y < (h * b) * y
      BY <1>2, <3>5, <3>6
    <3>8. r * b <= v
      BY <3>2
    <3>9. r * b < (h * y) * b
      BY <1>2, <2>2, <3>2, <3>7, <3>8
    <3>10. r < h * y
      <4>1. ASSUME h * y <= r PROVE FALSE
        <5>1. (h * y) * b <= r * b /\ (h * y) * b \in Nat /\ r * b \in Nat
          BY <1>2, <3>2, <4>1, TimesMonotonic
        <5> QED BY <3>9, <5>1
      <4> QED BY <1>2, <3>2, <4>1
    <3>11. h * y <= y * y /\ h * y \in Nat /\ y * y \in Nat
      BY <1>2, TimesMonotonic
    <3> QED BY <3>2, <3>10, <3>11 DEF r
  <2>3. CASE n0 = 1
    <3>1. 0 \in 0..(n0 - 1)
      BY <2>3
    <3>2. Q(0) < h
      BY <1>9, <3>1
    <3> QED BY <1>5, <1>6, <2>2, <2>3, <3>2 DEF Q
  <2>4. CASE n0 = 2
    <3>1. 1 \in 0..(n0 - 1)
      BY <2>4
    <3>2. Q(1) < h
      BY <1>9, <3>1
    <3> QED BY <1>5, <1>6, <2>2, <2>4, <3>2 DEF Q
  <2> QED BY <1>9, <2>1, <2>3, <2>4
<1> QED BY <1>2, <1>9, <1>10 DEF n0, Q, N, y

\* div hands scale a quotient in a register, and a remainder.
LEMMA QuotientHands ==
  ASSUME Room, NEW a \in Operand, NEW b \in Operand
  PROVE  InRegister(BidDiv(a, b).x) /\ BidDiv(a, b).rem \in Nat
<1>1. /\ P \in Nat /\ P > 1 /\ D \in Nat /\ 2 * P + 2 <= D
      /\ MaxShift \in Nat /\ D + 2 <= MaxShift
  BY RegisterFacts
<1>2. /\ a.mant \in Nat \ {0} /\ a.mant < Pow10[P] /\ a.exp \in Int /\ a.sign \in {-1, 1}
      /\ b.mant \in Nat \ {0} /\ b.mant < Pow10[P] /\ b.exp \in Int /\ b.sign \in {-1, 1}
  BY OperandFacts
<1> DEFINE n == DivRounds(a.mant, b.mant)
           c == a.mant * Pow10[P * n]
           q == c \div b.mant
           s == 10 * (c % b.mant)
           d == s \div b.mant
           t == d \in {0, 5} /\ s % b.mant # 0
<1>3. n \in 0..2 /\ q \in Nat /\ q < Pow10[2 * P]
  BY <1>2, QuotientShort
<1>4. BidDiv(a, b) = [x |-> Number(q, a.exp - b.exp - P * n, a.sign * b.sign),
                      rem |-> IF t THEN d + 1 ELSE d]
  BY DEF BidDiv
<1> HIDE DEF n
<1>5. c \in Nat
  <2>1. P * n \in 0..MaxShift
    <3>1. n = 0 \/ n = 1 \/ n = 2
      BY <1>3
    <3> QED BY <1>1, <3>1
  <2>2. Pow10[P * n] \in Nat
    BY <2>1, PowerType
  <2> QED BY <1>2, <2>2
<1>6. a.exp - b.exp - P * n \in Int /\ a.sign * b.sign \in {-1, 1}
  <2>1. P * n \in Int
    BY <1>1, <1>3
  <2> QED BY <1>2, <2>1
<1> HIDE DEF c, q
<1>7. d \in Nat
  <2>1. c % b.mant \in Nat
    <3>1. c % b.mant \in 0..(b.mant - 1)
      BY <1>2, <1>5, DivMod
    <3> QED BY <3>1
  <2>2. s \in Nat
    BY <2>1
  <2> HIDE DEF s
  <2> QED BY <1>2, <2>2, DivMod
<1>8. q < Word
  <2>1. 2 * P \in 0..MaxShift /\ D - 1 \in 0..MaxShift /\ 2 * P <= D - 1
    BY <1>1
  <2>2. Pow10[2 * P] <= Pow10[D - 1] /\ Pow10[D - 1] \in Nat /\ Pow10[2 * P] \in Nat
    BY <2>1, PowerOrder, PowerType
  <2> QED BY <1>3, <2>2, WordFacts
<1> HIDE DEF d, t
<1>9. BidDiv(a, b).rem \in Nat
  BY <1>4, <1>7
<1>10. BidDiv(a, b).x = Number(q, a.exp - b.exp - P * n, a.sign * b.sign)
  BY <1>4
<1> QED BY <1>3, <1>6, <1>8, <1>9, <1>10 DEF Number, InRegister, Impl, Special, Sign

\* libfpfd-bid keeps the contract that the core needs, its wrong sums included: whatever
\* add, sub, mul, div and fma get from it is a zero or a number of the format.
THEOREM BidLibraryDelivers ==
  ASSUME Room, Linked
  PROVE  LibraryDelivers(Operand)
<1>1. ASSUME NEW y, InRegister(y) PROVE y \in Impl /\ Scalable(y)
  BY <1>1, ScaleFits DEF Linked, Scalable, InRegister
<1>2. ASSUME NEW s \in Sign, NEW a, Addend(a), NEW c, Addend(c)
      PROVE  Delivers(ImplAddSub(s, a, c))
  <2>1. s \in {-1, 1}
    BY DEF Sign
  <2>2. InRegister(BidAddSub(s, a, c).x) /\ BidAddSub(s, a, c).rem \in Nat
    BY <1>2, <2>1, AddSubRegister
  <2> QED BY <1>1, <2>2 DEF Linked, Delivers
<1> SUFFICES ASSUME NEW a \in Operand, NEW b \in Operand
             PROVE  /\ \A s \in Sign : Delivers(ImplAddSub(s, a, b))
                    /\ ImplMul(a, b) \in Impl /\ Scalable(ImplMul(a, b))
                    /\ Delivers(ImplDiv(a, b))
                    /\ \A c \in Operand : Delivers(ImplAddSub(1, ImplMul(a, b), c))
  BY DEF LibraryDelivers
<1>3. Addend(a) /\ Addend(b) /\ \A c \in Operand : Addend(c)
  BY OperandFacts
<1>4. ImplMul(a, b) = BidMul(a, b) /\ ImplDiv(a, b) = BidDiv(a, b)
  BY DEF Linked
<1>5. InRegister(BidMul(a, b)) /\ Addend(BidMul(a, b))
  BY ProductHands
<1>6. InRegister(BidDiv(a, b).x) /\ BidDiv(a, b).rem \in Nat
  BY QuotientHands
<1>7. 1 \in Sign
  BY DEF Sign
<1>8. Delivers(ImplDiv(a, b))
  BY <1>1, <1>4, <1>6 DEF Delivers
<1> QED BY <1>1, <1>2, <1>3, <1>4, <1>5, <1>7, <1>8
=============================================================================
