---------------------------- MODULE SumCallProofs ----------------------------
(***************************************************************************)
(* The exact sum of module SumCall, for every precision, exponent range and *)
(* pair of operands: it is a number of thousandths of the last place of the *)
(* larger operand's register, made of that operand and of the place where    *)
(* the smaller one is cut.  The proofs about either library start from here.*)
(***************************************************************************)
EXTENDS SumCall, RoundingProofs


-----------------------------------------------------------------------------
(* Values on a grid                                                        *)

\* The magnitude of v is n units of 10^g.
OnGrid(v, g, n) ==
  /\ v.n \in Nat /\ v.d = 1 /\ v.e \in Int /\ g \in Int
  /\ g <= v.e /\ v.e - g <= MaxShift
  /\ n = v.n * Pow10[v.e - g]

LEMMA GridType ==
  ASSUME NEW v, NEW g, NEW n, OnGrid(v, g, n)
  PROVE  /\ MaxShift \in Nat /\ v.e - g \in 0..MaxShift /\ Pow10[v.e - g] \in Nat \ {0}
         /\ n \in Nat /\ v.n <= n /\ (n = 0 <=> v.n = 0)
<1>1. MaxShift \in Nat /\ v.e - g \in 0..MaxShift
  <2>1. v.e \in Int /\ g \in Int /\ g <= v.e /\ v.e - g <= MaxShift
    BY DEF OnGrid
  <2> QED BY <2>1, DecimalAssumption
<1>2. Pow10[v.e - g] \in Nat \ {0}
  BY <1>1, PowerType
<1> DEFINE p == Pow10[v.e - g]
           m == v.n
<1>3. m \in Nat /\ n = m * p
  BY DEF OnGrid
<1> HIDE DEF p, m
<1>4. p \in Nat \ {0}
  BY <1>2 DEF p
<1>5. m * p \in Nat /\ m <= m * p
  <2>1. 1 * m <= p * m
    BY <1>3, <1>4, TimesMonotonic
  <2>2. p * m = m * p /\ m * p \in Nat
    BY <1>3, <1>4
  <2> QED BY <1>3, <2>1, <2>2
<1>6. n \in Nat /\ m <= n /\ (n = 0 <=> m = 0)
  BY <1>3, <1>4, <1>5
<1> QED BY <1>1, <1>2, <1>6 DEF m

\* A position is a fraction of the unit, on any grid that is fine enough.
LEMMA GridPosition ==
  ASSUME NEW v, NEW g, NEW n, OnGrid(v, g, n),
         NEW m \in Nat, NEW e \in Int, g <= e, e - g <= MaxShift
  PROVE  Position(v, m, e) = Fraction(n - m * Pow10[e - g], Pow10[e - g])
<1>1. /\ MaxShift \in Nat /\ v.e - g \in 0..MaxShift /\ Pow10[v.e - g] \in Nat \ {0}
      /\ v.n \in Nat /\ v.d = 1 /\ v.e \in Int /\ g \in Int /\ n \in Nat
      /\ n = v.n * Pow10[v.e - g]
  BY GridType DEF OnGrid
<1>2. e - g \in 0..MaxShift /\ Pow10[e - g] \in Nat \ {0}
  BY <1>1, PowerType
<1> DEFINE a == NumAt(v, e)
           b == DenAt(v, e)
           u == Pow10[e - g]
<1>3. \E k \in Nat \ {0} : a * k = n /\ b * k = u /\ a \in Nat /\ b \in Nat \ {0}
  <2>1. CASE e <= v.e
    <3>1. MaxOf(v.e - e, 0) = v.e - e /\ MaxOf(e - v.e, 0) = 0
      BY <1>1, <2>1 DEF MaxOf
    <3>2. Pow10[0] = 1 /\ a = v.n * Pow10[v.e - e] /\ b = 1
      <4>1. Pow10[0] = 1
        BY DecimalAssumption
      <4>2. a = v.n * Pow10[v.e - e] /\ b = v.d * Pow10[0]
        BY <3>1 DEF NumAt, DenAt
      <4> QED BY <1>1, <4>1, <4>2
    <3>3. PICK i, j \in Nat : i = v.e - e /\ j = e - g
      BY <1>1, <1>2, <2>1
    <3>4. i + j = v.e - g /\ i + j <= MaxShift /\ i \in 0..MaxShift
      BY <1>1, <1>2, <3>3
    <3>5. Pow10[v.e - g] = Pow10[i] * Pow10[j]
      BY <3>4, PowerSum
    <3>6. Pow10[i] \in Nat \ {0} /\ Pow10[j] \in Nat \ {0}
      BY <1>2, <3>3, <3>4, PowerType
    <3>7. (v.n * Pow10[i]) * Pow10[j] = v.n * (Pow10[i] * Pow10[j])
      BY <1>1, <3>6
    <3>8. a * u = n /\ b * u = u /\ a \in Nat
      BY <1>1, <1>2, <3>2, <3>3, <3>5, <3>6, <3>7
    <3> HIDE DEF a, b
    <3> QED BY <1>2, <3>2, <3>8
  <2>2. CASE v.e < e
    <3>1. MaxOf(v.e - e, 0) = 0 /\ MaxOf(e - v.e, 0) = e - v.e
      BY <1>1, <2>2 DEF MaxOf
    <3>2. PICK i, j \in Nat : i = e - v.e /\ j = v.e - g
      BY <1>1, <1>2, <2>2
    <3>3. i + j = e - g /\ i + j <= MaxShift /\ i \in 0..MaxShift
      BY <1>1, <1>2, <3>2
    <3>4. Pow10[e - g] = Pow10[i] * Pow10[j] /\ Pow10[i] \in Nat \ {0}
      BY <3>3, PowerSum, PowerType
    <3>5. Pow10[0] = 1 /\ a = v.n /\ b = Pow10[i]
      <4>1. Pow10[0] = 1
        BY DecimalAssumption
      <4>2. a = v.n * Pow10[0] /\ b = v.d * Pow10[i]
        BY <3>1, <3>2 DEF NumAt, DenAt
      <4> QED BY <1>1, <3>4, <4>1, <4>2
    <3>6. a * Pow10[j] = n /\ b * Pow10[j] = u /\ Pow10[j] \in Nat \ {0}
      BY <1>1, <3>2, <3>4, <3>5
    <3> HIDE DEF a, b
    <3> QED BY <1>1, <3>4, <3>5, <3>6
  <2> QED BY <1>1, <2>1, <2>2
<1>4. PICK k \in Nat \ {0} : a * k = n /\ b * k = u /\ a \in Nat /\ b \in Nat \ {0}
  BY <1>3
<1>5. Position(v, m, e) = Fraction(a - m * b, b)
  BY <1>4 DEF Position, Fraction
<1> HIDE DEF a, b, u
<1> DEFINE c == a - m * b
           w == n - m * u
<1>6. c \in Int /\ c * k = w
  <2>1. m * b \in Nat /\ (m * b) * k = m * (b * k)
    BY <1>4
  <2>2. c * k = a * k - (m * b) * k /\ c \in Int
    BY <1>4, <2>1
  <2> HIDE DEF c
  <2> QED BY <1>4, <2>1, <2>2
<1> HIDE DEF c, w
<1>7. Fraction(c, b) = Fraction(w, u)
  <2>1. Fraction(c * k, b * k) = Fraction(c, b)
    BY <1>4, <1>6, FractionScaled
  <2> QED BY <1>4, <1>6, <2>1
<1> QED BY <1>5, <1>7 DEF c, w, u

\* What follows a digit matters only in being zero or not.
\* a / b of a unit is r + f / d of its k parts.
Tail(f, d, r, k, a, b) ==
  /\ f \in Int /\ d \in Nat \ {0} /\ 0 <= f /\ f < d
  /\ r \in Nat /\ k \in Nat \ {0} /\ k % 2 = 0 /\ r < k
  /\ a = (r * d) + f /\ b = d * k

LEMMA TailClass ==
  ASSUME NEW f, NEW d, NEW h, NEW e, NEW r, NEW k, NEW a, NEW b, NEW i, NEW j,
         Tail(f, d, r, k, a, i), Tail(h, e, r, k, b, j), f = 0 <=> h = 0
  PROVE  Fraction(a, i) = Fraction(b, j)
<1> DEFINE c(z) == IF z THEN Fraction(r, k)
                   ELSE CASE Fraction(r, k) = "EXACT" -> "BELOW"
                          [] Fraction(r, k) = "TIE"   -> "ABOVE"
                          [] OTHER                    -> Fraction(r, k)
<1>1. Fraction(a, i) = c(f = 0)
  BY TwoFractions DEF Tail
<1>2. Fraction(b, j) = c(h = 0)
  BY TwoFractions DEF Tail
<1> HIDE DEF c
<1>3. (f = 0) = (h = 0)
  OBVIOUS
<1> QED BY <1>1, <1>2, <1>3, Zenon

\* The complement of a rest.
LEMMA MirrorClass ==
  ASSUME NEW f \in Int, NEW d \in Nat \ {0}, NEW h \in Int, NEW e \in Nat \ {0},
         0 <= h, h < e, h # 0, Fraction(f, d) = Fraction(h, e)
  PROVE  f # 0 /\ Fraction(d - f, d) = Fraction(e - h, e)
<1>1. /\ Fraction(f, d) = "EXACT" <=> f = 0
      /\ Fraction(f, d) = "BELOW" <=> 0 < f /\ 2 * f < d
      /\ Fraction(f, d) = "TIE"   <=> 2 * f = d
      /\ Fraction(f, d) = "ABOVE" <=> d < 2 * f /\ f < d
  BY FractionMeaning
<1>2. /\ Fraction(h, e) = "BELOW" <=> 0 < h /\ 2 * h < e
      /\ Fraction(h, e) = "TIE"   <=> 2 * h = e
      /\ Fraction(h, e) = "ABOVE" <=> e < 2 * h /\ h < e
      /\ Fraction(h, e) # "EXACT"
  BY FractionMeaning
<1>3. CASE 2 * h < e
  BY <1>1, <1>2, <1>3 DEF Fraction
<1>4. CASE 2 * h = e
  <2>1. 2 * f = d
    BY <1>1, <1>2, <1>4
  <2>2. Fraction(d - f, d) = "TIE" /\ Fraction(e - h, e) = "TIE"
    BY <1>4, <2>1 DEF Fraction
  <2> QED BY <2>1, <2>2
<1>5. CASE 2 * h > e
  BY <1>1, <1>2, <1>5 DEF Fraction
<1> QED BY <1>3, <1>4, <1>5

\* A finer grid.
LEMMA FinerGrid ==
  ASSUME NEW v, NEW g, NEW n, OnGrid(v, g, n), NEW c \in Nat, (v.e - g) + c <= MaxShift
  PROVE  OnGrid(v, g - c, n * Pow10[c])
<1>1. /\ MaxShift \in Nat /\ v.e - g \in 0..MaxShift /\ Pow10[v.e - g] \in Nat \ {0}
      /\ v.n \in Nat /\ v.d = 1 /\ v.e \in Int /\ g \in Int /\ n \in Nat
      /\ n = v.n * Pow10[v.e - g]
  BY GridType DEF OnGrid
<1>2. PICK i \in Nat : i = v.e - g
  BY <1>1
<1>3. v.e - (g - c) = i + c /\ i + c <= MaxShift /\ c \in 0..MaxShift
  BY <1>1, <1>2
<1>4. Pow10[v.e - (g - c)] = Pow10[i] * Pow10[c] /\ Pow10[c] \in Nat
  BY <1>3, PowerSum, PowerType
<1>5. (v.n * Pow10[i]) * Pow10[c] = v.n * (Pow10[i] * Pow10[c])
  BY <1>1, <1>2, <1>4
<1> QED BY <1>1, <1>2, <1>3, <1>4, <1>5 DEF OnGrid

-----------------------------------------------------------------------------
(* The operands                                                            *)

\* A register has two places more than the longest product, and the reference
\* looks up powers with two places more than a register.
Room == P > 1 /\ 2 * P + 2 <= D /\ D + 2 <= MaxShift

\* A number as addsub takes it: a product of two mantissas at most.
Addend(a) ==
  /\ a \in Impl /\ a.special = "NUMBER"
  /\ a.mant # 0 /\ a.mant < Pow10[2 * P]

\* What fpfd32_add, _sub and _fma call addsub with: the right operand is a
\* number of the format.
AddendPairs == \A p \in Operands : Addend(p[1]) /\ Addend(p[2]) /\ p[2].exp >= EMin

LEMMA SmallPowers ==
  ASSUME Room
  PROVE  Pow10[0] = 1 /\ Pow10[1] = 10 /\ Pow10[2] = 100 /\ Pow10[3] = 1000 /\ Pow10[4] = 10000
<1>1. MaxShift \in Nat /\ MaxShift >= 4
  BY DecimalAssumption, LibraryAssumption DEF Room
<1>2. \A k \in 1..MaxShift : Pow10[k] = 10 * Pow10[k - 1]
  BY DecimalAssumption
<1>3. Pow10[0] = 1
  BY DecimalAssumption
<1>4. Pow10[1] = 10
  BY <1>1, <1>2, <1>3
<1>5. Pow10[2] = 100
  BY <1>1, <1>2, <1>4
<1>6. Pow10[3] = 1000
  BY <1>1, <1>2, <1>5
<1>7. Pow10[4] = 10000
  BY <1>1, <1>2, <1>6
<1> QED BY <1>3, <1>4, <1>5, <1>6, <1>7

LEMMA RegisterFacts ==
  ASSUME Room
  PROVE  /\ P \in Nat /\ P > 1 /\ D \in Nat /\ 2 * P + 2 <= D
         /\ MaxShift \in Nat /\ D + 2 <= MaxShift
BY DecimalAssumption, LibraryAssumption DEF Room

\* A finite operand of the core is a number that addsub takes.
LEMMA OperandFacts ==
  ASSUME NEW a \in Operand, Room
  PROVE  /\ a \in Impl /\ a.mant \in Nat \ {0} /\ a.mant < Pow10[P] /\ a.exp \in Int
         /\ a.sign \in {-1, 1} /\ a.special = "NUMBER" /\ Addend(a)
<1>1. /\ P \in Nat /\ MaxShift \in Nat /\ P \in 0..MaxShift /\ 2 * P \in 0..MaxShift /\ P <= 2 * P
      /\ EMin \in Int /\ EMax \in Int
  BY RegisterFacts, DecimalAssumption
<1>2. Pow10[P] \in Nat /\ Pow10[2 * P] \in Nat /\ Pow10[P] <= Pow10[2 * P]
  BY <1>1, PowerType, PowerOrder
<1>3. a.mant \in 1..MaxMant /\ a.exp \in EMin..EMax /\ a.sign \in Sign /\ a.special = "NUMBER"
  BY DEF Operand
<1>4. a.mant \in Nat \ {0} /\ a.mant < Pow10[P] /\ a.mant < Pow10[2 * P]
  BY <1>2, <1>3 DEF MaxMant
<1>5. a.exp \in Int
  BY <1>1, <1>3
<1>6. a = [mant |-> a.mant, exp |-> a.exp, sign |-> a.sign, special |-> a.special]
  BY DEF Operand
<1>7. a \in Impl
  BY <1>3, <1>4, <1>5, <1>6 DEF Impl, Special
<1> QED BY <1>3, <1>4, <1>5, <1>7 DEF Addend, Sign

\* The product of two mantissas.
LEMMA ProductShort ==
  ASSUME Room, NEW m \in Nat \ {0}, NEW n \in Nat \ {0}, m < Pow10[P], n < Pow10[P]
  PROVE  m * n \in Nat \ {0} /\ m * n < Pow10[2 * P]
<1> DEFINE y == Pow10[P]
<1>1. Pow10[2 * P] = y * y /\ y \in Nat \ {0}
  <2>1. P + P = 2 * P /\ P + P <= MaxShift /\ P \in 0..MaxShift /\ P \in Nat
    BY RegisterFacts
  <2> QED BY <2>1, PowerSum, PowerType
<1>2. m < y /\ n < y
  OBVIOUS
<1> HIDE DEF y
<1>3. m * n \in Nat \ {0}
  OBVIOUS
<1>4. m * n < y * n
  BY <1>1, <1>2
<1>5. y * n <= y * y
  BY <1>1, <1>2
<1> QED BY <1>1, <1>3, <1>4, <1>5

\* The digits of an operand leave two places of the register free.
LEMMA AddendDigits ==
  ASSUME NEW a, Addend(a), Room
  PROVE  /\ a.mant \in Nat \ {0} /\ a.exp \in Int /\ a.sign \in {-1, 1}
         /\ IsDigits(Digits(a.mant), a.mant)
         /\ Digits(a.mant) \in 1..(D - 2)
         /\ a.mant < Pow10[D - 2]
<1>1. /\ P \in Nat /\ P > 1 /\ D \in Nat /\ 2 * P + 2 <= D
      /\ MaxShift \in Nat /\ D + 2 <= MaxShift
  BY RegisterFacts
<1>2. a.mant \in Nat \ {0} /\ a.exp \in Int /\ a.sign \in {-1, 1}
  BY DEF Addend, Impl, Sign
<1>3. a.mant < Pow10[D - 2]
  <2>1. 2 * P \in 0..MaxShift /\ D - 2 \in 0..MaxShift /\ 2 * P <= D - 2
    BY <1>1
  <2>2. Pow10[2 * P] <= Pow10[D - 2] /\ Pow10[2 * P] \in Nat /\ Pow10[D - 2] \in Nat
    BY <2>1, PowerOrder, PowerType
  <2> QED BY <1>2, <2>2 DEF Addend
<1>4. D - 2 \in 0..MaxShift
  BY <1>1
<1>5. a.mant < Pow10[MaxShift]
  BY <1>2, <1>3, <1>4, FitsTable
<1> DEFINE m == a.mant
           n == Digits(m)
<1>6. IsDigits(n, m)
  BY <1>2, <1>5, DigitsMeaning
<1>7. m \in Nat /\ m < Pow10[D - 2]
  BY <1>2, <1>3
<1> HIDE DEF m, n
<1>8. n \in 1..MaxShift /\ (n = 1 \/ Pow10[n - 1] <= m)
  BY <1>6 DEF IsDigits
<1>9. n <= D - 2
  <2>1. CASE n = 1
    BY <1>1, <2>1
  <2>2. CASE n # 1
    <3>1. n - 1 \in 0..MaxShift /\ Pow10[n - 1] <= m
      BY <1>1, <1>8, <2>2
    <3>2. Pow10[n - 1] \in Nat /\ Pow10[D - 2] \in Nat
      BY <3>1, <1>4, PowerType
    <3>3. Pow10[n - 1] < Pow10[D - 2]
      BY <1>7, <3>1, <3>2
    <3>4. n - 1 < D - 2
      BY <1>4, <3>1, <3>3, PowerOrder
    <3> QED BY <1>1, <1>8, <3>4
  <2> QED BY <2>1, <2>2
<1> QED BY <1>1, <1>2, <1>3, <1>6, <1>8, <1>9 DEF n, m

\* l is the operand that reaches further to the left; b is the exponent it has
\* at the left end of the register and m its mantissa there.
Aligned(l, s, b, m) ==
  /\ Addend(l) /\ Addend(s)
  /\ b = l.exp - (D - Digits(l.mant))
  /\ m = l.mant * Pow10[D - Digits(l.mant)]
  /\ s.exp - (D - Digits(s.mant)) <= b

LEMMA AlignedFacts ==
  ASSUME NEW l, NEW s, NEW b, NEW m, Aligned(l, s, b, m), Room
  PROVE  /\ b \in Int /\ l.exp \in Int /\ s.exp \in Int /\ l.mant \in Nat /\ s.mant \in Nat
         /\ l.exp - b \in 2..(D - 1) /\ m = l.mant * Pow10[l.exp - b]
         /\ m \in Nat /\ Pow10[D - 1] <= m /\ m < Pow10[D]
         /\ s.exp - b <= D - 1
<1>1. /\ P \in Nat /\ P > 1 /\ D \in Nat /\ 2 * P + 2 <= D
      /\ MaxShift \in Nat /\ D + 2 <= MaxShift
  BY RegisterFacts
<1>2. Addend(l) /\ Addend(s)
  BY DEF Aligned
<1> DEFINE n == Digits(l.mant)
           w == l.mant
           i == Digits(s.mant)
           z == D - n
<1>3. w \in Nat \ {0} /\ l.exp \in Int /\ IsDigits(n, w) /\ n \in 1..(D - 2)
  BY <1>2, AddendDigits
<1>4. s.mant \in Nat \ {0} /\ s.exp \in Int /\ i \in 1..(D - 2)
  BY <1>2, AddendDigits
<1>5. b = l.exp - z /\ m = w * Pow10[z] /\ s.exp - (D - i) <= b
  BY DEF Aligned
<1> HIDE DEF n, w, i
<1>6. z \in 2..(D - 1) /\ z \in Nat /\ n + z = D /\ D <= MaxShift
  BY <1>1, <1>3
<1> HIDE DEF z
<1>7. m \in Nat \ {0} /\ IsDigits(D, m)
  <2>1. n + z <= MaxShift
    BY <1>6
  <2>2. w * Pow10[z] \in Nat \ {0} /\ IsDigits(n + z, w * Pow10[z])
    BY <1>3, <1>6, <2>1, DigitsTimes
  <2> QED BY <1>5, <1>6, <2>2
<1>8. Pow10[D - 1] <= m /\ m < Pow10[D]
  BY <1>1, <1>7 DEF IsDigits
<1>9. b \in Int /\ l.exp - b = z /\ s.exp - b <= D - 1
  BY <1>1, <1>3, <1>4, <1>5, <1>6
<1> QED BY <1>3, <1>4, <1>5, <1>6, <1>7, <1>8, <1>9 DEF w

\* The reference never trims the larger operand.
LEMMA LargeKept ==
  ASSUME NEW l, NEW s, NEW b, NEW m, Aligned(l, s, b, m), Room
  PROVE  Near(s, l) = l
<1>1. Addend(l) /\ Addend(s)
  BY DEF Aligned
<1>2. D \in Nat /\ Digits(s.mant) \in 1..(D - 2) /\ s.exp \in Int
  BY <1>1, RegisterFacts, AddendDigits
<1>3. l.exp - b \in 2..(D - 1) /\ b \in Int /\ l.exp \in Int
  BY AlignedFacts
<1>4. s.exp - (D - Digits(s.mant)) <= b
  BY DEF Aligned
<1>5. Horizon(s) - l.exp <= 0
  <2> DEFINE i == Digits(s.mant)
  <2>1. Horizon(s) = s.exp + i - D - 2
    BY DEF Horizon
  <2> HIDE DEF i
  <2>2. i \in 1..(D - 2) /\ s.exp - (D - i) <= b
    BY <1>2, <1>4 DEF i
  <2> QED BY <1>2, <1>3, <2>1, <2>2
<1> QED BY <1>5 DEF Near

-----------------------------------------------------------------------------
(* The smaller operand                                                     *)

\* What addsub makes of it: the places it is moved to the right by, what that
\* leaves in the register and what it takes out.
Drop(s, b) == IF s.exp - b < 0 THEN -(s.exp - b) ELSE 0
Kept(s, b) ==
  IF s.exp - b >= 0 THEN s.mant * Pow10[s.exp - b]
  ELSE IF Drop(s, b) <= D THEN s.mant \div Pow10[Drop(s, b)] ELSE 0
Rest(s, b) == IF Drop(s, b) <= D THEN s.mant % Pow10[Drop(s, b)] ELSE s.mant

\* f thousandths of a unit are of the class of the k digits in rest.
SameClass(f, rest, k) ==
  \/ /\ k <= D /\ rest \in Nat /\ rest < Pow10[k]
     /\ Fraction(f, 1000) = Fraction(rest, Pow10[k])
  \/ k > D /\ f = 1

\* t thousandths are q units and a part of the class of the rest.
IsCut(t, q, rest, k) ==
  /\ k \in Nat /\ q \in Nat /\ q < Pow10[D] /\ (k >= 1 => q < Pow10[D - 2]) /\ (k > D => q = 0)
  /\ \E f \in 0..999 : t = 1000 * q + f /\ SameClass(f, rest, k)

\* A whole operand that is moved to the left.
LEMMA CutLeft ==
  ASSUME NEW s, Addend(s), Room, NEW i \in Nat, i <= D - Digits(s.mant)
  PROVE  IsCut(s.mant * Pow10[i + 3], s.mant * Pow10[i], 0, 0)
<1>1. /\ P \in Nat /\ P > 1 /\ D \in Nat /\ 2 * P + 2 <= D
      /\ MaxShift \in Nat /\ D + 2 <= MaxShift
  BY RegisterFacts
<1> DEFINE w == s.mant
           n == Digits(w)
<1>2. w \in Nat \ {0} /\ IsDigits(n, w) /\ n \in 1..(D - 2) /\ i <= D - n
  BY AddendDigits
<1> HIDE DEF w, n
<1>3. i \in 0..MaxShift /\ i + 3 <= MaxShift /\ n + i <= MaxShift /\ n + i \in 0..MaxShift /\ D \in 0..MaxShift
      /\ 3 \in 0..MaxShift
  BY <1>1, <1>2
<1>4. Pow10[i + 3] = Pow10[i] * Pow10[3] /\ Pow10[i] \in Nat
  BY <1>3, PowerSum, PowerType
<1>5. Pow10[3] = 1000 /\ Pow10[0] = 1
  BY SmallPowers
<1>6. w * (Pow10[i] * 1000) = 1000 * (w * Pow10[i])
  BY <1>2, <1>4
<1>7. w * Pow10[i] \in Nat /\ w * Pow10[i] < Pow10[D]
  <2>1. IsDigits(n + i, w * Pow10[i]) /\ w * Pow10[i] \in Nat
    BY <1>2, <1>3, DigitsTimes
  <2>2. w * Pow10[i] < Pow10[n + i]
    BY <2>1 DEF IsDigits
  <2>3. Pow10[n + i] <= Pow10[D] /\ Pow10[n + i] \in Nat /\ Pow10[D] \in Nat
    BY <1>1, <1>2, <1>3, PowerOrder, PowerType
  <2> HIDE DEF w
  <2> QED
    BY <2>1, <2>2, <2>3
<1>8. SameClass(0, 0, 0)
  BY <1>1, <1>5 DEF SameClass, Fraction
<1>9. w * Pow10[i + 3] = 1000 * (w * Pow10[i]) + 0
  BY <1>4, <1>5, <1>6, <1>7
<1>10. IsCut(w * Pow10[i + 3], w * Pow10[i], 0, 0)
  <2> DEFINE q == w * Pow10[i]
  <2>1. q \in Nat /\ q < Pow10[D] /\ w * Pow10[i + 3] = 1000 * q + 0
    BY <1>7, <1>9
  <2> HIDE DEF q
  <2>2. 0 \in 0..999 /\ 0 \in Nat
    OBVIOUS
  <2>3. IsCut(w * Pow10[i + 3], q, 0, 0)
    BY <1>1, <1>8, <2>1, <2>2 DEF IsCut
  <2> QED BY <2>3 DEF q
<1> QED BY <1>10 DEF w

\* One that loses a digit or two.
LEMMA CutFew ==
  ASSUME NEW s, Addend(s), Room, NEW k \in {1, 2}
  PROVE  IsCut(s.mant * Pow10[3 - k], s.mant \div Pow10[k], s.mant % Pow10[k], k)
<1>1. /\ P \in Nat /\ P > 1 /\ D \in Nat /\ 2 * P + 2 <= D
      /\ MaxShift \in Nat /\ D + 2 <= MaxShift
  BY RegisterFacts
<1> DEFINE w == s.mant
           y == Pow10[k]
           c == Pow10[3 - k]
           q == w \div y
           r == w % y
<1>2. w \in Nat /\ w < Pow10[D - 2]
  BY AddendDigits
<1>3. y \in Nat \ {0} /\ c \in Nat \ {0} /\ y * c = 1000
  <2>1. Pow10[1] = 10 /\ Pow10[2] = 100
    BY SmallPowers
  <2>2. CASE k = 1
    BY <2>1, <2>2
  <2>3. CASE k = 2
    BY <2>1, <2>3
  <2> QED BY <2>2, <2>3
<1> HIDE DEF w, y, c
<1>4. q \in Nat /\ r \in 0..(y - 1) /\ (q * y) + r = w /\ q <= w
  BY <1>2, <1>3, DivMod
<1> HIDE DEF q, r
<1> DEFINE f == r * c
<1>5. f \in Nat /\ f <= 999 /\ w * c = 1000 * q + f
  <2>1. r * c <= (y - 1) * c
    BY <1>3, <1>4, TimesMonotonic
  <2>2. (y - 1) * c = y * c - c
    BY <1>3
  <2>3. r * c \in Nat
    BY <1>3, <1>4
  <2>4. ((q * y) + r) * c = (q * (y * c)) + (r * c)
    BY <1>3, <1>4
  <2> QED BY <1>3, <1>4, <2>1, <2>2, <2>3, <2>4
<1>6. Fraction(f, 1000) = Fraction(r, y)
  <2>1. r \in Int
    BY <1>3, <1>4
  <2>2. Fraction(r * c, y * c) = Fraction(r, y)
    <3>1. y \in Nat \ {0} /\ c \in Nat \ {0}
      BY <1>3
    <3> QED BY <2>1, <3>1, FractionScaled, Zenon
  <2> QED BY <1>3, <2>2
<1> HIDE DEF f
<1>7. SameClass(f, r, k)
  BY <1>1, <1>4, <1>3, <1>6 DEF SameClass, y
<1>8. Pow10[D - 2] \in Nat /\ Pow10[D] \in Nat /\ Pow10[D - 2] <= Pow10[D]
  BY <1>1, PowerType, PowerOrder
<1>9. q < Pow10[D - 2] /\ q < Pow10[D]
  BY <1>2, <1>4, <1>8
<1>10. f \in 0..999
  BY <1>5
<1>11. IsCut(w * c, q, r, k)
  <2>1. k \in Nat /\ ~(k > D)
    BY <1>1
  <2>2. w * c = 1000 * q + f /\ q \in Nat
    BY <1>4, <1>5
  <2> QED BY <1>7, <1>9, <1>10, <2>1, <2>2 DEF IsCut
<1> QED BY <1>11 DEF w, c, q, r, y

\* What is left of it in the reference when more digits are lost.
Trimmed(s, h) ==
  LET kept == IF h < Digits(s.mant) THEN s.mant \div Pow10[h] ELSE 0
      sticky == IF h >= Digits(s.mant) \/ s.mant % Pow10[h] # 0 THEN 1 ELSE 0
  IN  10 * kept + sticky

\* Two places of the register below the last one are kept, of what follows
\* nothing but whether it is zero: the class is the same.
LEMMA CutMany ==
  ASSUME NEW s, Addend(s), Room, NEW h \in Nat \ {0}, h < Digits(s.mant)
  PROVE  /\ h + 2 <= D
         /\ Trimmed(s, h) \in Nat
         /\ IsCut(Trimmed(s, h), s.mant \div Pow10[h + 2], s.mant % Pow10[h + 2], h + 2)
<1>1. /\ P \in Nat /\ P > 1 /\ D \in Nat /\ 2 * P + 2 <= D
      /\ MaxShift \in Nat /\ D + 2 <= MaxShift
  BY RegisterFacts
<1> DEFINE w == s.mant
           y == Pow10[h]
           c == w \div y
           v == w % y
           a == c \div 100
           u == c % 100
           t == IF v = 0 THEN 0 ELSE 1
           e == Pow10[h + 2]
<1>2. w \in Nat /\ w < Pow10[D - 2] /\ Digits(w) \in 1..(D - 2)
  BY AddendDigits
<1>3. h + 2 <= D /\ h \in 0..MaxShift /\ h + 2 \in 0..MaxShift /\ h + 2 \in Nat /\ ~(h + 2 > D)
  <2> DEFINE n == Digits(w)
  <2>1. n \in 1..(D - 2) /\ h < n
    BY <1>2
  <2> HIDE DEF n
  <2> QED BY <1>1, <2>1
<1>4. y \in Nat \ {0} /\ e = y * 100
  <2>1. Pow10[2] = 100
    BY SmallPowers
  <2>2. Pow10[h + 2] = Pow10[h] * Pow10[2] /\ Pow10[h] \in Nat \ {0}
    BY <1>3, PowerSum, PowerType
  <2> QED BY <2>1, <2>2
<1>5. Trimmed(s, h) = 10 * c + t
  <2>1. ~(h >= Digits(w))
    BY <1>1, <1>2
  <2>2. Trimmed(s, h) = 10 * c + (IF h >= Digits(w) \/ v # 0 THEN 1 ELSE 0)
    BY DEF Trimmed
  <2> QED BY <2>1, <2>2, Zenon
<1> HIDE DEF w, y, e
<1>6. c \in Nat /\ v \in 0..(y - 1) /\ (c * y) + v = w
  BY <1>2, <1>4, DivMod
<1> HIDE DEF c, v
<1>7. a \in Nat /\ u \in 0..99 /\ (a * 100) + u = c
  BY <1>6, DivMod
<1> HIDE DEF a, u
<1> DEFINE r == (u * y) + v
<1>8. r \in Nat /\ r < e /\ w = a * e + r /\ e \in Nat \ {0}
  <2>1. u * y <= 99 * y /\ u * y \in Nat
    BY <1>4, <1>7, TimesMonotonic
  <2>2. ((a * 100) + u) * y = (a * (y * 100)) + (u * y)
    BY <1>4, <1>7
  <2> QED BY <1>4, <1>6, <1>7, <2>1, <2>2
<1> HIDE DEF r
<1>9. w \div e = a /\ w % e = r
  <2>1. r \in 0..(e - 1) /\ a \in Int
    BY <1>7, <1>8
  <2> QED BY <1>2, <1>8, <2>1, DivModUnique
<1> DEFINE f == (u * 10) + t
<1>10. t \in Nat /\ t < 10 /\ (t = 0 <=> v = 0)
  OBVIOUS
<1> HIDE DEF t
<1>11. f \in 0..999 /\ 10 * c + t = 1000 * a + f
  BY <1>7, <1>10
<1>12. Fraction(f, 1000) = Fraction(r, e)
  <2>1. Tail(t, 10, u, 100, f, 1000)
    BY <1>7, <1>10 DEF Tail
  <2>2. Tail(v, y, u, 100, r, e)
    BY <1>4, <1>6, <1>7 DEF Tail, r
  <2> QED BY <1>10, <2>1, <2>2, TailClass
<1> HIDE DEF f
<1>13. SameClass(f, r, h + 2)
  BY <1>3, <1>8, <1>12 DEF SameClass, e
<1>14. a < Pow10[D - 2] /\ a < Pow10[D]
  <2>1. Pow10[D - 2] \in Nat /\ Pow10[D] \in Nat /\ Pow10[D - 2] <= Pow10[D]
    BY <1>1, PowerType, PowerOrder
  <2>2. w \div e <= w
    BY <1>2, <1>8, DivMod
  <2> QED BY <1>2, <1>7, <1>9, <2>1, <2>2
<1>15. IsCut(10 * c + t, a, r, h + 2)
  BY <1>3, <1>7, <1>11, <1>13, <1>14 DEF IsCut
<1>16. 10 * c + t \in Nat
  BY <1>6, <1>10
<1> QED BY <1>3, <1>5, <1>9, <1>15, <1>16 DEF w, e

\* A single 1 stands for an operand that is out of sight.
LEMMA CutAll ==
  ASSUME NEW s, Addend(s), Room, NEW h \in Nat \ {0}, h >= Digits(s.mant)
  PROVE  /\ Trimmed(s, h) = 1
         /\ h + 2 <= D => IsCut(1, s.mant \div Pow10[h + 2], s.mant % Pow10[h + 2], h + 2)
         /\ h + 2 > D  => IsCut(1, 0, s.mant, h + 2)
<1>1. /\ P \in Nat /\ P > 1 /\ D \in Nat /\ 2 * P + 2 <= D
      /\ MaxShift \in Nat /\ D + 2 <= MaxShift
  BY RegisterFacts
<1> DEFINE w == s.mant
           n == Digits(w)
           e == Pow10[h + 2]
<1>2. w \in Nat \ {0} /\ IsDigits(n, w) /\ n \in 1..(D - 2)
  BY AddendDigits
<1>3. h >= n
  OBVIOUS
<1>4. Trimmed(s, h) = 1
  <2>1. ~(h < n)
    BY <1>2, <1>3
  <2>2. Trimmed(s, h) = 10 * 0 + 1
    BY <1>3, <2>1 DEF Trimmed
  <2> QED BY <2>2
<1>5. Pow10[D] \in Nat \ {0} /\ Pow10[D - 2] \in Nat \ {0}
  BY <1>1, PowerType
<1> HIDE DEF w, n, e
<1>6. CASE h + 2 > D
  <2>1. SameClass(1, w, h + 2)
    BY <1>6 DEF SameClass
  <2>2. IsCut(1, 0, w, h + 2)
    <3>1. h + 2 \in Nat /\ 1 = 1000 * 0 + 1 /\ 1 \in 0..999
      OBVIOUS
    <3> QED BY <1>5, <2>1, <3>1 DEF IsCut
  <2>3. ~(h + 2 <= D)
    BY <1>1, <1>6
  <2> QED BY <1>4, <2>2, <2>3 DEF w
<1>7. CASE h + 2 <= D
  <2>1. h \in 0..MaxShift /\ h + 2 \in 0..MaxShift /\ n \in 0..MaxShift
    BY <1>1, <1>2, <1>7
  <2>2. e = Pow10[h] * 100 /\ Pow10[h] \in Nat \ {0}
    <3>1. Pow10[2] = 100
      BY SmallPowers
    <3>2. Pow10[h + 2] = Pow10[h] * Pow10[2] /\ Pow10[h] \in Nat \ {0}
      BY <2>1, PowerSum, PowerType
    <3> QED BY <3>1, <3>2 DEF e
  <2>3. w < Pow10[h]
    <3>1. w < Pow10[n] /\ Pow10[n] <= Pow10[h] /\ Pow10[n] \in Nat
      BY <1>2, <1>3, <2>1, PowerOrder, PowerType DEF IsDigits
    <3> QED BY <1>2, <2>2, <3>1
  <2>4. e \in Nat \ {0} /\ w < e /\ 2 * w < e
    BY <1>2, <2>2, <2>3
  <2>5. w \div e = 0 /\ w % e = w
    BY <1>2, <2>4, DivModUnique
  <2>6. Fraction(w, e) = "BELOW" /\ Fraction(1, 1000) = "BELOW"
    BY <1>2, <2>4 DEF Fraction
  <2>7. SameClass(1, w, h + 2)
    BY <1>2, <1>7, <2>4, <2>6 DEF SameClass, e
  <2>8. IsCut(1, 0, w, h + 2)
    <3>1. h + 2 \in Nat /\ 1 = 1000 * 0 + 1 /\ 1 \in 0..999
      OBVIOUS
    <3> QED BY <1>5, <2>7, <3>1 DEF IsCut
  <2>9. ~(h + 2 > D)
    BY <1>1, <1>7
  <2> QED BY <1>4, <2>5, <2>8, <2>9 DEF w, e
<1> QED BY <1>1, <1>6, <1>7

\* The smaller operand of the reference, in thousandths of the last place of the
\* register, is cut as addsub cuts it.
Small(t, s, b) ==
  /\ t.sign = s.sign /\ t.mant \in Nat /\ t.exp \in Int
  /\ b - 3 <= t.exp /\ t.exp - (b - 3) <= MaxShift
  /\ IsCut(t.mant * Pow10[t.exp - (b - 3)], Kept(s, b), Rest(s, b), Drop(s, b))

LEMMA SmallCut ==
  ASSUME NEW l, NEW s, NEW b, NEW m, Aligned(l, s, b, m), Room
  PROVE  Small(Near(l, s), s, b)
<1>1. /\ P \in Nat /\ P > 1 /\ D \in Nat /\ 2 * P + 2 <= D
      /\ MaxShift \in Nat /\ D + 2 <= MaxShift
  BY RegisterFacts
<1>2. Addend(l) /\ Addend(s)
  BY DEF Aligned
<1> DEFINE n == Digits(s.mant)
           j == Digits(l.mant)
<1>3. /\ s.mant \in Nat \ {0} /\ s.exp \in Int /\ n \in 1..(D - 2) /\ IsDigits(n, s.mant)
      /\ l.exp \in Int /\ j \in 1..(D - 2)
  BY <1>2, AddendDigits
<1>4. b \in Int /\ b = l.exp - (D - j) /\ s.exp - (D - n) <= b
  BY AlignedFacts DEF Aligned
<1>5. Horizon(l) = b - 2
  <2>1. Horizon(l) = l.exp + j - D - 2
    BY DEF Horizon
  <2> HIDE DEF j
  <2> QED BY <1>1, <1>3, <1>4, <2>1
<1>6. CASE s.exp >= b
  <2>1. Near(l, s) = s
    <3>1. Horizon(l) - s.exp <= 0
      BY <1>3, <1>4, <1>5, <1>6
    <3> QED BY <3>1 DEF Near
  <2>2. PICK i \in Nat : i = s.exp - b
    BY <1>3, <1>4, <1>6
  <2>3. i <= D - n /\ s.exp - (b - 3) = i + 3 /\ i + 3 <= MaxShift /\ b - 3 <= s.exp
    <3> HIDE DEF n
    <3> QED BY <1>1, <1>3, <1>4, <2>2
  <2>4. Pow10[0] = 1
    BY SmallPowers
  <2>5. Drop(s, b) = 0 /\ Kept(s, b) = s.mant * Pow10[i]
    BY <1>3, <1>4, <1>6, <2>2 DEF Drop, Kept
  <2>6. Rest(s, b) = 0
    BY <1>1, <1>3, <2>4, <2>5 DEF Rest
  <2>7. IsCut(s.mant * Pow10[i + 3], s.mant * Pow10[i], 0, 0)
    BY <1>2, <2>3, CutLeft
  <2> QED BY <1>3, <2>1, <2>3, <2>5, <2>6, <2>7 DEF Small
<1>7. CASE s.exp = b - 1 \/ s.exp = b - 2
  <2>1. Near(l, s) = s
    <3>1. Horizon(l) - s.exp <= 0
      BY <1>3, <1>4, <1>5, <1>7
    <3> QED BY <3>1 DEF Near
  <2>2. PICK k \in {1, 2} : k = b - s.exp
    BY <1>3, <1>4, <1>7
  <2>3. Drop(s, b) = k /\ k <= D /\ ~(s.exp - b >= 0)
    BY <1>1, <1>3, <1>4, <2>2 DEF Drop
  <2>4. Kept(s, b) = s.mant \div Pow10[k] /\ Rest(s, b) = s.mant % Pow10[k]
    BY <2>3 DEF Kept, Rest
  <2>5. s.exp - (b - 3) = 3 - k /\ 3 - k <= MaxShift /\ b - 3 <= s.exp
    BY <1>1, <1>3, <1>4, <2>2
  <2>6. IsCut(s.mant * Pow10[3 - k], s.mant \div Pow10[k], s.mant % Pow10[k], k)
    BY <1>2, CutFew
  <2> QED BY <1>3, <2>1, <2>3, <2>4, <2>5, <2>6 DEF Small
<1>8. CASE s.exp <= b - 3
  <2>1. PICK h \in Nat \ {0} : h = b - 2 - s.exp
    BY <1>3, <1>4, <1>8
  <2>2. Horizon(l) - s.exp = h /\ ~(h <= 0)
    BY <1>3, <1>4, <1>5, <2>1
  <2>3. Near(l, s) = [s EXCEPT !.mant = Trimmed(s, h), !.exp = Horizon(l) - 1]
    BY <2>2 DEF Near, Trimmed
  <2>4. s \in Impl
    BY <1>2 DEF Addend
  <2>5. /\ Near(l, s).sign = s.sign /\ Near(l, s).mant = Trimmed(s, h)
        /\ Near(l, s).exp = b - 3
    <3>1. Horizon(l) - 1 = b - 3
      BY <1>4, <1>5
    <3> QED BY <2>3, <2>4, <3>1 DEF Impl
  <2>6. Drop(s, b) = h + 2 /\ ~(s.exp - b >= 0)
    BY <1>3, <1>4, <2>1 DEF Drop
  <2>7. Trimmed(s, h) \in Nat /\ IsCut(Trimmed(s, h), Kept(s, b), Rest(s, b), Drop(s, b))
    <3>1. CASE h < n
      <4>1. h + 2 <= D /\ Trimmed(s, h) \in Nat
            /\ IsCut(Trimmed(s, h), s.mant \div Pow10[h + 2], s.mant % Pow10[h + 2], h + 2)
        BY <1>2, <3>1, CutMany
      <4> QED BY <2>6, <4>1 DEF Kept, Rest
    <3>2. CASE h >= n
      <4>1. /\ Trimmed(s, h) = 1
            /\ h + 2 <= D => IsCut(1, s.mant \div Pow10[h + 2], s.mant % Pow10[h + 2], h + 2)
            /\ h + 2 > D  => IsCut(1, 0, s.mant, h + 2)
        BY <1>2, <3>2, CutAll
      <4>2. CASE h + 2 <= D
        BY <2>6, <4>1, <4>2 DEF Kept, Rest
      <4>3. CASE h + 2 > D
        <5>1. ~(h + 2 <= D)
          BY <1>1, <4>3
        <5> QED BY <2>6, <4>1, <4>3, <5>1 DEF Kept, Rest
      <4> QED BY <1>1, <4>2, <4>3
    <3> QED BY <1>3, <3>1, <3>2
  <2>8. b - 3 - (b - 3) = 0 /\ b - 3 <= b - 3 /\ 0 <= MaxShift /\ b - 3 \in Int
    BY <1>1, <1>4
  <2>9. Pow10[0] = 1 /\ Trimmed(s, h) * 1 = Trimmed(s, h)
    BY <2>7, SmallPowers
  <2> QED BY <2>5, <2>7, <2>8, <2>9 DEF Small
<1> QED BY <1>3, <1>4, <1>6, <1>7, <1>8

-----------------------------------------------------------------------------
(* The exact sum                                                           *)

\* n is the magnitude of sl * p + st * q, of which p is positive.
IsTotal(n, sl, p, st, q) == n = IF sl = st THEN p + q ELSE IF p >= q THEN p - q ELSE q - p

\* The exact sum of the two operands on the grid of the smaller one.
LEMMA SumOnGrid ==
  ASSUME NEW l, NEW t, NEW g \in Int, Room,
         l.mant \in Nat, l.exp \in Int, l.sign \in {-1, 1}, g <= l.exp, l.exp - g <= MaxShift,
         t.mant \in Nat, t.exp \in Int, t.sign \in {-1, 1}, g <= t.exp, t.exp - g <= MaxShift,
         NEW v, v \in {ExactSum(l, t), ExactSum(t, l)}
  PROVE  \E n \in Nat :
           /\ OnGrid(v, g, n)
           /\ IsTotal(n, l.sign, l.mant * Pow10[l.exp - g], t.sign, t.mant * Pow10[t.exp - g])
<1> DEFINE q == MinOf(l.exp, t.exp)
           i == l.exp - q
           j == t.exp - q
           c == q - g
           a == l.mant
           b == t.mant
<1>1. /\ MaxShift \in Nat /\ q \in Int /\ q = MinOf(t.exp, l.exp)
      /\ i \in Nat /\ j \in Nat /\ c \in Nat
      /\ l.exp - g = i + c /\ t.exp - g = j + c /\ i + c <= MaxShift /\ j + c <= MaxShift
      /\ q - g <= MaxShift /\ g <= q
  BY RegisterFacts DEF MinOf
<1> HIDE DEF q, i, j, c
<1>2. /\ Pow10[i + c] = Pow10[i] * Pow10[c] /\ Pow10[j + c] = Pow10[j] * Pow10[c]
      /\ Pow10[i] \in Nat /\ Pow10[j] \in Nat /\ Pow10[c] \in Nat \ {0}
  <2>1. i \in 0..MaxShift /\ j \in 0..MaxShift /\ c \in 0..MaxShift
    BY <1>1
  <2> QED BY <1>1, <2>1, PowerSum, PowerType
<1> DEFINE x1 == a * Pow10[i]
           x2 == b * Pow10[j]
           y == Pow10[c]
           total == (l.sign * x1) + (t.sign * x2)
           n == (IF total < 0 THEN -total ELSE total) * y
<1>3. x1 \in Nat /\ x2 \in Nat /\ y \in Nat \ {0}
  BY <1>2
<1>4. a * Pow10[l.exp - g] = x1 * y /\ b * Pow10[t.exp - g] = x2 * y
  <2>1. a * (Pow10[i] * Pow10[c]) = (a * Pow10[i]) * Pow10[c]
    BY <1>2
  <2>2. b * (Pow10[j] * Pow10[c]) = (b * Pow10[j]) * Pow10[c]
    BY <1>2
  <2> QED BY <1>1, <1>2, <2>1, <2>2
<1>5. l.sign * a * Pow10[i] = l.sign * x1 /\ t.sign * b * Pow10[j] = t.sign * x2
  BY <1>2
<1>6. v.n = (IF total < 0 THEN -total ELSE total) /\ v.d = 1 /\ v.e = q
  <2>1. l.sign * x1 \in Int /\ t.sign * x2 \in Int
    BY <1>3
  <2>2. CASE v = ExactSum(l, t)
    <3>1. v.n = (IF l.sign * a * Pow10[i] + t.sign * b * Pow10[j] < 0
                 THEN -(l.sign * a * Pow10[i] + t.sign * b * Pow10[j])
                 ELSE l.sign * a * Pow10[i] + t.sign * b * Pow10[j])
          /\ v.d = 1 /\ v.e = q
      BY <2>2 DEF ExactSum, Exact, i, j, q
    <3> HIDE DEF a, b, x1, x2
    <3> QED BY <1>5, <3>1
  <2>3. CASE v = ExactSum(t, l)
    <3>1. v.n = (IF t.sign * b * Pow10[j] + l.sign * a * Pow10[i] < 0
                 THEN -(t.sign * b * Pow10[j] + l.sign * a * Pow10[i])
                 ELSE t.sign * b * Pow10[j] + l.sign * a * Pow10[i])
          /\ v.d = 1 /\ v.e = q
      BY <1>1, <2>3 DEF ExactSum, Exact, i, j, q
    <3> HIDE DEF a, b, x1, x2
    <3>2. (t.sign * x2) + (l.sign * x1) = total
      BY <2>1
    <3> QED BY <1>5, <3>1, <3>2
  <2> QED BY <2>2, <2>3
<1> HIDE DEF x1, x2, y
<1>7. total \in Int
  BY <1>3
<1>8. v.n \in Nat /\ n = v.n * y /\ n \in Nat
  <2> HIDE DEF total
  <2>1. v.n \in Nat
    BY <1>6, <1>7
  <2> QED BY <1>3, <1>6, <2>1
<1>9. OnGrid(v, g, n)
  <2> HIDE DEF n, total
  <2> QED BY <1>1, <1>6, <1>8 DEF OnGrid, c, y
<1>10. IsTotal(n, l.sign, x1 * y, t.sign, x2 * y)
  <2>1. x1 * y \in Nat /\ x2 * y \in Nat /\ (x1 + x2) * y = (x1 * y) + (x2 * y)
    BY <1>3
  <2>2. x1 >= x2 => x1 * y >= x2 * y /\ (x1 - x2) * y = (x1 * y) - (x2 * y)
    BY <1>3, TimesMonotonic
  <2>3. x1 < x2 => x1 * y < x2 * y /\ (x2 - x1) * y = (x2 * y) - (x1 * y)
    <3> SUFFICES ASSUME x1 < x2 PROVE x1 * y < x2 * y /\ (x2 - x1) * y = (x2 * y) - (x1 * y)
      OBVIOUS
    <3>1. (x1 + 1) * y <= x2 * y /\ (x1 + 1) * y = (x1 * y) + y
      BY <1>3, TimesMonotonic
    <3>2. (x2 - x1) * y = (x2 * y) - (x1 * y)
      BY <1>3
    <3> QED BY <1>3, <2>1, <3>1, <3>2
  <2> DEFINE k1 == x1 * y
             k2 == x2 * y
  <2>4. CASE l.sign = t.sign
    <3>1. v.n = x1 + x2
      BY <1>3, <1>6, <2>4
    <3>2. n = k1 + k2
      BY <1>8, <2>1, <3>1
    <3> HIDE DEF n, k1, k2
    <3> QED BY <2>4, <3>2 DEF IsTotal, k1, k2
  <2>5. CASE l.sign # t.sign
    <3>1. v.n = IF x1 >= x2 THEN x1 - x2 ELSE x2 - x1
      BY <1>3, <1>6, <2>5
    <3>2. n = IF k1 >= k2 THEN k1 - k2 ELSE k2 - k1
      <4>1. CASE x1 >= x2
        BY <1>8, <2>1, <2>2, <3>1, <4>1
      <4>2. CASE x1 < x2
        <5>1. ~(x1 >= x2) /\ ~(k1 >= k2)
          BY <1>3, <2>1, <2>3, <4>2
        <5>2. n = k2 - k1
          BY <1>8, <2>3, <3>1, <4>2, <5>1
        <5> HIDE DEF n, k1, k2
        <5> QED BY <5>1, <5>2
      <4> QED BY <1>3, <4>1, <4>2
    <3> HIDE DEF n, k1, k2
    <3> QED BY <2>5, <3>2 DEF IsTotal, k1, k2
  <2> QED BY <2>4, <2>5
<1>11. n \in Nat /\ OnGrid(v, g, n)
       /\ IsTotal(n, l.sign, a * Pow10[l.exp - g], t.sign, b * Pow10[t.exp - g])
  BY <1>4, <1>8, <1>9, <1>10
<1> HIDE DEF n
<1> QED BY <1>11 DEF a, b

-----------------------------------------------------------------------------
(* The results                                                             *)

\* The larger operand, shifted to the left end of its register.
LeftEnd(m, b, s) == /\ m \in Nat /\ Pow10[D - 1] <= m /\ m < Pow10[D] /\ b \in Int /\ s \in {-1, 1}

LEMMA RegisterPowers ==
  ASSUME Room
  PROVE  /\ Pow10[D - 2] \in Nat \ {0} /\ Pow10[D - 1] = 10 * Pow10[D - 2] /\ Pow10[D] = 10 * Pow10[D - 1]
         /\ Pow10[D - 1] \in Nat /\ Pow10[D] \in Nat
<1>1. /\ P \in Nat /\ P > 1 /\ D \in Nat /\ 2 * P + 2 <= D
      /\ MaxShift \in Nat /\ D + 2 <= MaxShift
  BY RegisterFacts
<1>2. D - 2 \in 0..MaxShift /\ D - 1 \in 1..MaxShift /\ D \in 1..MaxShift /\ (D - 1) - 1 = D - 2
  BY <1>1
<1>3. \A k \in 1..MaxShift : Pow10[k] = 10 * Pow10[k - 1]
  BY DecimalAssumption
<1>4. Pow10[D - 2] \in Nat \ {0}
  BY <1>2, PowerType
<1>5. Pow10[D - 1] = 10 * Pow10[D - 2]
  BY <1>2, <1>3
<1>6. Pow10[D] = 10 * Pow10[D - 1]
  BY <1>2, <1>3
<1> QED BY <1>4, <1>5, <1>6

\* The exact sum in thousandths of the larger operand's last place: that operand
\* and where the smaller one is cut.
LEMMA AlignedTotal ==
  ASSUME Room, NEW l, NEW s, NEW b, NEW m, Aligned(l, s, b, m),
         NEW v, v \in {ExactSum(l, Near(l, s)), ExactSum(Near(l, s), l)}
  PROVE  /\ LeftEnd(m, b, l.sign) /\ s.sign \in {-1, 1}
         /\ \E n \in Nat, c \in Nat :
              /\ OnGrid(v, b - 3, n)
              /\ IsTotal(n, l.sign, 1000 * m, s.sign, c)
              /\ IsCut(c, Kept(s, b), Rest(s, b), Drop(s, b))
<1>1. /\ P \in Nat /\ P > 1 /\ D \in Nat /\ 2 * P + 2 <= D
      /\ MaxShift \in Nat /\ D + 2 <= MaxShift
  BY RegisterFacts
<1> DEFINE t == Near(l, s)
           g == b - 3
           c == t.mant * Pow10[t.exp - g]
           q == Kept(s, b)
           r == Rest(s, b)
           k == Drop(s, b)
           w == l.mant
<1>2. Addend(l) /\ Addend(s)
  BY DEF Aligned
<1>3. l.sign \in {-1, 1} /\ s.sign \in {-1, 1}
  BY <1>2, AddendDigits
<1>4. /\ b \in Int /\ l.exp \in Int /\ w \in Nat
      /\ l.exp - b \in 2..(D - 1) /\ m = w * Pow10[l.exp - b]
      /\ m \in Nat /\ Pow10[D - 1] <= m /\ m < Pow10[D]
  BY AlignedFacts
<1>5. /\ t.sign = s.sign /\ t.mant \in Nat /\ t.exp \in Int
      /\ g <= t.exp /\ t.exp - g <= MaxShift /\ IsCut(c, q, r, k)
  BY SmallCut DEF Small
<1> HIDE DEF t, q, r, k, w
<1>6. g \in Int /\ g <= l.exp /\ l.exp - g <= MaxShift
  BY <1>1, <1>4
<1>7. w * Pow10[l.exp - g] = 1000 * m
  <2>1. PICK z \in Nat : z = l.exp - b
    BY <1>4
  <2>2. l.exp - g = z + 3 /\ z + 3 <= MaxShift /\ z \in 0..MaxShift
    BY <1>1, <1>4, <2>1
  <2>3. Pow10[z + 3] = Pow10[z] * Pow10[3] /\ Pow10[z] \in Nat /\ Pow10[3] = 1000
    BY <2>2, PowerSum, PowerType, SmallPowers
  <2>4. w * (Pow10[z] * 1000) = 1000 * (w * Pow10[z])
    BY <1>4, <2>3
  <2> QED BY <1>4, <2>1, <2>2, <2>3, <2>4
<1>8. PICK n \in Nat : OnGrid(v, g, n) /\ IsTotal(n, l.sign, 1000 * m, t.sign, c)
  <2>1. v \in {ExactSum(l, t), ExactSum(t, l)}
    BY DEF t
  <2>2. \E n \in Nat : OnGrid(v, g, n)
                       /\ IsTotal(n, l.sign, w * Pow10[l.exp - g], t.sign, t.mant * Pow10[t.exp - g])
    <3> HIDE DEF g
    <3> QED BY <1>3, <1>4, <1>5, <1>6, <2>1, SumOnGrid DEF w
  <2> QED BY <1>7, <2>2
<1>9. LeftEnd(m, b, l.sign)
  BY <1>3, <1>4 DEF LeftEnd
<1> HIDE DEF c
<1>10. c \in Nat
  <2>1. \E f \in 0..999 : c = 1000 * q + f
    BY <1>5 DEF IsCut
  <2>2. q \in Nat
    BY <1>5 DEF IsCut
  <2> QED BY <2>1, <2>2
<1> QED BY <1>3, <1>5, <1>8, <1>9, <1>10 DEF q, r, k

\* The exact sum of addsub's operands, as module SumCall has it.
SumOf(s, a, c) ==
  LET r == [c EXCEPT !.sign = s * @] IN ExactSum(Near(r, a), Near(a, r))

\* An operand at the left end of a register: its mantissa and its exponent there.
LeftMant(a) == a.mant * Pow10[D - Digits(a.mant)]
LeftExp(a)  == a.exp - (D - Digits(a.mant))

\* The one that reaches further is the larger operand, and the exact sum is made
\* of it and of what the reference keeps of the other.
Larger(l, t, v) ==
  /\ Aligned(l, t, LeftExp(l), LeftMant(l))
  /\ v \in {ExactSum(l, Near(l, t)), ExactSum(Near(l, t), l)}

LEMMA SumOrder ==
  ASSUME Room, NEW s \in {-1, 1}, NEW a, Addend(a), NEW c, Addend(c),
         NEW r, r = [c EXCEPT !.sign = s * @]
  PROVE  /\ Addend(r) /\ r.exp = c.exp /\ r.mant = c.mant /\ r.sign = s * c.sign
         /\ LeftExp(a) \in Int /\ LeftExp(r) \in Int /\ LeftExp(r) = LeftExp(c)
         /\ r.exp <= LeftExp(r) + D - 1
         /\ LeftExp(a) >= LeftExp(r) => Larger(a, r, SumOf(s, a, c))
         /\ LeftExp(r) >= LeftExp(a) => Larger(r, a, SumOf(s, a, c))
<1>1. c \in Impl /\ c.sign \in {-1, 1} /\ c.special = "NUMBER"
  BY DEF Addend, Impl, Sign
<1>2. r.exp = c.exp /\ r.mant = c.mant /\ r.special = c.special /\ r \in Impl /\ r.sign = s * c.sign
  <2>1. s * c.sign \in {-1, 1}
    BY <1>1
  <2> QED BY <1>1, <2>1 DEF Impl, Sign
<1>3. Addend(r)
  BY <1>1, <1>2 DEF Addend
<1>4. SumOf(s, a, c) = ExactSum(Near(r, a), Near(a, r))
  BY DEF SumOf
<1>5. a.exp \in Int /\ r.exp \in Int /\ Digits(a.mant) \in 1..(D - 2) /\ Digits(r.mant) \in 1..(D - 2)
      /\ D \in Nat
  BY <1>3, AddendDigits, RegisterFacts
<1>6. LeftExp(a) \in Int /\ LeftExp(r) \in Int /\ r.exp <= LeftExp(r) + D - 1 /\ LeftExp(r) = LeftExp(c)
  BY <1>2, <1>5 DEF LeftExp
<1>7. ASSUME LeftExp(a) >= LeftExp(r) PROVE Larger(a, r, SumOf(s, a, c))
  <2>1. LeftExp(r) <= LeftExp(a)
    BY <1>6, <1>7
  <2>2. Aligned(a, r, LeftExp(a), LeftMant(a))
    BY <1>3, <2>1 DEF Aligned, LeftExp, LeftMant
  <2>3. Near(r, a) = a
    BY <2>2, LargeKept
  <2> QED BY <1>4, <2>2, <2>3 DEF Larger
<1>8. ASSUME LeftExp(r) >= LeftExp(a) PROVE Larger(r, a, SumOf(s, a, c))
  <2>1. LeftExp(a) <= LeftExp(r)
    BY <1>6, <1>8
  <2>2. Aligned(r, a, LeftExp(r), LeftMant(r))
    BY <1>3, <2>1 DEF Aligned, LeftExp, LeftMant
  <2>3. Near(a, r) = r
    BY <2>2, LargeKept
  <2> QED BY <1>4, <2>2, <2>3 DEF Larger
<1> QED BY <1>2, <1>3, <1>6, <1>7, <1>8

\* The class of a dropped digit, with and without the subnormalised bit.
LEMMA DropClass ==
  ASSUME NEW rest \in Nat, NEW k \in 0..MaxShift, rest < Pow10[k]
  PROVE  /\ DroppedDigit(rest, k) \in 0..9
         /\ RemClass(DroppedDigit(rest, k)) = Fraction(rest, Pow10[k])
         /\ RemClass(16 + DroppedDigit(rest, k)) = Fraction(rest, Pow10[k])
<1> DEFINE y == Pow10[k]
           d == DroppedDigit(rest, k)
<1>1. y \in Nat \ {0} /\ rest < y
  BY PowerType
<1>2. d = IF (10 * rest) \div y \in {0, 5} /\ (10 * rest) % y # 0
          THEN (10 * rest) \div y + 1 ELSE (10 * rest) \div y
  BY Zenon DEF DroppedDigit
<1> HIDE DEF y, d
<1>3. Classifies(d, rest, y)
  BY <1>1, <1>2, FirstDigitClass
<1>4. RemClass(d) = Fraction(rest, y) /\ RemClass(16 + d) = Fraction(rest, y)
  BY <1>1, <1>3, ClassifiesFraction
<1>5. d \in 0..9
  BY <1>3 DEF Classifies
<1> QED BY <1>4, <1>5 DEF d, y

-----------------------------------------------------------------------------
(* What scale makes of a number with nothing behind it, and of one that     *)
(* vanishes                                                                 *)

\* A number of at most P digits is on every grid that zeros behind it reach.
LEMMA WholeGrid ==
  ASSUME Room, NEW v, NEW g, NEW n, OnGrid(v, g, n),
         NEW m \in Nat \ {0}, NEW d, IsDigits(d, m), NEW i \in Nat, d + i <= MaxShift, n = m * Pow10[i],
         NEW w \in Nat, d + w <= P, NEW e, e = (g + i) - w
  PROVE  Position(v, m * Pow10[w], e) = "EXACT"
<1>1. MaxShift \in Nat /\ P \in Nat /\ P <= MaxShift /\ d \in Nat \ {0} /\ g \in Int /\ n \in Nat
      /\ d \in 0..MaxShift /\ m < Pow10[d]
  <2>1. d \in 1..MaxShift /\ m < Pow10[d]
    BY DEF IsDigits
  <2>2. g \in Int /\ n \in Nat
    BY GridType DEF OnGrid
  <2> QED BY <2>1, <2>2, RegisterFacts
<1> DEFINE a == m * Pow10[w]
<1>2. w \in 0..MaxShift /\ i \in 0..MaxShift /\ e \in Int
  BY <1>1
<1>3. Pow10[w] \in Nat \ {0} /\ Pow10[i] \in Nat \ {0}
  BY <1>2, PowerType
<1>4. a \in Nat
  BY <1>3
<1>5. CASE w <= i
  <2>1. PICK c \in Nat : i = w + c
    BY <1>5
  <2>2. e - g = c /\ g <= e /\ c <= MaxShift /\ c \in 0..MaxShift /\ w + c <= MaxShift
    BY <1>1, <1>2, <2>1
  <2>3. Pow10[i] = Pow10[w] * Pow10[c] /\ Pow10[c] \in Nat \ {0}
    BY <1>2, <2>1, <2>2, PowerSum, PowerType
  <2>4. a * Pow10[c] = n
    <3>1. (m * Pow10[w]) * Pow10[c] = m * (Pow10[w] * Pow10[c])
      BY <1>3, <2>3
    <3> QED BY <2>3, <3>1
  <2>5. Position(v, a, e) = Fraction(n - a * Pow10[e - g], Pow10[e - g])
    <3>1. e - g <= MaxShift
      BY <2>2
    <3> HIDE DEF a
    <3> QED BY <1>1, <1>2, <1>4, <2>2, <3>1, GridPosition
  <2>6. n - a * Pow10[c] = 0
    BY <1>1, <2>4
  <2> HIDE DEF a
  <2>7. Fraction(n - a * Pow10[e - g], Pow10[e - g]) = "EXACT"
    BY <2>2, <2>3, <2>6 DEF Fraction
  <2> QED BY <2>5, <2>7 DEF a
<1>6. CASE i < w
  <2>1. PICK c \in Nat : w = i + c
    BY <1>6
  <2>2. /\ v.n \in Nat /\ v.e \in Int /\ g <= v.e /\ v.e - g \in 0..MaxShift /\ Pow10[v.e - g] \in Nat \ {0}
        /\ n = v.n * Pow10[v.e - g]
    BY GridType DEF OnGrid
  <2>3. n # 0 /\ v.n # 0
    <3>1. 1 * Pow10[i] <= m * Pow10[i]
      BY <1>3, TimesMonotonic
    <3> QED BY <1>3, <2>2, <3>1
  <2>4. Pow10[v.e - g] <= n
    <3>1. 1 * Pow10[v.e - g] <= v.n * Pow10[v.e - g]
      BY <2>2, <2>3, TimesMonotonic
    <3> QED BY <2>2, <3>1
  <2>5. n < Pow10[d + i]
    <3>1. m + 1 <= Pow10[d] /\ Pow10[d] \in Nat
      BY <1>1, PowerType
    <3>2. (m + 1) * Pow10[i] <= Pow10[d] * Pow10[i]
      BY <1>3, <3>1, TimesMonotonic
    <3>3. (m + 1) * Pow10[i] = (m * Pow10[i]) + Pow10[i]
      <4> DEFINE z == Pow10[i]
      <4>1. z \in Nat
        BY <1>3
      <4> HIDE DEF z
      <4>2. (m + 1) * z = (m * z) + z
        BY <4>1
      <4> QED BY <4>2 DEF z
    <3>4. Pow10[d + i] = Pow10[d] * Pow10[i]
      BY <1>1, PowerSum
    <3>5. Pow10[d] * Pow10[i] \in Nat
      BY <1>3, <3>1
    <3> QED BY <1>1, <1>3, <3>2, <3>3, <3>4, <3>5
  <2>6. v.e - g < d + i
    <3>1. d + i \in 0..MaxShift
      BY <1>1
    <3>2. Pow10[v.e - g] < Pow10[d + i]
      <4>1. Pow10[d + i] \in Nat
        BY <3>1, PowerType
      <4> QED BY <1>1, <2>2, <2>4, <2>5, <4>1
    <3> QED BY <2>2, <3>1, <3>2, PowerOrder
  <2>7. (v.e - g) + c <= MaxShift /\ g - c = e /\ c \in 0..MaxShift
    BY <1>1, <2>1, <2>2, <2>6
  <2>8. OnGrid(v, e, n * Pow10[c])
    <3>1. OnGrid(v, g - c, n * Pow10[c])
      BY <2>7, FinerGrid
    <3> QED BY <2>7, <3>1
  <2>9. Pow10[w] = Pow10[i] * Pow10[c] /\ Pow10[c] \in Nat
    BY <1>2, <2>1, <2>7, PowerSum, PowerType
  <2>10. a = n * Pow10[c]
    <3>1. m * (Pow10[i] * Pow10[c]) = (m * Pow10[i]) * Pow10[c]
      BY <1>3, <2>9
    <3> QED BY <2>9, <3>1
  <2> HIDE DEF a
  <2>11. Position(v, a, e) = Fraction(n * Pow10[c] - a * Pow10[e - e], Pow10[e - e])
    <3>1. e <= e /\ e - e <= MaxShift
      BY <1>1, <1>2
    <3> QED BY <1>2, <1>4, <2>8, <3>1, GridPosition
  <2>12. e - e = 0 /\ Pow10[0] = 1
    BY <1>2, SmallPowers
  <2>13. n * Pow10[c] - a * 1 = 0
    BY <1>4, <2>10
  <2>14. Fraction(n * Pow10[c] - a * Pow10[e - e], Pow10[e - e]) = "EXACT"
    BY <2>12, <2>13 DEF Fraction
  <2> QED BY <2>11, <2>14 DEF a
<1> QED BY <1>5, <1>6

\* What is at most a tenth of a unit of the smallest exponent.
LEMMA BelowGrid ==
  ASSUME NEW v, NEW g, NEW n, OnGrid(v, g, n), n # 0,
         NEW i \in Nat, n <= Pow10[i], g + i < EMin, EMin - g <= MaxShift
  PROVE  Position(v, 0, EMin) = "BELOW"
<1>1. g \in Int /\ n \in Nat /\ EMin \in Int /\ MaxShift \in Nat
  BY GridType, DecimalAssumption DEF OnGrid
<1>2. PICK j \in Nat : j = EMin - g
  BY <1>1
<1>3. i \in 0..MaxShift /\ j \in 0..MaxShift /\ i < j /\ g <= EMin
  BY <1>1, <1>2
<1>4. 10 * Pow10[i] <= Pow10[j] /\ Pow10[i] \in Nat /\ Pow10[j] \in Nat \ {0}
  BY <1>3, PowerOrder, PowerType
<1>5. Position(v, 0, EMin) = Fraction(n - 0 * Pow10[EMin - g], Pow10[EMin - g])
  <2>1. 0 \in Nat
    OBVIOUS
  <2> QED BY <1>1, <1>3, <2>1, GridPosition
<1>6. n - 0 * Pow10[j] = n
  BY <1>1, <1>4
<1>7. Fraction(n, Pow10[j]) = "BELOW"
  BY <1>1, <1>4, FractionMeaning
<1> QED BY <1>2, <1>5, <1>6, <1>7
=============================================================================
