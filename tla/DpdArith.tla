------------------------------ MODULE DpdArith ------------------------------
(***************************************************************************)
(* The arithmetic of libfpfd-dpd on x86_64: a mantissa is D = 16 decimal    *)
(* digits, four bits each, in a 64-bit register whose low half holds half   *)
(* of them.  The bit tricks that add and subtract such registers are        *)
(* modelled as the decimal operations they perform; shifts by 4k bits are   *)
(* multiplications and divisions by 10^k.                                   *)
(***************************************************************************)
EXTENDS Library, BcdDigits

ASSUME DpdAssumption == P > 1 /\ D = 2 * P + 2

-----------------------------------------------------------------------------
(* addsub                                                                  *)

\* From bsr: zero digits above the first one.
LeadingZeros(m) == D - Digits(m)

\* q is the part of the small mantissa that the alignment leaves in the
\* register, rest the k digits that fall off it.
Add(big, q, rest, k) ==
  LET t == big.m + q
  IN  IF k > D THEN Sum(big.m, big.e, big.sign, 1)
      ELSE IF t < Pow10[D] THEN Sum(t, big.e, big.sign, DroppedDigit(rest, k))
      ELSE Sum(t \div 10, big.e + 1, big.sign, DroppedDigit((t % 10) * Pow10[k] + rest, k + 1))

\* Mutant: the rest is handed back as it fell off, without its complement.
SubPlainRest(big, q, rest, k) ==
  CASE k > D -> Sum(big.m - 1, big.e, big.sign, 9)
    [] k <= D /\ rest # 0 -> Sum(big.m - q - 1, big.e, big.sign, DroppedDigit(rest, k))
    [] rest = 0 /\ k <= D /\ big.m >= q -> Sum(big.m - q, big.e, big.sign, 0)
    [] rest = 0 /\ k <= D /\ big.m < q  -> Sum(q - big.m, big.e, -big.sign, 0)

\* A rest is borrowed for: its complement is what the truncated difference
\* lacks.  Without a rest the larger exponent may belong to the smaller number.
Sub(big, q, rest, k) ==
  CASE k > D -> Sum(big.m - 1, big.e, big.sign, 9)
    [] k <= D /\ rest # 0 ->
         Sum(big.m - q - 1, big.e, big.sign, DroppedDigit(Pow10[k] - rest, k))
    [] k <= D /\ rest = 0 /\ big.m >= q -> Sum(big.m - q, big.e, big.sign, 0)
    [] k <= D /\ rest = 0 /\ big.m < q  -> Sum(q - big.m, big.e, -big.sign, 0)

\* The operand with the larger aligned exponent is shifted to the left end of
\* the register, the other one by the same power of ten or, when that would
\* take it below the register, to the right.
DpdAddSub(sgn, lhs, rhs) ==
  LET top(x) == x.exp - LeadingZeros(x.mant)
      r      == [rhs EXCEPT !.sign = sgn * @]
      keep   == top(lhs) >= top(rhs)
      large  == IF keep THEN lhs ELSE r
      small  == IF keep THEN r ELSE lhs
      zeros  == LeadingZeros(large.mant)
      big    == [m |-> large.mant * Pow10[zeros], e |-> large.exp - zeros, sign |-> large.sign]
      shift  == small.exp - big.e
      k      == IF shift < 0 THEN -shift ELSE 0
      inside == k <= D
      q      == IF shift >= 0 THEN small.mant * Pow10[shift]
                ELSE IF inside THEN small.mant \div Pow10[k] ELSE 0
      rest   == IF inside THEN small.mant % Pow10[k] ELSE small.mant
  IN  IF r.sign = lhs.sign THEN Add(big, q, rest, k) ELSE Sub(big, q, rest, k)

-----------------------------------------------------------------------------
(* mul                                                                     *)

\* Digits 2i and 2i+1 of m, a byte of the register.
Pair(m, i) == (m \div Pow10[2 * i]) % 100

LastPair == (P - 1) \div 2

\* The partial products t, added up with each two digits further to the left than
\* the one before.
AddShifted(t) ==
  LET f[i \in 0..LastPair] == (IF i = 0 THEN 0 ELSE f[i-1]) + t[i] * Pow10[2 * i]
  IN  f[LastPair]

\* Two digits times a mantissa, through the table.
TimesPair(m, d) == AddShifted([i \in 0..LastPair |-> TableProduct(Pair(m, i), d)])

\* Every pair of one operand by every pair of the other.
DpdMul(lhs, rhs) ==
  Number(AddShifted([j \in 0..LastPair |-> TimesPair(lhs.mant, Pair(rhs.mant, j))]),
         lhs.exp + rhs.exp, lhs.sign * rhs.sign)

-----------------------------------------------------------------------------
(* div.  r is the dividend with P+1 digits or more, b the divisor with P.   *)

\* Mutant: the tens digit is looked up with the rounded divisor alone.
TensHigh(l, b2) ==
  IF l >= 1000 THEN MinOf(9, TableQuotient(l \div 100, b2 \div 10 + 1))
  ELSE TableQuotient(l \div 10, b2)

\* First digit of the estimate, from the leading digits l of the dividend and
\* the leading two, b2, of the divisor.
Tens(l, b2) ==
  IF l >= 1000 THEN MinOf(9, TableQuotient(l \div 100, b2 \div 10))
  ELSE TableQuotient(l \div 10, b2)

\* An estimate below ten is taken from the table at once.  Mutant: so is any.
OneDigitAlways(l, b2) == l < 1000
OneDigit(l, b2)       == l < 1000 /\ TableQuotient(l \div 10, b2 \div 10) < 10

Leading(m) == m \div Pow10[P - 2]

\* Otherwise the ones digit is the last one, up to 9, whose product with the
\* leading digits of the divisor does not exceed those of the dividend.
Estimate(r, b) ==
  LET l == Leading(r)
      b2 == Leading(b)
      tens == 10 * Tens(l, b2)
  IN  IF OneDigit(l, b2) THEN TableQuotient(l \div 10, b2 \div 10)
      ELSE MaxOf(tens, MinOf(tens + 9, l \div b2))

\* Modulus of a register whose first digit is not corrected after a borrow.
Wrap == 16 * Pow10[D - 1]

\* With nothing left to divide, estimate and product are zero, and both are
\* decreased until the product is zero again, Wrap / gcd(b, Wrap) times.  What is
\* left in the byte of the estimate, whose first digit is not corrected either,
\* should be zero; it is two digits at all only for the divisors of the runs.
AfterZero(b) ==
  LET common(g) == b % g = 0 /\ Wrap % g = 0
      gcd == CHOOSE g \in 1..b : common(g) /\ \A h \in (g + 1)..b : ~common(h)
  IN  (-(Wrap \div gcd)) % 160

\* Mutant: the estimate is right when its product equals what is left.
TwoDigitsEqual(r, b) == MinOf(Estimate(r, b), r \div b)

\* The estimate, decreased until its product fits, but at least once when it is
\* equal at first (the jump before the loop is jb).
TwoDigits(r, b) ==
  LET c == Estimate(r, b)
  IN  IF r = 0 THEN AfterZero(b) ELSE IF c * b = r THEN c - 1 ELSE MinOf(c, r \div b)

\* One turn of .Ldiv; the loop ends when the quotient has more than P digits.
Turn(s, b) ==
  LET c == TwoDigits(s.r, b)
      product == IF s.r = 0 THEN 0 ELSE c * b
  IN  IF s.q >= Pow10[P] THEN s
      ELSE [q |-> 100 * s.q + c, r |-> 100 * (s.r - product), e |-> s.e - 2]

\* More turns than that are not needed: the second one has a digit that is not
\* zero.
LastTurn == P \div 2 + 3

Turns(a, b, e) ==
  LET f[n \in 0..LastTurn] ==
        IF n = 0 THEN [q |-> 0, r |-> a, e |-> e] ELSE Turn(f[n-1], b)
  IN  f[LastTurn]

\* Mutant: the last digit is not made sticky.
QuotientDigitPlain(q, r) == q % 10

\* The last digit of the quotient is the remainder; whether something follows it
\* is asked of the low half of the register.
QuotientDigit(q, r) ==
  LET d == q % 10
  IN  IF d \in {0, 5} /\ r % Pow10[D \div 2] # 0 THEN d + 1 ELSE d

DpdDiv(lhs, rhs) ==
  LET la == P + 1 - Digits(lhs.mant)
      lb == P - Digits(rhs.mant)
      z  == Turns(lhs.mant * Pow10[la], rhs.mant * Pow10[lb], lhs.exp - rhs.exp - la + lb)
  IN  [x   |-> Number(z.q \div 10, z.e + 3, lhs.sign * rhs.sign),
       rem |-> QuotientDigit(z.q, z.r)]

-----------------------------------------------------------------------------
(* scale                                                                   *)

\* Mutant: the remainder of a subnormal is the digit alone.
CutSubnormalPlain(x, j, k) ==
  [x |-> [x EXCEPT !.mant = j \div Pow10[k], !.exp = EMin],
   rem |-> 16 + (10 * (j % Pow10[k])) \div Pow10[k]]

\* j has D digits, of which k are cut off to reach EMin; all of them in the
\* partial underflow.
CutSubnormal(x, j, k) ==
  [x |-> [x EXCEPT !.mant = j \div Pow10[k], !.exp = EMin],
   rem |-> 16 + DroppedDigit(j % Pow10[k], k)]

\* Mutant: zero is not tested for.
VanishesByExponent(x, e) == e < EMin - P
Vanishes(x, e)           == x.mant = 0 \/ e < EMin - P

\* Mutant: the largest exponent overflows.
TooLargeAtMax(e) == e >= EMax
TooLarge(e)      == e > EMax

DpdScale(x) ==
  LET n == Digits(x.mant)
      j == x.mant * Pow10[D - n]
      k == D - P
      e == x.exp + n - P
  IN  IF Vanishes(x, e) THEN Underflowed(x)
      ELSE IF TooLarge(e) THEN Overflowed(x)
      ELSE IF e < EMin THEN CutSubnormal(x, j, k + EMin - e)
      ELSE [x |-> [x EXCEPT !.mant = j \div Pow10[k], !.exp = e],
            rem |-> IF n = P THEN 32 ELSE DroppedDigit(j % Pow10[k], k)]
=============================================================================
