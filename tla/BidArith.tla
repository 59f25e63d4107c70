------------------------------ MODULE BidArith ------------------------------
(***************************************************************************)
(* The arithmetic of libfpfd-bid on x86_64: a mantissa is a binary integer  *)
(* in a 64-bit register that holds D = 19 digits.  Word is the modulus of a *)
(* register (2^64), Half that of its low half (2^32); Pow2 is a table of     *)
(* powers of two, for the position of a bit.  The reciprocal                *)
(* multiplications of the code are integer divisions, except for the one    *)
(* entry of the table that is one too small.                                *)
(***************************************************************************)
EXTENDS Library

CONSTANTS
  Bits,       \* width of a register
  Pow2,       \* Pow2[b] is 2 to the b
  Word,       \* modulus of a 64-bit register
  Half,       \* modulus of its low half
  BadBsr      \* index of the entry of bsr2exp that is wrong (29)

ASSUME BidAssumption ==
  /\ Bits \in Nat \ {0} /\ Pow2 \in [0..Bits -> Nat]
  /\ Pow2[0] = 1 /\ \A b \in 1..Bits : Pow2[b] = 2 * Pow2[b-1]
  /\ Word = Pow2[Bits] /\ Half \in Nat \ {0} /\ Half < Word
  /\ 11 * Pow10[D-1] <= Word /\ Word < 2 * Pow10[D]
  /\ BadBsr \in Nat

-----------------------------------------------------------------------------
\* Index of the highest set bit (the bsr instruction), m > 0.
Bsr(m) == CHOOSE b \in 0..(Bits - 1) : Pow2[b] <= m /\ m < Pow2[b+1]

\* Mutant: the table scales one digit too far.
Bsr2MulLarge(b) == D + 1 - Digits(Pow2[b+1] - 1)

\* The tables bsr2mul (as an exponent of ten) and bsr2exp of addsub.
Bsr2Mul(b) == D - Digits(Pow2[b+1] - 1)
Bsr2Exp(b) == IF b = BadBsr THEN -Bsr2Mul(b) - 1 ELSE -Bsr2Mul(b)

\* x divided by 10^k through exp2div and exp2shr.  The entry for k = D-1 is
\* rounded down, so exact multiples come out one too small.
RecipDiv(x, k) ==
  IF k = D - 1 /\ x > 0 /\ x % Pow10[k] = 0 THEN x \div Pow10[k] - 1
  ELSE x \div Pow10[k]

\* Mutant: the digit is not made sticky.
FirstDigitPlain(rest, k) == IF k = 0 THEN rest ELSE RecipDiv(rest, k)

\* First digit of a remainder below 10^(k+1), made sticky when it is 0 or 5.
\* The rest is compared in 32 bits.
FirstDigit(rest, k) ==
  LET d == RecipDiv(rest, k)
  IN  IF k = 0 THEN rest
      ELSE IF d \in {0, 5} /\ (rest - d * Pow10[k]) % Half # 0 THEN d + 1
      ELSE d

-----------------------------------------------------------------------------
(* addsub                                                                  *)

\* An operand scaled to D digits.
Align(x) ==
  LET b == Bsr(x.mant)
      m == x.mant * Pow10[Bsr2Mul(b)]
      e == x.exp + Bsr2Exp(b)
  IN  IF m >= Pow10[D-1] THEN [m |-> m, e |-> e]
      ELSE [m |-> m * 10, e |-> e - 1]

\* big.e - small.e is the exponent difference k; s the sign of the result.
\* With k = 0 the sum may need one bit more than the register has.
AddMant(big, small, s) ==
  LET k == big.e - small.e
      q == RecipDiv(small.m, k)
      t == big.m + small.m
  IN  IF k > D THEN Sum(big.m, big.e, s, 1)
      ELSE IF k = 0
      THEN IF t >= Word THEN Sum(t \div 10, big.e + 1, s, t % 10)
           ELSE Sum(t, big.e, s, 0)
      ELSE Sum(big.m + q, big.e, s, FirstDigit(small.m - q * Pow10[k], k - 1))

\* Subtraction borrows one from the difference when the division left a rest.
\* A difference that then has fewer than D digits "reclaims" one: it is
\* multiplied by ten and the whole complement is added, in Word arithmetic.
\* When the operands are too far apart the remainder register is not written
\* and still holds the low half of the small operand.
SubMant(big, small, s) ==
  LET k == big.e - small.e
      q == RecipDiv(small.m, k)
      rest == small.m - q * Pow10[k]
      m == big.m - q - 1
      complement == Pow10[k] - rest
  IN  IF k > D THEN Sum(big.m - 1, big.e, s, small.m % Half)
      ELSE IF k = 0
      THEN IF big.m >= small.m THEN Sum(big.m - small.m, big.e, s, 0)
           ELSE Sum(small.m - big.m, big.e, -s, 0)
      ELSE IF rest = 0 THEN Sum(big.m - q, big.e, s, 0)
      ELSE IF m >= Pow10[D-1]
      THEN Sum(m, big.e, s, FirstDigit(complement, k - 1))
      ELSE Sum((m * 10 + complement) % Word, big.e - 1, s, 0)

BidAddSub(sgn, lhs, rhs) ==
  LET esign == sgn * rhs.sign
      l == Align(lhs)
      r == Align(rhs)
      swap == l.e > r.e
      big == IF swap THEN l ELSE r
      small == IF swap THEN r ELSE l
      s == IF swap THEN lhs.sign ELSE esign
  IN  IF esign = lhs.sign THEN AddMant(big, small, s) ELSE SubMant(big, small, s)

-----------------------------------------------------------------------------
(* mul and div                                                             *)

BidMul(lhs, rhs) ==
  Number((lhs.mant * rhs.mant) % Word, lhs.exp + rhs.exp, lhs.sign * rhs.sign)

\* The loop of div ends after the least number of rounds of P digits that
\* makes the quotient at least 10^(P-1); module BidDivLoop has it step by step.
DivRounds(a, b) ==
  CHOOSE n \in 0..2 :
    /\ (a * Pow10[P * n]) \div b >= Pow10[P-1]
    /\ \A i \in 0..(n-1) : (a * Pow10[P * i]) \div b < Pow10[P-1]

BidDiv(lhs, rhs) ==
  LET n == DivRounds(lhs.mant, rhs.mant)
      scaled == lhs.mant * Pow10[P * n]
      rest == 10 * (scaled % rhs.mant)
      d == rest \div rhs.mant
      sticky == d \in {0, 5} /\ rest % rhs.mant # 0
  IN  [x   |-> Number(scaled \div rhs.mant, lhs.exp - rhs.exp - P * n, lhs.sign * rhs.sign),
       rem |-> IF sticky THEN d + 1 ELSE d]

-----------------------------------------------------------------------------
(* scale: back to P digits and to the exponent range                       *)

\* Less than one unit of the smallest exponent: the digit of m is the
\* remainder, and what follows it is lost: the jump that should merge it goes
\* to the code of the subnormal case, which does nothing for 0x15.
PartialUnderflow(x, m) ==
  [x |-> [x EXCEPT !.mant = 0, !.exp = EMin], rem |-> 16 + m \div Pow10[P-1]]

\* Mutant: the exponent of a subnormal is not stored.
SubnormalKeepsExp(x, m, k, rem) ==
  [x |-> [x EXCEPT !.mant = m \div Pow10[k]], rem |-> 16 + DroppedDigit(m % Pow10[k], k)]

\* Mutant: the remainder of the normalisation is never merged.
SubnormalUnmerged(x, m, k, rem) ==
  [x |-> [x EXCEPT !.mant = m \div Pow10[k], !.exp = EMin], rem |-> 16 + DroppedDigit(m % Pow10[k], k)]

\* k digits are shifted out to reach EMin.  The remainder of the
\* normalisation is merged only when k > 1.
Subnormal(x, m, k, rem) ==
  LET d == DroppedDigit(m % Pow10[k], k)
      merged == IF k > 1 /\ d \in {0, 5} /\ rem % 32 # 0 THEN d + 1 ELSE d
  IN  [x |-> [x EXCEPT !.mant = m \div Pow10[k], !.exp = EMin], rem |-> 16 + merged]

\* m has P digits and exponent e; rem is what its normalisation left.
ToRange(x, m, e, rem) ==
  CASE e > EMax         -> Overflowed(x)
    [] e < EMin - P     -> Underflowed(x)
    [] e = EMin - P     -> PartialUnderflow(x, m)
    [] e > EMin - P /\ e < EMin -> Subnormal(x, m, EMin - e, rem)
    [] e >= EMin /\ e <= EMax -> [x |-> [x EXCEPT !.mant = m, !.exp = e], rem |-> rem]

\* Mutant: a zero is not recognised.
BidScaleNoZero(x) ==
  LET n == Digits(x.mant)
      k == n - P
  IN  IF n <= P THEN ToRange(x, x.mant * Pow10[-k], x.exp + k, 0)
      ELSE ToRange(x, x.mant \div Pow10[k], x.exp + k, DroppedDigit(x.mant % Pow10[k], k))

BidScale(x) ==
  LET n == Digits(x.mant)
      k == n - P
  IN  IF x.mant = 0 THEN Underflowed(x)
      ELSE IF n < P THEN ToRange(x, x.mant * Pow10[-k], x.exp + k, 0)
      ELSE IF n = P THEN ToRange(x, x.mant, x.exp, 32)
      ELSE ToRange(x, x.mant \div Pow10[k], x.exp + k, DroppedDigit(x.mant % Pow10[k], k))
=============================================================================
