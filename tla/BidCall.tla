------------------------------- MODULE BidCall -------------------------------
(***************************************************************************)
(* SumCall with the code of libfpfd-bid.                                    *)
(*                                                                         *)
(* The contract does not always hold.  The cases in which it fails are      *)
(* named below, as narrow as they are in the code; outside of them it is    *)
(* checked to the letter.                                                   *)
(***************************************************************************)
EXTENDS SumCall, BidArith

-----------------------------------------------------------------------------
(* The cases in which the contract fails                                   *)

left  == Align(lhs)
right == Align(rhs)
big   == IF left.e > right.e THEN left ELSE right
small == IF left.e > right.e THEN right ELSE left
gap   == big.e - small.e
subtracts == sgn * rhs.sign # lhs.sign
quotient == RecipDiv(small.m, gap)
rest     == small.m - quotient * Pow10[gap]

\* The entry of bsr2exp for one length of operand is one too small
\* (addsub-x86_64.s:388).
WrongExponent == BadBsr \in {Bsr(lhs.mant), Bsr(rhs.mant)}

\* "Reclaiming" a digit adds the whole rest of the division instead of its
\* first digit, in a register that may not hold the sum
\* (addsub-x86_64.s:212-220).
Reclaims ==
  /\ subtracts /\ gap \in 1..D /\ rest # 0
  /\ big.m - quotient - 1 < Pow10[D-1]

\* The smaller operand is out of reach of the larger: the borrow is taken, but
\* the remainder is whatever eax holds (addsub-x86_64.s:268-270).
TooFar == subtracts /\ gap > D

\* The reciprocal of 10^(D-1) is a little too small (exp2div, line 446).
ShortReciprocal ==
  \/ gap = D - 1 /\ small.m % Pow10[D-1] = 0
  \/ gap = D /\ (IF subtracts THEN Pow10[gap] - rest ELSE rest) % Pow10[D-1] = 0

\* A digit 0 or 5 is made sticky by a comparison of 32 bits (lines 119, 241).
\* It takes a product (fma) as the smaller operand, and then the sum has other
\* digits below the P that are kept.
LowHalfZero ==
  LET r == IF subtracts THEN Pow10[gap] - rest ELSE rest
      tail == r % Pow10[gap-1]
  IN  gap \in 2..D /\ RecipDiv(r, gap - 1) \in {0, 5} /\ tail # 0 /\ tail % Half = 0

\* scale drops the rest of its own normalisation when it then shifts out one
\* digit (scale-x86_64.s:146-147), and all that is behind the first digit when it
\* shifts out all of them (191-211).  It shows where that digit is 0 or 5; if
\* addsub left something too, fpfd32_impl_round2 merges that.
Drops(y, first, second) ==
  LET n == Digits(y.mant)
      e == y.exp + n - P
  IN  /\ first % 16 = 0
      /\ \/ e = EMin - 1 /\ n > P /\ second \in {16, 21} /\ y.mant % Pow10[n-P] # 0
         \/ e = EMin - P /\ second = 21 /\ y.mant % Pow10[n-1] # 0

ScaleDrops == Drops(BidAddSub(sgn, lhs, rhs).x, rem1, rem2)

-----------------------------------------------------------------------------
\* addsub truncates, and its remainder is of the class that the contract gives
\* to what was cut off.
AddSubHonest ==
  Added =>
    \/ Honest(rem1)
    \/ WrongExponent \/ Reclaims \/ TooFar \/ ShortReciprocal \/ LowHalfZero

\* Round2 sees the truth about the exact sum: the scaled number is the sum
\* truncated, and the combined remainder is of the right class.  The remainders
\* that addsub gets wrong for distant operands and through the reciprocal do no
\* harm, because scale always cuts more digits off.
CombinedHonest ==
  Scaled =>
    \/ Honest(Combine(rem1, rem2))
    \/ WrongExponent \/ Reclaims \/ ScaleDrops

\* An exact zero is recognised, and nothing else that is as large as a unit of
\* the smallest exponent becomes one.  A reclaimed digit can: the rest that is
\* added takes the sum out of the register, and what is left in it is small.
ZeroIsZero ==
  pc = "done" /\ ~WrongExponent /\ ~Reclaims =>
    /\ Value.n = 0 => x.special = "ZERO"
    /\ x.special = "ZERO" /\ Value.n # 0 => Position(Value, 0, EMin) = "BELOW"

\* scale leaves a number of P digits, or a shorter one at the smallest exponent.
InFormat ==
  pc = "done" =>
    \/ x.special = "ZERO" /\ rem2 = TotalUnderflow
    \/ /\ x.mant < Pow10[P] /\ x.exp \in EMin..EMax
       /\ x.mant >= Pow10[P-1] \/ x.exp = EMin

\* The carry and the borrow that the code provides for after a division ("This
\* should never happen", addsub-x86_64.s:96, 135, 196) do not happen.
NoCarryAfterDivision ==
  gap \in 1..D =>
    /\ big.m + quotient < Word
    /\ quotient < big.m
=============================================================================
