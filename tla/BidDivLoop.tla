----------------------------- MODULE BidDivLoop -----------------------------
(***************************************************************************)
(* fpfd32_impl_div of libfpfd-bid (x86_64), instruction group by            *)
(* instruction group: a hardware division of the mantissas, a loop that     *)
(* lengthens the quotient by P digits at a time until it has enough, and    *)
(* the digit that becomes the remainder.  The registers have their widths:  *)
(* the quotient wraps at Word; a divl whose quotient does not fit in Half    *)
(* would fault, which NoDivideError excludes.                               *)
(***************************************************************************)
EXTENDS BidArith

CONSTANT Mantissas    \* the operands of a run

ASSUME DivAssumption ==
  /\ Mantissas \subseteq 1..MaxMant
  /\ Pow10[P-1] * Pow10[P] <= Word
  /\ 10 * Pow10[P] < Half

VARIABLES
  pc,       \* "div", "loop", "digit" or "done"
  lhs, rhs, \* the mantissas; rhs is ecx
  q,        \* the quotient, rax and r10
  r,        \* the remainder of the last division, edx
  shift,    \* the decrease of the exponent so far, r11d
  rem,      \* the value returned
  num       \* history: lhs * 10^shift

vars == <<pc, lhs, rhs, q, r, shift, rem, num>>

Init ==
  /\ pc = "div"
  /\ lhs \in Mantissas /\ rhs \in Mantissas
  /\ q = 0 /\ r = 0 /\ shift = 0 /\ rem = 0
  /\ num = lhs

\* Mutant: a quotient of exactly P digits is lengthened once more.
EnoughStrict(quotient) == quotient > Pow10[P-1]

Enough(quotient) == quotient >= Pow10[P-1]

\* Mutant: without the first division the loop starts from the dividend.
DivideNothing ==
  /\ pc = "div"
  /\ q' = 0 /\ r' = lhs
  /\ pc' = "loop"
  /\ UNCHANGED <<lhs, rhs, shift, rem, num>>

\* The first division; a quotient that is long enough skips the loop.
Divide ==
  /\ pc = "div"
  /\ q' = lhs \div rhs
  /\ r' = lhs % rhs
  /\ pc' = IF Enough(q') THEN "digit" ELSE "loop"
  /\ UNCHANGED <<lhs, rhs, shift, rem, num>>

\* Mutant: edx is not the remainder of the new division.
LengthenStaleRest ==
  /\ pc = "loop"
  /\ q' = (((q * Pow10[P]) % Word) + ((r * Pow10[P]) \div rhs)) % Word
  /\ r' = r
  /\ shift' = shift + P
  /\ num' = num * Pow10[P]
  /\ pc' = IF Enough(q') THEN "digit" ELSE "loop"
  /\ UNCHANGED <<lhs, rhs, rem>>

\* Mutant: the multiplier is one instead of 10^P, so a round gains no digits.
LengthenUnscaled ==
  /\ pc = "loop"
  /\ q' = q + r \div rhs
  /\ r' = r % rhs
  /\ pc' = IF Enough(q') THEN "digit" ELSE "loop"
  /\ UNCHANGED <<lhs, rhs, shift, rem, num>>

\* One round of .Ldivloop.
Lengthen ==
  /\ pc = "loop"
  /\ q' = (((q * Pow10[P]) % Word) + ((r * Pow10[P]) \div rhs)) % Word
  /\ r' = (r * Pow10[P]) % rhs
  /\ shift' = shift + P
  /\ num' = num * Pow10[P]
  /\ pc' = IF Enough(q') THEN "digit" ELSE "loop"
  /\ UNCHANGED <<lhs, rhs, rem>>

\* Mutants: every digit is made sticky; an inexact 5 is left a tie.
StickyAnyDigit(d, rest) == IF rest # 0 THEN d + 1 ELSE d
StickyZeroOnly(d, rest) == IF d = 0 /\ rest # 0 THEN d + 1 ELSE d

StickyDigit(d, rest) == IF d \in {0, 5} /\ rest # 0 THEN d + 1 ELSE d

\* .Ldone and .Lspecial: the first digit of the remainder, sticky.
Digit ==
  /\ pc = "digit"
  /\ rem' = StickyDigit((10 * r) \div rhs, (10 * r) % rhs)
  /\ pc' = "done"
  /\ UNCHANGED <<lhs, rhs, q, r, shift, num>>

Next == Divide \/ Lengthen \/ Digit

Spec == Init /\ [][Next]_vars /\ WF_vars(Next)

-----------------------------------------------------------------------------
TypeOK ==
  /\ pc \in {"div", "loop", "digit", "done"}
  /\ lhs \in 1..MaxMant /\ rhs \in 1..MaxMant
  /\ q \in 0..(Word - 1) /\ r \in Nat
  /\ shift \in Nat /\ rem \in 0..9 /\ num \in Nat

\* Nothing is lost in the loop: quotient and remainder are those of the
\* scaled numerator, although the quotient is built in a register that wraps.
QuotientExact == pc # "div" => q * rhs + r = num /\ r < rhs

\* The value returned tells on which side of one half the rest of the
\* division lies, which is what rounding relies on (fpfd_impl.h:86-93).
RemainderExact ==
  pc = "done" =>
    /\ rem = 0       <=> r = 0
    /\ rem \in 1..4  <=> 0 < r /\ 2 * r < rhs
    /\ rem = 5       <=> 2 * r = rhs
    /\ rem \in 6..9  <=> 2 * r > rhs

\* The divl of the loop never raises a divide error: its quotient fits in 32
\* bits.
NoDivideError == pc = "loop" => (r * Pow10[P]) \div rhs < Half

\* The loop computes what BidDiv of module BidArith computes at once.
MatchesBidDiv ==
  pc = "done" =>
    LET x(m) == [mant |-> m, exp |-> 0, sign |-> 1, special |-> "NUMBER"]
    IN  BidDiv(x(lhs), x(rhs)) = [x |-> [x(q) EXCEPT !.exp = -shift], rem |-> rem]

\* The loop ends: the quotient of two nonzero mantissas gets enough digits.
Terminates == <>(pc = "done")
=============================================================================
