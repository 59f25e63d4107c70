------------------------------ MODULE Library ------------------------------
(***************************************************************************)
(* What the arithmetic of the two encoding libraries has in common: the     *)
(* numbers and the remainders they hand back, and the two ends of the       *)
(* exponent range.  D is the number of digits a mantissa register holds.    *)
(***************************************************************************)
EXTENDS Decimal

CONSTANT D

ASSUME LibraryAssumption == D \in Nat /\ 2 * P < D /\ D < MaxShift

Number(m, e, s) == [mant |-> m, exp |-> e, sign |-> s, special |-> "NUMBER"]

\* What addsub stores and returns.
Sum(m, e, s, rem) == [x |-> Number(m, e, s), rem |-> rem]

\* Mutant: a digit 5 with something behind it passes for a tie.
DroppedDigitZeroOnly(rest, k) ==
  LET d == (10 * rest) \div Pow10[k]
  IN  IF d = 0 /\ rest # 0 THEN 1 ELSE d

\* First digit of the k digits in rest, made sticky when it is 0 or 5.
DroppedDigit(rest, k) ==
  LET d == (10 * rest) \div Pow10[k]
  IN  IF d \in {0, 5} /\ (10 * rest) % Pow10[k] # 0 THEN d + 1 ELSE d

Underflowed(x) == [x |-> [x EXCEPT !.special = "ZERO"], rem |-> 26]
Overflowed(x)  == [x |-> [x EXCEPT !.mant = MaxMant, !.exp = EMax], rem |-> 10]
=============================================================================
