------------------------------ MODULE Rounding ------------------------------
(***************************************************************************)
(* libfpfd/round.c and the two small routines it calls in the encoding      *)
(* library, impl_inc and impl_odd.  A remainder is the integer that the     *)
(* code passes around: its low four bits are a digit, 16 is the             *)
(* subnormalised bit, 32 says that nothing was changed.                     *)
(***************************************************************************)
EXTENDS Decimal

TotalOverflow   == 10
TotalUnderflow  == 26     \* 10 | 0x10

-----------------------------------------------------------------------------
Odd(x) == x.mant % 2 = 1

\* Mutant: the carry out of the last digit is not handled.
IncNoCarry(x) == [x EXCEPT !.mant = @ + 1]

\* Add one unit in the last place.  On the largest number only the special
\* field changes.
Inc(x) ==
  IF x.mant + 1 # Pow10[P] THEN [x EXCEPT !.mant = @ + 1]
  ELSE IF x.exp >= EMax    THEN [x EXCEPT !.special = "INF"]
  ELSE [x EXCEPT !.exp = @ + 1, !.mant = Pow10[P-1]]

-----------------------------------------------------------------------------
\* Mutant: the sign is forgotten.
AwayFromZeroUnsigned(rnd, s) == rnd = "RNDU"

\* The directed modes that move a number of sign s away from zero.
AwayFromZero(rnd, s) == (rnd = "RNDU" /\ s > 0) \/ (rnd = "RNDD" /\ s < 0)

DirectedAction(rnd, s) == IF AwayFromZero(rnd, s) THEN "RMSIGN" ELSE "RSIGN"

\* Mutant: RNDN rounds every tie up.
NearestActionHalfUp(rnd, r) ==
  IF rnd # "RNDN" \/ r < 5 THEN "RSIGN" ELSE "RMSIGN"

\* The nearest modes on the digit r of a remainder.  The case of RNDNA has no
\* break and falls into RNDZ (round.c:149-158).
NearestAction(rnd, r) ==
  IF rnd # "RNDN" THEN "RSIGN"
  ELSE IF r < 5   THEN "RSIGN"
  ELSE IF r = 5   THEN "RMSIGNO"
  ELSE "RMSIGN"

RoundAction(x, rem, rnd) ==
  CASE x.special # "NUMBER" \/ rem % 16 = 0 -> "RZERO"
    [] x.special = "NUMBER" /\ rem = TotalOverflow ->
         IF rnd \in {"RNDN", "RNDNA"} THEN "RMSIGN" ELSE DirectedAction(rnd, x.sign)
    [] x.special = "NUMBER" /\ rem = TotalUnderflow -> "RSIGN"
    [] OTHER -> IF rnd \in {"RNDU", "RNDD"} THEN DirectedAction(rnd, x.sign)
                ELSE NearestAction(rnd, rem % 16)

\* The flags that fpfd_round raises.  The test for UNDERFLOW reads
\* (rem | 0x10), which is never zero (round.c:100).
RoundFlags(x, rem) ==
  IF x.special # "NUMBER" THEN {}
  ELSE {f \in {"INEXACT", "UNDERFLOW", "OVERFLOW"} :
          \/ f = "INEXACT"   /\ rem % 16 \notin {0, 10}
          \/ f = "UNDERFLOW" /\ rem # TotalUnderflow
          \/ f = "OVERFLOW"  /\ rem = TotalOverflow}

\* A zero gets its sign from the rounding mode.
SignOfZero(x, rnd) ==
  IF x.special = "ZERO" THEN [x EXCEPT !.sign = IF rnd = "RNDD" THEN -1 ELSE 1]
  ELSE x

\* fpfd32_impl_round: the rounded number, the ternary value, the flags raised.
Round(x, rem, rnd) ==
  LET act == RoundAction(x, rem, rnd)
      z   == SignOfZero(x, rnd)
      inc == act = "RMSIGN" \/ (act = "RMSIGNO" /\ Odd(z))
  IN  [x     |-> IF inc THEN Inc(z) ELSE z,
       tern  |-> IF act = "RZERO" THEN 0 ELSE IF inc THEN -z.sign ELSE z.sign,
       flags |-> RoundFlags(x, rem)]

\* fpfd32_impl_round2: the remainder that stands for two successive ones.
Combine(rem1, rem2) ==
  IF (rem2 \div 32) % 2 = 1 THEN rem1
  ELSE IF rem2 % 16 \in {0, 5} /\ rem1 % 16 # 0 THEN rem2 + 1
  ELSE rem2
=============================================================================
