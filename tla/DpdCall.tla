------------------------------- MODULE DpdCall -------------------------------
(***************************************************************************)
(* SumCall with the code of libfpfd-dpd.  Its addsub and scale keep the     *)
(* contract without an exception.                                           *)
(***************************************************************************)
EXTENDS SumCall, DpdArith

\* addsub truncates the exact sum, and its remainder is of the class that the
\* contract gives to what was cut off, at every distance of the operands and
\* through a carry, a borrow and a change of sign.
AddSubHonest == Added => Honest(rem1)

\* So does scale, and the two remainders combined by round2 tell the truth about
\* the exact sum: it is rounded once.
CombinedHonest == Scaled => Honest(Combine(rem1, rem2))

\* An exact zero is recognised, and nothing else that is as large as a unit of
\* the smallest exponent becomes one.
ZeroIsZero ==
  pc = "done" =>
    /\ Value.n = 0 => x.special = "ZERO"
    /\ x.special = "ZERO" /\ Value.n # 0 => Position(Value, 0, EMin) = "BELOW"

\* What is returned as too large is: the exact sum has an exponent beyond the
\* largest one, and it is clamped to the largest number.
OverflowIsLarge ==
  pc = "done" /\ rem2 = TotalOverflow =>
    Rounded(Value, "RNDZ").past /\ x.mant = MaxMant /\ x.exp = EMax
=============================================================================
