------------------------------ MODULE SumCall ------------------------------
(***************************************************************************)
(* The sequence impl_addsub, impl_scale that fpfd32_add, _sub and _fma run   *)
(* on two numbers, for either encoding library, and what it is compared     *)
(* with: the contract of fpfd_impl.h:89-108 for each of the two remainders  *)
(* and for the one that fpfd32_impl_round2 makes of them.                   *)
(***************************************************************************)
EXTENDS Library, Rounding, LibraryContract

CONSTANT Operands       \* the pairs of a run; the left one may be a product

VARIABLES pc, sgn, lhs, rhs, x, rem1, rem2

vars == <<pc, sgn, lhs, rhs, x, rem1, rem2>>

Init ==
  /\ pc = "addsub"
  /\ sgn \in {-1, 1}
  /\ \E p \in Operands : lhs = p[1] /\ rhs = p[2]
  /\ x = lhs /\ rem1 = 0 /\ rem2 = 0

AddSub ==
  /\ pc = "addsub"
  /\ LET r == ImplAddSub(sgn, lhs, rhs) IN x' = r.x /\ rem1' = r.rem
  /\ pc' = "scale"
  /\ UNCHANGED <<sgn, lhs, rhs, rem2>>

ScaleSum ==
  /\ pc = "scale"
  /\ LET r == ImplScale(x) IN x' = r.x /\ rem2' = r.rem
  /\ pc' = "done"
  /\ UNCHANGED <<sgn, lhs, rhs, rem1>>

Next == AddSub \/ ScaleSum

Spec == Init /\ [][Next]_vars

-----------------------------------------------------------------------------
(* The reference                                                           *)

\* The exact sum, in numbers that TLC can hold.  What an operand has more than two
\* digits below the D digits of the other is replaced by a single 1 there, which
\* lies on the same side of every number of D digits and of every half between
\* two of them.
Horizon(a) == a.exp + Digits(a.mant) - D - 2

Near(a, b) ==
  LET k == Horizon(a) - b.exp
      kept == IF k < Digits(b.mant) THEN b.mant \div Pow10[k] ELSE 0
      sticky == IF k >= Digits(b.mant) \/ b.mant % Pow10[k] # 0 THEN 1 ELSE 0
  IN  IF k <= 0 THEN b ELSE [b EXCEPT !.mant = 10 * kept + sticky, !.exp = Horizon(a) - 1]

Value ==
  LET r == [rhs EXCEPT !.sign = sgn * @] IN ExactSum(Near(r, lhs), Near(lhs, r))

\* The number is the exact sum truncated, and rem tells what was cut off.
Honest(rem) == Position(Value, x.mant, x.exp) = RemClass(rem)

Added  == pc = "scale" /\ Value.n # 0
Scaled == pc = "done" /\ Value.n # 0 /\ x.special = "NUMBER" /\ rem2 # TotalOverflow
=============================================================================
