----------------------------- MODULE DpdDivLoop -----------------------------
(***************************************************************************)
(* fpfd32_impl_div of libfpfd-dpd (x86_64), instruction group by            *)
(* instruction group: two digits of the quotient at a time are estimated    *)
(* from the leading digits, multiplied out, and corrected by decrements.    *)
(***************************************************************************)
EXTENDS DpdArith

CONSTANTS
  Pairs,      \* the operands of a run, pairs of mantissas
  MaxFixes    \* bound on the decrements of one estimate that a run follows

ASSUME DpdDivAssumption ==
  /\ Pairs \subseteq (1..MaxMant) \X (1..MaxMant)
  /\ MaxFixes \in Nat

VARIABLES
  pc,       \* "align", "estimate", "ones", "multiply", "fix", "rest", "digit", "done"
  lhs, rhs, \* the mantissas
  r, b,     \* what is left of the dividend, and the divisor: r10 and r11d
  c,        \* the estimate, cl and then sil
  product,  \* of the estimate and the divisor, rax
  q,        \* the digits of the quotient found before, rsi
  exp,      \* r13d, for operands with exponent 0
  rem,      \* the value returned
  num,      \* history: the dividend, to as many digits as have been used
  fixes,    \* history: decrements of this estimate
  equal     \* history: a product that equalled what was left has been decreased

vars == <<pc, lhs, rhs, r, b, c, product, q, exp, rem, num, fixes, equal>>

Init ==
  /\ pc = "align"
  /\ \E p \in Pairs : lhs = p[1] /\ rhs = p[2]
  /\ r = 0 /\ b = 0 /\ c = 0 /\ product = 0 /\ q = 0 /\ exp = 2 /\ rem = 0
  /\ num = 0 /\ fixes = 0 /\ equal = FALSE

AlignOperands ==
  /\ pc = "align"
  /\ LET la == P + 1 - Digits(lhs)
         lb == P - Digits(rhs)
     IN  r' = lhs * Pow10[la] /\ b' = rhs * Pow10[lb] /\ exp' = exp - la + lb
  /\ num' = r'
  /\ pc' = "estimate"
  /\ UNCHANGED <<lhs, rhs, c, product, q, rem, fixes, equal>>

\* The table gives the tens, or at once an estimate below ten.
FirstEstimate ==
  /\ pc = "estimate"
  /\ LET l == Leading(r)
         b2 == Leading(b)
     IN  IF OneDigit(l, b2)
         THEN c' = TableQuotient(l \div 10, b2 \div 10) /\ pc' = "multiply"
         ELSE c' = 10 * Tens(l, b2) /\ pc' = "ones"
  /\ UNCHANGED <<lhs, rhs, r, b, product, q, exp, rem, num, fixes, equal>>

\* .Lfindestimate
Ones ==
  /\ pc = "ones"
  /\ LET next == (c + 1) * Leading(b)
     IN  IF next > Leading(r)
         THEN c' = c /\ pc' = "multiply"
         ELSE /\ c' = c + 1
              /\ pc' = IF (c + 1) % 10 = 9 \/ next = Leading(r) THEN "multiply" ELSE "ones"
  /\ UNCHANGED <<lhs, rhs, r, b, product, q, exp, rem, num, fixes, equal>>

\* .Lcheckestimate
Multiply ==
  /\ pc = "multiply"
  /\ product' = c * b
  /\ fixes' = 0
  /\ pc' = IF product' < r THEN "rest" ELSE "fix"
  /\ UNCHANGED <<lhs, rhs, r, b, c, q, exp, rem, num, equal>>

\* Mutant: the product is corrected and the estimate is not.
FixProduct ==
  /\ pc = "fix" /\ fixes < MaxFixes
  /\ c' = c
  /\ product' = (product - b) % Wrap
  /\ fixes' = fixes + 1
  /\ equal' = (equal \/ (product = r /\ r # 0))
  /\ pc' = IF r < product' THEN "fix" ELSE "rest"
  /\ UNCHANGED <<lhs, rhs, r, b, q, exp, rem, num>>

\* One turn of .Lfixestimate, in registers that wrap.
FixEstimate ==
  /\ pc = "fix" /\ fixes < MaxFixes
  /\ c' = (c - 1) % 160
  /\ product' = (product - b) % Wrap
  /\ fixes' = fixes + 1
  /\ equal' = (equal \/ (product = r /\ r # 0))
  /\ pc' = IF r < product' THEN "fix" ELSE "rest"
  /\ UNCHANGED <<lhs, rhs, r, b, q, exp, rem, num>>

Long(quotient) == quotient >= Pow10[P]

\* .Lrem
Subtract ==
  /\ pc = "rest"
  /\ q' = 100 * q + c
  /\ r' = 100 * (r - product)
  /\ IF Long(q') THEN pc' = "digit" /\ UNCHANGED <<exp, num>>
     ELSE pc' = "estimate" /\ exp' = exp - 2 /\ num' = 100 * num
  /\ UNCHANGED <<lhs, rhs, b, c, product, rem, fixes, equal>>

\* .Ldone and .Lspecial
LastDigit ==
  /\ pc = "digit"
  /\ rem' = QuotientDigit(q, r)
  /\ q' = q \div 10 /\ exp' = exp - 1
  /\ pc' = "done"
  /\ UNCHANGED <<lhs, rhs, r, b, c, product, num, fixes, equal>>

Next ==
  \/ AlignOperands \/ FirstEstimate \/ Ones \/ Multiply
  \/ FixEstimate \/ Subtract \/ LastDigit

Spec == Init /\ [][Next]_vars /\ WF_vars(Next)

-----------------------------------------------------------------------------
\* Nothing is left to divide although digits of the quotient are missing: an
\* estimate that was too large has been corrected to an exact quotient.
Exhausted == r = 0 /\ pc \in {"estimate", "ones", "multiply", "fix", "rest"}

\* "We first make an estimate of the two digits guaranteed to not be too small"
\* (div-x86_64.s:66-67): the estimate is only ever decreased.
EstimateNotTooSmall == pc = "multiply" => c >= MinOf(99, r \div b)

\* The correction ends: a product is at most forty divisors too large (90 for a
\* quotient of 50, when a divisor that starts with 19 is looked up as 1).  Each
\* turn costs a subtraction of BCD numbers.
FewFixes == pc \in {"fix", "rest"} /\ ~Exhausted => fixes <= 40

\* Quotient and rest belong to the dividend at each turn.  The rest is below the
\* divisor; from the first equality on it is the whole divisor.
DivisionExact ==
  /\ pc \in {"estimate", "ones", "multiply", "fix"} => 100 * q * b + r = num
  /\ pc = "digit" => r % 100 = 0 /\ q * b + (r \div 100) = num
  /\ pc \in {"estimate", "digit"} => IF equal THEN r = 100 * b ELSE r < 100 * b

\* What follows the remainder digit is not zero, but is in the low half of the
\* register (div-x86_64.s:239).
LowHalfZero == rem \in {0, 5} /\ r # 0 /\ r % Pow10[D \div 2] = 0

\* The value returned says on which side of one half of the last digit of the
\* mantissa the exact quotient lies, except after an equality and for a rest
\* that the low half of the register does not show.
DigitHonest ==
  pc = "done" =>
    \/ Position(Exact(1, lhs, rhs, 0), q, exp) = RemClass(rem)
    \/ equal \/ LowHalfZero

\* The loop computes what DpdDiv of module DpdArith computes at once.
MatchesDpdDiv ==
  pc = "done" => DpdDiv(Number(lhs, 0, 1), Number(rhs, 0, 1)) = Sum(q, exp, 1, rem)

\* The division ends, unless it is exhausted.
Terminates == <>(pc = "done" \/ Exhausted)
=============================================================================
