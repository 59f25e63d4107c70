------------------------------ MODULE Decimal ------------------------------
(***************************************************************************)
(* The decimal number format that every other module works on.  In the     *)
(* code a number has P = 7 digits and an exponent in -101..90; here the     *)
(* precision and the exponent range are parameters, so that TLC can         *)
(* enumerate a narrow format and the proofs hold for every width.           *)
(*                                                                         *)
(* Pow10 is the table of powers of ten that the assembly keeps (exp2mul);   *)
(* it is a constant with an assumption instead of an operator so that both  *)
(* TLC and the provers can use it.                                          *)
(***************************************************************************)
EXTENDS Integers

CONSTANTS
  P,          \* digits of a mantissa
  EMin,       \* exponent of a subnormal number
  EMax,       \* largest exponent
  MaxShift,   \* last index of the table of powers of ten
  Pow10       \* the table: Pow10[k] is 10 to the k

ASSUME DecimalAssumption ==
  /\ P \in Nat \ {0} /\ MaxShift \in Nat /\ P < MaxShift
  /\ EMin \in Int /\ EMax \in Int /\ EMin < EMax
  /\ Pow10 \in [0..MaxShift -> Nat]
  /\ Pow10[0] = 1
  /\ \A k \in 1..MaxShift : Pow10[k] = 10 * Pow10[k-1]

-----------------------------------------------------------------------------
(* fpfd_impl.h and fpfd.h: the types                                       *)

Sign    == {-1, 1}
Special == {"ZERO", "NUMBER", "SNAN", "QNAN", "INF"}
Rnd     == {"RNDN", "RNDNA", "RNDZ", "RNDU", "RNDD"}
Flag    == {"INVALID", "DIVBYZERO", "OVERFLOW", "UNDERFLOW", "INEXACT"}

\* An expanded number (fpfd32_impl_t).
Impl == [mant : Nat, exp : Int, sign : Sign, special : Special]

\* Number of decimal digits of m; zero has one.
Digits(m) == CHOOSE n \in 1..MaxShift : m < Pow10[n] /\ (n = 1 \/ Pow10[n-1] <= m)

MaxMant == Pow10[P] - 1

\* m * 10^e is as close to zero as scaling brings it: P digits, or subnormal.
Canonical(m, e) ==
  /\ m \in 0..MaxMant /\ e \in EMin..EMax
  /\ m >= Pow10[P-1] \/ e = EMin

-----------------------------------------------------------------------------
(* Reference arithmetic.  An exact value is a sign and a magnitude          *)
(* (n / d) * 10^e, with the rational kept as a pair of integers.  Nothing   *)
(* below follows the code: it is what the code is compared with.            *)

Exact(s, n, d, e) == [sign |-> s, n |-> n, d |-> d, e |-> e]

MaxOf(i, j) == IF i < j THEN j ELSE i
MinOf(i, j) == IF i < j THEN i ELSE j

\* The magnitude of v in units of 10^q, as numerator and denominator.
NumAt(v, q) == v.n * Pow10[MaxOf(v.e - q, 0)]
DenAt(v, q) == v.d * Pow10[MaxOf(q - v.e, 0)]

\* Where v lies between m and m+1 units of 10^q: the class of the digit that
\* a remainder stands for.  "OUT" when v is not in that interval.
Position(v, m, q) ==
  LET rest == NumAt(v, q) - m * DenAt(v, q)
      twice == 2 * rest
  IN  CASE rest < 0 \/ rest >= DenAt(v, q)     -> "OUT"
        [] rest = 0                            -> "EXACT"
        [] rest > 0 /\ twice < DenAt(v, q)     -> "BELOW"
        [] twice = DenAt(v, q)                 -> "TIE"
        [] twice > DenAt(v, q) /\ rest < DenAt(v, q) -> "ABOVE"

\* The class that fpfd_impl.h:86-96 gives to the low bits of a remainder.
RemClass(rem) ==
  LET r == rem % 16
  IN  CASE r = 0      -> "EXACT"
        [] r \in 1..4 -> "BELOW"
        [] r = 5      -> "TIE"
        [] r \in 6..9 -> "ABOVE"
        [] OTHER      -> "OUT"

\* Does rnd move a magnitude that lies at pos above m one unit up?
RoundsUp(rnd, s, pos, m) ==
  /\ pos # "EXACT"
  /\ \/ rnd \in {"RNDN", "RNDNA"} /\ pos = "ABOVE"
     \/ rnd = "RNDN"  /\ pos = "TIE" /\ m % 2 = 1
     \/ rnd = "RNDNA" /\ pos = "TIE"
     \/ rnd = "RNDU"  /\ s = 1
     \/ rnd = "RNDD"  /\ s = -1

\* Sums, products and quotients of two finite nonzero numbers, exactly.
ExactSum(a, b) ==
  LET q == MinOf(a.exp, b.exp)
      t == a.sign * a.mant * Pow10[a.exp - q] + b.sign * b.mant * Pow10[b.exp - q]
  IN  Exact(IF t < 0 THEN -1 ELSE 1, IF t < 0 THEN -t ELSE t, 1, q)

ExactProduct(a, b) == Exact(a.sign * b.sign, a.mant * b.mant, 1, a.exp + b.exp)

\* Scaled by 2P digits so that the quotient has at least P of them.
ExactQuotient(a, b) ==
  Exact(a.sign * b.sign, a.mant * Pow10[2 * P], b.mant, a.exp - b.exp - 2 * P)

\* The correctly rounded result of a nonzero exact value v and the sign of
\* (result - v), as IEEE 754-2008 defines them: past is true when the exponent
\* is too large already before rounding.
Rounded(v, rnd) ==
  LET q   == MaxOf(EMin, v.e + Digits(v.n \div v.d) - P)
      m   == NumAt(v, q) \div DenAt(v, q)
      pos == Position(v, m, q)
      up  == RoundsUp(rnd, v.sign, pos, m)
      carry == up /\ m + 1 = Pow10[P]
      away == \/ rnd \in {"RNDN", "RNDNA"}
              \/ rnd = "RNDU" /\ v.sign = 1
              \/ rnd = "RNDD" /\ v.sign = -1
      step(b) == IF b THEN v.sign ELSE -v.sign
  IN  IF q > EMax
      THEN [inf |-> away, mant |-> MaxMant, exp |-> EMax, sign |-> v.sign,
            order |-> step(away), past |-> TRUE]
      ELSE [inf  |-> carry /\ q = EMax,
            mant |-> IF carry THEN Pow10[P-1] ELSE IF up THEN m + 1 ELSE m,
            exp  |-> IF carry THEN q + 1 ELSE q,
            sign |-> v.sign,
            order |-> IF pos = "EXACT" THEN 0 ELSE step(up),
            past |-> FALSE]

\* Do m * 10^e and m2 * 10^e2 denote the same magnitude?  (The cohorts of
\* 754-2008: 10 * 10^0 and 1 * 10^1.)  Mantissas have at most P digits.
SameMagnitude(m, e, m2, e2) ==
  \/ m = 0 /\ m2 = 0
  \/ /\ m # 0 /\ m2 # 0
     /\ e - e2 \in -P..P
     /\ m * Pow10[MaxOf(e - e2, 0)] = m2 * Pow10[MaxOf(e2 - e, 0)]
=============================================================================
