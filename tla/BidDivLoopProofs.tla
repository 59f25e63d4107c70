-------------------------- MODULE BidDivLoopProofs --------------------------
(***************************************************************************)
(* The division loop is exact for every precision, register width and pair  *)
(* of mantissas.  The inductive invariant adds to the checked properties    *)
(* that the quotient is still short inside the loop: this bounds the next   *)
(* product and so excludes the wrap-around of the register.                 *)
(***************************************************************************)
EXTENDS BidDivLoop, RoundingProofs

IInv ==
  /\ TypeOK
  /\ QuotientExact
  /\ RemainderExact
  /\ pc = "div"  => num = lhs
  /\ pc = "loop" => q < Pow10[P-1]

-----------------------------------------------------------------------------
(* The constants                                                           *)

\* What the assumptions say of the two powers that the loop uses.
LEMMA Powers ==
  /\ Pow10[P] \in Nat /\ Pow10[P-1] \in Nat /\ Pow10[P] = 10 * Pow10[P-1]
  /\ Pow10[P-1] * Pow10[P] <= Word
  /\ Word \in Nat /\ Half \in Nat /\ 10 * Pow10[P] < Half
  /\ P \in Nat
BY DecimalAssumption, BidAssumption, DivAssumption

-----------------------------------------------------------------------------
(* The loop                                                                *)

LEMMA InitInv == Init => IInv
<1> SUFFICES ASSUME Init PROVE IInv
  OBVIOUS
<1>1. lhs \in 1..MaxMant /\ rhs \in 1..MaxMant
  BY DivAssumption DEF Init
<1>2. 0 \in 0..(Word - 1)
  BY BidAssumption
<1> QED
  BY <1>1, <1>2 DEF Init, IInv, TypeOK, QuotientExact, RemainderExact

LEMMA DivideInv == IInv /\ Divide => IInv'
<1> SUFFICES ASSUME IInv, Divide PROVE IInv'
  OBVIOUS
<1>1. /\ lhs \in Nat \ {0} /\ rhs \in Nat \ {0} /\ lhs < Pow10[P]
      /\ num = lhs /\ rem \in 0..9 /\ shift \in Nat
      /\ lhs \in 1..MaxMant /\ rhs \in 1..MaxMant
  BY Powers DEF IInv, TypeOK, Divide, MaxMant
<1>2. /\ q' \in Nat /\ r' \in 0..(rhs - 1) /\ (q' * rhs) + r' = lhs
      /\ q' <= lhs
  BY <1>1, DivMod DEF Divide
<1>4. Pow10[P] <= Word /\ Word \in Nat /\ Pow10[P] \in Nat /\ Pow10[P-1] \in Nat
  <2>1. Pow10[P-1] >= 1
    BY <1>1, Powers
  <2>2. 1 * Pow10[P] <= Pow10[P-1] * Pow10[P]
    BY <2>1, TimesMonotonic, Powers
  <2> QED
    BY <2>2, Powers
<1>5. TypeOK'
  BY <1>1, <1>2, <1>4 DEF Divide, TypeOK
<1>6. QuotientExact'
  BY <1>1, <1>2 DEF Divide, QuotientExact
<1>7. RemainderExact' /\ (pc = "div" => num = lhs)'
  BY DEF Divide, RemainderExact
<1>8. (pc = "loop" => q < Pow10[P-1])'
  BY <1>2, <1>4 DEF Divide, Enough
<1> QED
  BY <1>5, <1>6, <1>7, <1>8 DEF IInv

LEMMA LengthenInv == IInv /\ Lengthen => IInv'
<1> SUFFICES ASSUME IInv, Lengthen PROVE IInv'
  OBVIOUS
<1> DEFINE B == Pow10[P]
           t == (r * B) \div rhs
           wide == (q * B) + t
<1>1. /\ lhs \in 1..MaxMant /\ rhs \in 1..MaxMant /\ rhs \in Nat \ {0}
      /\ q \in Nat /\ r \in Nat
      /\ num \in Nat /\ rem \in 0..9 /\ shift \in Nat
      /\ (q * rhs) + r = num /\ r < rhs /\ q < Pow10[P-1] /\ B \in Nat \ {0}
      /\ Pow10[P-1] \in Nat /\ Word \in Nat /\ P \in Nat
  BY Powers DEF IInv, TypeOK, QuotientExact, Lengthen, MaxMant
<1>2. t \in 0..(B - 1)
  <2> HIDE DEF B
  <2> QED
    BY <1>1, ScaledQuotient
<1>3. /\ r' \in 0..(rhs - 1) /\ (t * rhs) + r' = r * B
  <2>1. r * B \in Nat
    <3> HIDE DEF B
    <3> QED
      BY <1>1
  <2>2. r' = (r * B) % rhs
    BY DEF Lengthen
  <2> HIDE DEF B
  <2> QED
    BY <2>1, <2>2, <1>1, DivMod
<1>4. wide \in 0..(Word - 1) /\ q * B \in 0..(Word - 1)
  <2>1. Pow10[P-1] * B <= Word
    BY Powers
  <2> HIDE DEF B, t
  <2>2. q * B \in Nat /\ (q + 1) * B <= Pow10[P-1] * B
    BY <1>1, TimesMonotonic
  <2>3. (q + 1) * B = (q * B) + B
    BY <1>1
  <2>4. Pow10[P-1] * B \in Nat
    BY <1>1
  <2> QED
    BY <2>1, <2>2, <2>3, <2>4, <1>1, <1>2
<1>5. q' = wide
  <2>1. (q * B) % Word = q * B
    <3> DEFINE n == q * B
    <3>1. n \in Nat /\ n < Word
      BY <1>1, <1>4
    <3> HIDE DEF n
    <3>2. n % Word = n
      BY <1>1, <3>1, ModSmall
    <3> QED
      BY <3>2 DEF n
  <2>2. wide % Word = wide
    <3> HIDE DEF wide
    <3> QED
      BY <1>1, <1>4, ModSmall
  <2> QED
    BY <2>1, <2>2 DEF Lengthen
<1>6. (q' * rhs) + r' = num'
  <2>1. num' = ((q * rhs) + r) * B
    BY <1>1 DEF Lengthen
  <2>2. wide * rhs = ((q * B) * rhs) + (t * rhs)
    <3>1. t \in Int /\ q * B \in Int /\ rhs \in Int
      BY <1>1, <1>2
    <3> HIDE DEF t, B
    <3> QED
      BY <3>1
  <2>3. ((q * rhs) + r) * B = ((q * B) * rhs) + (r * B)
    <3> HIDE DEF B
    <3> QED
      BY <1>1
  <2>4. t * rhs \in Int /\ (q * B) * rhs \in Int /\ r' \in Int
    BY <1>1, <1>2, <1>3
  <2> HIDE DEF t, B, wide
  <2> QED
    BY <2>1, <2>2, <2>3, <2>4, <1>3, <1>5
<1>7. TypeOK'
  <2>1. num' \in Nat
    BY <1>1 DEF Lengthen
  <2>2. shift' \in Nat
    BY <1>1 DEF Lengthen
  <2>3. pc' \in {"div", "loop", "digit", "done"} /\ lhs' = lhs /\ rhs' = rhs /\ rem' = rem
    BY DEF Lengthen
  <2>4. q' \in 0..(Word - 1) /\ r' \in Nat
    BY <1>1, <1>3, <1>4, <1>5
  <2> QED
    BY <2>1, <2>2, <2>3, <2>4, <1>1 DEF TypeOK
<1>8. QuotientExact'
  <2>1. rhs' = rhs /\ r' < rhs
    BY <1>1, <1>3 DEF Lengthen
  <2> QED
    BY <2>1, <1>6 DEF QuotientExact
<1>9. RemainderExact' /\ (pc = "div" => num = lhs)'
  BY DEF Lengthen, RemainderExact
<1>10. (pc = "loop" => q < Pow10[P-1])'
  <2>1. q' \in Nat
    BY <1>4, <1>5
  <2>2. pc' = "loop" => ~(q' >= Pow10[P-1])
    BY DEF Lengthen, Enough
  <2> QED
    BY <2>1, <2>2, <1>1 DEF Lengthen
<1> QED
  BY <1>7, <1>8, <1>9, <1>10 DEF IInv

LEMMA DigitInv == IInv /\ Digit => IInv'
<1> SUFFICES ASSUME IInv, Digit PROVE IInv'
  OBVIOUS
<1>1. /\ rhs \in Nat \ {0} /\ r \in Nat /\ r < rhs
  BY Powers DEF IInv, TypeOK, QuotientExact, Digit, MaxMant
<1>0. rem' = StickyDigit((10 * r) \div rhs, (10 * r) % rhs)
  BY DEF Digit
<1>2. Classifies(rem', r, rhs)
  BY <1>0, <1>1, FirstDigitClass DEF StickyDigit
<1>3. pc' = "done" /\ UNCHANGED <<lhs, rhs, q, r, shift, num>>
  BY DEF Digit
<1>4. TypeOK'
  BY <1>2, <1>3 DEF IInv, TypeOK, Classifies
<1>5. QuotientExact'
  BY <1>3 DEF IInv, QuotientExact, Digit
<1>6. RemainderExact'
  BY <1>2, <1>3 DEF RemainderExact, Classifies
<1> QED
  BY <1>3, <1>4, <1>5, <1>6 DEF IInv

\* The inductive invariant holds in every reachable state.
THEOREM DivInductive == Spec => []IInv
<1>1. IInv /\ UNCHANGED vars => IInv'
  BY DEF IInv, TypeOK, QuotientExact, RemainderExact, vars
<1>2. IInv /\ [Next]_vars => IInv'
  BY <1>1, DivideInv, LengthenInv, DigitInv DEF Next
<1> QED
  BY <1>2, InitInv, PTL DEF Spec

\* Every variable keeps its type: in particular the quotient register holds
\* the quotient, whatever the operands.
THEOREM DivTypeOK == Spec => []TypeOK
<1>1. IInv => TypeOK
  BY DEF IInv
<1> QED
  BY <1>1, DivInductive, PTL

\* The quotient and the remainder of the loop are those of the scaled dividend:
\* impl_div (div-x86_64.s:48-59) loses nothing.
THEOREM DivQuotientExact == Spec => []QuotientExact
<1>1. IInv => QuotientExact
  BY DEF IInv
<1> QED
  BY <1>1, DivInductive, PTL

\* The value that impl_div returns obeys the protocol of fpfd_impl.h:86-93.
THEOREM DivRemainderExact == Spec => []RemainderExact
<1>1. IInv => RemainderExact
  BY DEF IInv
<1> QED
  BY <1>1, DivInductive, PTL

\* The divl of the loop (div-x86_64.s:54) never raises a divide error.
THEOREM DivNoDivideError == Spec => []NoDivideError
<1>1. IInv => NoDivideError
  <2> SUFFICES ASSUME IInv, pc = "loop" PROVE (r * Pow10[P]) \div rhs < Half
    BY DEF NoDivideError
  <2>1. r \in Nat /\ rhs \in Nat \ {0} /\ r < rhs /\ Pow10[P] \in Nat \ {0}
    BY Powers DEF IInv, TypeOK, QuotientExact, MaxMant
  <2>2. (r * Pow10[P]) \div rhs \in 0..(Pow10[P] - 1)
    BY <2>1, ScaledQuotient
  <2> QED
    BY <2>2, Powers
<1> QED
  BY <1>1, DivInductive, PTL

-----------------------------------------------------------------------------
(* The loop and the operator BidDiv                                        *)

\* The quotient after k rounds of P digits, and whether it is too short.
Scaled(k)   == lhs * Pow10[P * k]
Quotient(k) == Scaled(k) \div rhs
Short(k)    == Quotient(k) < Pow10[P-1]

\* k rounds have been made, and each was needed.
After(k) ==
  /\ shift = P * k /\ num = Scaled(k)
  /\ \A i \in 0..(k - 1) : Short(i)
  /\ pc = "div" => k = 0
  /\ pc = "loop" => Short(k)
  /\ pc \in {"digit", "done"} => ~Short(k)

MInv ==
  /\ \E k \in 0..2 : After(k)
  /\ pc = "done" => rem = StickyDigit((10 * r) \div rhs, (10 * r) % rhs)

\* The rounds stay in the table.
LEMMA RoundPowers ==
  ASSUME NEW k \in 0..2
  PROVE  /\ P * k \in 0..MaxShift /\ Pow10[P * k] \in Nat \ {0}
         /\ k < 2 => Pow10[P * (k + 1)] = Pow10[P * k] * Pow10[P]
<1>1. P \in Nat /\ 2 * P < MaxShift /\ MaxShift \in Nat
  BY DecimalAssumption, LibraryAssumption
<1>2. P * k \in 0..MaxShift
  BY <1>1
<1>3. k < 2 => P * (k + 1) = P * k + P /\ P * k + P <= MaxShift /\ P * k \in Nat
  BY <1>1
<1>4. k < 2 => Pow10[P * k + P] = Pow10[P * k] * Pow10[P]
  BY <1>1, <1>3, PowerSum
<1> QED
  BY <1>2, <1>3, <1>4, PowerType

LEMMA RoundTypes ==
  ASSUME TypeOK
  PROVE  /\ lhs \in Nat \ {0} /\ rhs \in Nat \ {0} /\ rhs < Pow10[P]
         /\ \A k \in 0..2 : Scaled(k) \in Nat /\ Quotient(k) \in Nat
<1>1. lhs \in Nat \ {0} /\ rhs \in Nat \ {0} /\ rhs < Pow10[P]
  BY Powers DEF TypeOK, MaxMant
<1>2. ASSUME NEW k \in 0..2 PROVE Scaled(k) \in Nat /\ Quotient(k) \in Nat
  <2>1. Pow10[P * k] \in Nat
    BY RoundPowers
  <2>2. Scaled(k) \in Nat
    BY <1>1, <2>1 DEF Scaled
  <2> QED
    BY <1>1, <2>2, DivMod DEF Quotient
<1> QED
  BY <1>1, <1>2

\* After two rounds the quotient is long enough.
LEMMA TwoRoundsSuffice ==
  ASSUME TypeOK
  PROVE  ~Short(2)
<1>1. lhs \in Nat \ {0} /\ rhs \in Nat \ {0} /\ rhs < Pow10[P]
      /\ Scaled(2) \in Nat /\ Quotient(2) \in Nat
  BY RoundTypes
<1> DEFINE b == Pow10[P]
<1>2. b \in Nat \ {0} /\ Pow10[P-1] \in Nat /\ Pow10[P-1] <= b
  BY Powers, <1>1
<1>3. Pow10[P * 2] = b * b
  <2>1. P * 2 = P + P /\ P \in Nat /\ P + P <= MaxShift
    BY DecimalAssumption, LibraryAssumption
  <2> QED
    BY <2>1, PowerSum
<1>4. Scaled(2) >= b * b
  <2>1. b * b \in Nat /\ 1 <= lhs
    BY <1>1, <1>2
  <2>2. 1 * (b * b) <= lhs * (b * b)
    BY <1>1, <2>1, TimesMonotonic
  <2> HIDE DEF b
  <2> QED
    BY <1>3, <2>1, <2>2 DEF Scaled
<1>5. ASSUME Quotient(2) < b PROVE FALSE
  <2> DEFINE t == Quotient(2)
             n == Scaled(2)
  <2>1. t \in Nat /\ n % rhs \in 0..(rhs - 1) /\ (t * rhs) + (n % rhs) = n
    BY <1>1, DivMod DEF Quotient
  <2>2. t < b
    BY <1>5
  <2> HIDE DEF t, n, b
  <2>3. (t + 1) * rhs <= b * rhs /\ (t + 1) * rhs = t * rhs + rhs
    BY <1>1, <1>2, <2>1, <2>2, TimesMonotonic
  <2>4. rhs * b <= b * b /\ rhs * b = b * rhs
    BY <1>1, <1>2, TimesMonotonic DEF b
  <2>5. t * rhs \in Nat /\ b * rhs \in Nat /\ b * b \in Nat
    BY <1>1, <1>2, <2>1
  <2> QED
    BY <1>1, <1>4, <2>1, <2>3, <2>4, <2>5 DEF n
<1>6. Quotient(2) >= Pow10[P-1]
  BY <1>1, <1>2, <1>5
<1> QED
  BY <1>1, <1>2, <1>6 DEF Short

\* The rounds of the loop are those that BidDiv chooses.
LEMMA RoundsAgree ==
  ASSUME TypeOK, NEW k \in 0..2, ~Short(k), \A i \in 0..(k - 1) : Short(i)
  PROVE  DivRounds(lhs, rhs) = k
<1> DEFINE Least(n) == Quotient(n) >= Pow10[P-1] /\ \A i \in 0..(n - 1) : Quotient(i) < Pow10[P-1]
<1>1. DivRounds(lhs, rhs) = CHOOSE n \in 0..2 : Least(n)
  BY Zenon DEF DivRounds, Quotient, Scaled
<1>2. \A n \in 0..2 : Quotient(n) \in Nat
  BY RoundTypes
<1>3. Pow10[P-1] \in Nat
  BY Powers
<1>4. Least(k)
  BY <1>2, <1>3 DEF Short
<1>5. ASSUME NEW n \in 0..2, Least(n) PROVE n = k
  <2>1. ~(n < k)
    <3>1. n < k => Short(n)
      OBVIOUS
    <3> QED
      BY <1>2, <1>3, <1>5, <3>1 DEF Short
  <2>2. ~(k < n)
    <3>1. k < n => Quotient(k) < Pow10[P-1]
      BY <1>5
    <3> QED
      BY <3>1 DEF Short
  <2> QED
    BY <2>1, <2>2
<1> HIDE DEF Least
<1> QED
  BY <1>1, <1>4, <1>5, Zenon

LEMMA InitMInv == IInv /\ Init => MInv
<1> SUFFICES ASSUME IInv, Init PROVE After(0) /\ pc # "done"
  BY DEF MInv
<1>1. lhs \in Nat /\ P \in Nat /\ P * 0 = 0 /\ Pow10[0] = 1
  BY DecimalAssumption DEF IInv, TypeOK
<1>2. Scaled(0) = lhs
  BY <1>1 DEF Scaled
<1> QED
  BY <1>1, <1>2 DEF Init, After

\* What is chosen when a quotient is not long enough.
LEMMA DivideMInv == IInv /\ MInv /\ Divide => MInv'
<1> SUFFICES ASSUME IInv, MInv, Divide PROVE After(0)' /\ pc' # "done"
  BY DEF MInv
<1>1. After(0) /\ UNCHANGED <<lhs, rhs, shift, rem, num>> /\ pc' \in {"loop", "digit"}
  BY DEF MInv, After, Divide
<1>2. q' = Quotient(0) /\ Quotient(0)' = Quotient(0) /\ Scaled(0)' = Scaled(0)
  BY <1>1 DEF After, Divide, Quotient, Scaled, IInv
<1>3. Quotient(0) \in Nat /\ Pow10[P-1] \in Nat
  BY RoundTypes, Powers DEF IInv
<1>4. (pc' = "loop" <=> Short(0)) /\ Short(0)' = Short(0)
  BY <1>2, <1>3 DEF Divide, Enough, Short
<1> QED
  BY <1>1, <1>2, <1>4 DEF After

LEMMA LengthenMInv == IInv /\ IInv' /\ MInv /\ Lengthen => MInv'
<1> SUFFICES ASSUME IInv, IInv', MInv, Lengthen PROVE MInv'
  OBVIOUS
<1>1. PICK k \in 0..2 : After(k)
  BY DEF MInv
<1>2. TypeOK /\ Short(k) /\ k \in 0..1
  BY <1>1, TwoRoundsSuffice DEF After, Lengthen, IInv
<1>3. lhs' = lhs /\ rhs' = rhs /\ pc' \in {"loop", "digit"} /\ pc = "loop"
  BY DEF Lengthen
<1>4. k + 1 \in 0..2 /\ P \in Nat
  BY <1>2, Powers
<1>5. Scaled(k + 1) = Scaled(k) * Pow10[P] /\ P * (k + 1) = P * k + P
  <2>1. Pow10[P * (k + 1)] = Pow10[P * k] * Pow10[P]
    BY <1>2, RoundPowers
  <2>2. Pow10[P * k] \in Nat /\ Pow10[P] \in Nat /\ lhs \in Nat
    BY <1>2, RoundPowers, Powers, RoundTypes
  <2> QED
    BY <1>4, <2>1, <2>2 DEF Scaled
<1>6. num' = Scaled(k + 1) /\ shift' = P * (k + 1)
  BY <1>1, <1>5 DEF After, Lengthen
<1>7. q' = Quotient(k + 1)
  <2>1. /\ q' \in Nat /\ r' \in Nat /\ r' < rhs /\ num' = q' * rhs + r' /\ num' \in Nat
    <3>1. TypeOK' /\ QuotientExact' /\ pc' # "div"
      BY <1>3 DEF IInv
    <3>2. q' \in Nat /\ r' \in Nat /\ num' \in Nat
      BY <3>1, BidAssumption DEF TypeOK
    <3>3. q' * rhs' + r' = num' /\ r' < rhs'
      BY <3>1 DEF QuotientExact
    <3> QED
      BY <1>3, <3>2, <3>3
  <2>2. rhs \in Nat \ {0}
    BY <1>2, RoundTypes
  <2>3. r' \in 0..(rhs - 1)
    BY <2>1, <2>2
  <2>4. \A n, d \in Nat : \A m \in 0..(rhs - 1) : n = d * rhs + m => n \div rhs = d
    BY <2>2, DivModUnique
  <2>5. num' \div rhs = q'
    BY <2>1, <2>3, <2>4
  <2> QED
    BY <1>6, <2>5 DEF Quotient
<1>8. Quotient(k + 1) \in Nat /\ Pow10[P-1] \in Nat
  BY <1>2, <1>4, RoundTypes, Powers
<1>9. pc' = "loop" <=> Short(k + 1)
  BY <1>7, <1>8 DEF Lengthen, Enough, Short
<1>10. \A i \in 0..k : Short(i)
  BY <1>1, <1>2 DEF After
<1>11. \A i : Scaled(i)' = Scaled(i) /\ Quotient(i)' = Quotient(i) /\ Short(i)' = Short(i)
  BY <1>3 DEF Scaled, Quotient, Short
<1>12. After(k + 1)'
  BY <1>3, <1>4, <1>6, <1>9, <1>10, <1>11 DEF After
<1> QED
  BY <1>3, <1>4, <1>12 DEF MInv

LEMMA DigitMInv == IInv /\ MInv /\ Digit => MInv'
<1> SUFFICES ASSUME IInv, MInv, Digit PROVE MInv'
  OBVIOUS
<1>1. PICK k \in 0..2 : After(k)
  BY DEF MInv
<1>2. UNCHANGED <<lhs, rhs, q, r, shift, num>> /\ pc = "digit" /\ pc' = "done"
  BY DEF Digit
<1>3. \A i : Scaled(i)' = Scaled(i) /\ Quotient(i)' = Quotient(i) /\ Short(i)' = Short(i)
  BY <1>2 DEF Scaled, Quotient, Short
<1>4. After(k)'
  BY <1>1, <1>2, <1>3 DEF After
<1>5. rem' = StickyDigit((10 * r') \div rhs', (10 * r') % rhs')
  BY <1>2 DEF Digit
<1> QED
  BY <1>4, <1>5 DEF MInv

LEMMA MatchesAtEnd ==
  ASSUME IInv, MInv
  PROVE  MatchesBidDiv
<1> SUFFICES ASSUME pc = "done" PROVE MatchesBidDiv
  BY DEF MatchesBidDiv
<1>1. PICK k \in 0..2 : After(k)
  BY DEF MInv
<1>2. /\ TypeOK /\ num = Scaled(k) /\ shift = P * k
      /\ DivRounds(lhs, rhs) = k
  BY <1>1, RoundsAgree DEF IInv, After
<1>3. q = num \div rhs /\ r = num % rhs
  <2>1. q \in Nat /\ r \in 0..(rhs - 1) /\ num = q * rhs + r /\ num \in Nat
    BY DEF IInv, TypeOK, QuotientExact
  <2>2. rhs \in Nat \ {0}
    BY <1>2, RoundTypes
  <2> QED
    BY <2>1, <2>2, DivModUnique
<1> DEFINE x(m) == [mant |-> m, exp |-> 0, sign |-> 1, special |-> "NUMBER"]
           rest == 10 * (num % rhs)
           d == rest \div rhs
<1>4. BidDiv(x(lhs), x(rhs)) =
        [x |-> Number(num \div rhs, 0 - 0 - P * k, 1 * 1),
         rem |-> IF d \in {0, 5} /\ rest % rhs # 0 THEN d + 1 ELSE d]
  BY <1>2 DEF BidDiv, Scaled
<1>5. rem = IF d \in {0, 5} /\ rest % rhs # 0 THEN d + 1 ELSE d
  BY <1>3 DEF MInv, StickyDigit
<1>6. 0 - 0 - P * k = -shift
  BY <1>2, Powers
<1>7. Number(q, -shift, 1) = [x(q) EXCEPT !.exp = -shift]
  BY DEF Number
<1> HIDE DEF rest, d
<1>8. BidDiv(x(lhs), x(rhs)) = [x |-> [x(q) EXCEPT !.exp = -shift], rem |-> rem]
  BY <1>3, <1>4, <1>5, <1>6, <1>7
<1> QED
  BY <1>8 DEF MatchesBidDiv

\* The loop of impl_div (div-x86_64.s:48-59) computes the operator BidDiv that
\* the models of the calls use, and makes as few rounds as give P digits: they
\* rest on the instructions, at every width.
THEOREM DivMatches == Spec => []MatchesBidDiv
<1>1. Init => IInv /\ MInv
  BY InitInv, InitMInv
<1>2. (IInv /\ MInv) /\ [Next]_vars => (IInv /\ MInv)'
  <2> SUFFICES ASSUME IInv, MInv, [Next]_vars PROVE IInv' /\ MInv'
    OBVIOUS
  <2>1. CASE Divide
    BY <2>1, DivideInv, DivideMInv
  <2>2. CASE Lengthen
    BY <2>2, LengthenInv, LengthenMInv
  <2>3. CASE Digit
    BY <2>3, DigitInv, DigitMInv
  <2>4. CASE UNCHANGED vars
    BY <2>4 DEF vars, IInv, TypeOK, QuotientExact, RemainderExact, MInv, After, Short, Quotient, Scaled
  <2> QED
    BY <2>1, <2>2, <2>3, <2>4 DEF Next
<1> QED
  BY <1>1, <1>2, MatchesAtEnd, PTL DEF Spec
=============================================================================
