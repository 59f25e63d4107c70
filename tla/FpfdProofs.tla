----------------------------- MODULE FpfdProofs -----------------------------
(***************************************************************************)
(* What holds of the C core whatever encoding library it is linked with.    *)
(* Of the flags it is proved without any assumption on ImplAddSub, ImplMul, *)
(* ImplDiv and ImplScale.  Types, the operands of the library and what is   *)
(* encoded need LibraryDelivers: an operation on nonzero numbers of the     *)
(* format, followed by scale, leaves a number that fits the format.         *)
(***************************************************************************)
EXTENDS Fpfd, RoundingProofs

\* What a step may do to the flags.
FlagsGrow == flags \subseteq flags' /\ (pc # "idle" /\ ~call.fp => flags' = flags)

\* Every write of the flags goes through Raise, which accumulates.
LEMMA RaiseGrows ==
  ASSUME NEW f, Raise(f)
  PROVE  FlagsGrow
BY DEF Raise, FlagsGrow

\* The other steps leave the flags alone.
LEMMA UnchangedGrows ==
  ASSUME flags' = flags
  PROVE  FlagsGrow
BY DEF FlagsGrow

\* No step lowers a flag, and a call without a flags pointer leaves all of them
\* as they are (round.c:98, nan.c:28 and the "if (flags)" of the action tables).
THEOREM FpfdFlagsSticky == Spec => FlagsSticky
<1>1. Next => FlagsGrow
  <2> SUFFICES ASSUME Next PROVE FlagsGrow
    OBVIOUS
  <2>1. CASE Invoke
    BY <2>1, UnchangedGrows DEF Invoke
  <2>2. CASE ExpandOperands
    BY <2>2, UnchangedGrows DEF ExpandOperands
  <2>3. CASE FmaOperate
    BY <2>3, UnchangedGrows DEF FmaOperate
  <2>4. CASE FmaFallback
    BY <2>4, UnchangedGrows DEF FmaFallback
  <2>5. CASE Dispatch
    <3>1. PICK f : Raise(f)
      BY <2>5 DEF Dispatch
    <3> QED
      BY <3>1, RaiseGrows
  <2>6. CASE Operate
    BY <2>6, UnchangedGrows DEF Operate
  <2>7. CASE Scale
    BY <2>7, UnchangedGrows DEF Scale
  <2>8. CASE RoundResult
    <3>1. PICK f : Raise(f)
      BY <2>8 DEF RoundResult
    <3> QED
      BY <3>1, RaiseGrows
  <2>9. CASE CompressResult
    BY <2>9, UnchangedGrows DEF CompressResult
  <2>10. CASE Neg \/ Set \/ SetConstant \/ SetUi
    BY <2>10, UnchangedGrows DEF Neg, Set, SetConstant, SetUi, Write
  <2>11. CASE Query
    BY <2>11, UnchangedGrows DEF Query
  <2> QED
    BY <2>1, <2>2, <2>3, <2>4, <2>5, <2>6, <2>7, <2>8, <2>9, <2>10, <2>11 DEF Next, Step
<1>2. UNCHANGED vars => FlagsGrow
  BY UnchangedGrows DEF vars
<1>3. [Next]_vars => [FlagsGrow]_vars
  BY <1>1
<1> QED
  BY <1>3, PTL DEF Spec, FlagsSticky, FlagsGrow

-----------------------------------------------------------------------------
(* The inductive invariant                                                 *)

\* A number, if it is one, that the format can hold; a mantissa of zero is a
\* number that underflowed in scale.
InRange(x) ==
  x \in Impl /\ (x.special = "NUMBER" => x.mant \in 0..MaxMant /\ x.exp \in EMin..EMax)

\* What fpfd32_impl_expand makes of a datum.
Expanded(x) == InRange(x) /\ (x.special = "NUMBER" => x.mant # 0)

Binary == {"ADD", "SUB", "MUL", "DIV"}
Places == Slots \cup {Temp}

Act == [op : Binary \cup {"FMA"}, dest : Places, a : Places, b : Places, c : Places,
        rnd : Rnd, fp : BOOLEAN]

\* What each point of a call relies on.
AtPoint ==
  /\ pc # "idle"     => act \in Act /\ call \in Calls
  /\ pc = "fma"      => act.op = "FMA" /\ Expanded(op1) /\ Expanded(op2) /\ Expanded(op3)
  /\ pc = "dispatch" => act.op \in Binary /\ Expanded(op1) /\ Expanded(op2)
  /\ pc = "operate"  => act.op \in Binary /\ op1 \in Operand /\ op2 \in Operand
  /\ pc = "scale"    => Scalable(rop)
  /\ pc = "round"    => Fitted(rop)
  /\ pc = "compress" => InRange(Chosen)

Inv == TypeOK /\ (\A p \in Places : Storable(mem[p])) /\ AtPoint

-----------------------------------------------------------------------------
(* Lemmas on the operators                                                 *)

LEMMA Format ==
  /\ MaxMant \in Int /\ Pow10[P] \in Nat /\ Pow10[P-1] \in Nat /\ Pow10[P] = 10 * Pow10[P-1]
  /\ EMin \in Int /\ EMax \in Int /\ 0 \in EMin..EMax
<1>1. P \in 1..MaxShift /\ P-1 \in 0..MaxShift
  BY DecimalAssumption
<1> QED
  BY <1>1, DecimalAssumption, FpfdAssumption DEF MaxMant

\* An operand is what an expanded number may be.
LEMMA OperandIs ==
  \A x : x \in Operand <=> (x \in Impl /\ Expanded(x) /\ x.special = "NUMBER")
<1>1. 1..MaxMant \subseteq Nat /\ MaxMant \in Int
  BY Format
<1> TAKE x
<1>2. ASSUME x \in Operand PROVE x \in Impl /\ Expanded(x) /\ x.special = "NUMBER"
  BY <1>1, <1>2, Format DEF Operand, Impl, Special, Expanded, InRange
<1>3. ASSUME x \in Impl, Expanded(x), x.special = "NUMBER" PROVE x \in Operand
  <2>1. x.mant \in 1..MaxMant /\ x.exp \in EMin..EMax /\ x.sign \in Sign /\ x.mant \in Nat
    BY <1>1, <1>3 DEF Expanded, InRange, Impl
  <2>2. x = [mant |-> x.mant, exp |-> x.exp, sign |-> x.sign, special |-> "NUMBER"]
    BY <1>3 DEF Impl
  <2> QED
    BY <2>1, <2>2 DEF Operand
<1> QED
  BY <1>2, <1>3

LEMMA ExpandType ==
  ASSUME NEW d \in Datum, Storable(d)
  PROVE  Expanded(Expand(d))
<1>1. d.kind \in {"FIN", "INF", "QNAN", "SNAN"} /\ d.mant \in Nat /\ d.exp \in Int /\ d.sign \in Sign
  BY DEF Datum
<1>2. CASE d.kind = "FIN" /\ d.mant \in 1..MaxMant
  <2>1. Expand(d) = [mant |-> d.mant, exp |-> d.exp, sign |-> d.sign, special |-> "NUMBER"]
    BY <1>2 DEF Expand
  <2> QED
    BY <1>1, <1>2, <2>1, Format DEF Expanded, InRange, Impl, Special, Storable
<1>3. CASE d.kind = "FIN" /\ d.mant \notin 1..MaxMant
  <2>1. Expand(d) = [mant |-> 0, exp |-> 0, sign |-> d.sign, special |-> "ZERO"]
    BY <1>3 DEF Expand
  <2> QED
    BY <1>1, <2>1 DEF Expanded, InRange, Impl, Special
<1>4. CASE d.kind = "INF"
  <2>1. Expand(d) = [mant |-> 0, exp |-> 0, sign |-> d.sign, special |-> "INF"]
    BY <1>4 DEF Expand
  <2> QED
    BY <1>1, <2>1 DEF Expanded, InRange, Impl, Special
<1>5. CASE d.kind \in {"QNAN", "SNAN"}
  <2>1. Expand(d) = [mant |-> IF d.mant < Pow10[P-1] THEN d.mant ELSE 0,
                     exp |-> 0, sign |-> d.sign, special |-> d.kind]
    BY <1>5 DEF Expand
  <2> QED
    BY <1>1, <1>5, <2>1 DEF Expanded, InRange, Impl, Special
<1> QED
  BY <1>1, <1>2, <1>3, <1>4, <1>5

LEMMA ModNat ==
  ASSUME NEW m \in Nat, NEW k \in Nat \ {0}
  PROVE  m % k \in Nat
OBVIOUS

LEMMA CompressType ==
  ASSUME NEW x \in Impl, InRange(x)
  PROVE  Compress(x) \in Datum /\ Storable(Compress(x))
<1>1. x.mant \in Nat /\ x.exp \in Int /\ x.sign \in Sign /\ x.special \in Special
  BY DEF Impl
<1>2. CASE x.special = "ZERO"
  <2>1. Compress(x) = [kind |-> "FIN", mant |-> 0, exp |-> 0, sign |-> x.sign]
    BY <1>2 DEF Compress
  <2> QED
    BY <1>1, <2>1, Format DEF Datum, Storable
<1>3. CASE x.special = "NUMBER"
  <2>1. Compress(x) = [kind |-> "FIN", mant |-> x.mant, exp |-> x.exp, sign |-> x.sign]
    BY <1>3 DEF Compress
  <2> QED
    BY <1>1, <1>3, <2>1 DEF Datum, Storable, InRange
<1>4. CASE x.special = "INF"
  <2>1. Compress(x) = [kind |-> "INF", mant |-> 0, exp |-> 0, sign |-> x.sign]
    BY <1>4 DEF Compress
  <2> QED
    BY <1>1, <2>1 DEF Datum, Storable
<1>5. CASE x.special \in {"QNAN", "SNAN"}
  <2>1. Compress(x) = [kind |-> IF SignallingBit(x.mant) THEN "SNAN" ELSE x.special,
                       mant |-> x.mant % PayloadMod, exp |-> 0, sign |-> x.sign]
    BY <1>5 DEF Compress
  <2>2. x.mant % PayloadMod \in Nat
    BY <1>1, EncodingAssumption, ModNat
  <2> QED
    BY <1>1, <1>5, <2>1, <2>2 DEF Datum, Storable
<1> QED
  BY <1>1, <1>2, <1>3, <1>4, <1>5 DEF Special

LEMMA IncType ==
  ASSUME NEW x \in Impl, InRange(x), x.special = "NUMBER"
  PROVE  InRange(Inc(x))
<1>1. x.mant \in 0..MaxMant /\ x.exp \in EMin..EMax
  BY DEF InRange
<1>2. CASE x.mant + 1 # Pow10[P]
  <2>1. Inc(x) = [x EXCEPT !.mant = x.mant + 1]
    BY <1>2 DEF Inc
  <2>2. x.mant + 1 \in 0..MaxMant
    BY <1>1, <1>2, Format DEF MaxMant
  <2> QED
    BY <1>1, <2>1, <2>2 DEF InRange, Impl
<1>3. CASE x.mant + 1 = Pow10[P] /\ x.exp >= EMax
  <2>1. Inc(x) = [x EXCEPT !.special = "INF"]
    BY <1>3 DEF Inc
  <2> QED
    BY <2>1 DEF InRange, Impl, Special
<1>4. CASE x.mant + 1 = Pow10[P] /\ ~(x.exp >= EMax)
  <2>1. Inc(x) = [x EXCEPT !.exp = x.exp + 1, !.mant = Pow10[P-1]]
    BY <1>4 DEF Inc
  <2>2. Pow10[P-1] \in 0..MaxMant /\ x.exp + 1 \in EMin..EMax
    BY <1>1, <1>4, Format DEF MaxMant
  <2>3. Inc(x) = [mant |-> Pow10[P-1], exp |-> x.exp + 1, sign |-> x.sign, special |-> "NUMBER"]
    BY <2>1 DEF Impl
  <2> QED
    BY <1>1, <2>2, <2>3, Format DEF InRange, Impl, Special
<1> QED
  BY <1>2, <1>3, <1>4

LEMMA RoundType ==
  ASSUME NEW x \in Impl, InRange(x), NEW rem, NEW rnd
  PROVE  LET r == Round(x, rem, rnd)
         IN  InRange(r.x) /\ r.tern \in {-1, 0, 1} /\ r.flags \subseteq Flag
<1> DEFINE z == SignOfZero(x, rnd)
           a == RoundAction(x, rem, rnd)
           inc == a = "RMSIGN" \/ (a = "RMSIGNO" /\ Odd(z))
<1>1. z \in Impl /\ InRange(z) /\ z.special = x.special
  BY DEF SignOfZero, InRange, Impl, Sign
<1>2. z.sign \in {-1, 1}
  BY <1>1 DEF Impl, Sign
<1>3. inc => x.special = "NUMBER"
  BY DEF RoundAction
<1>4. RoundFlags(x, rem) \subseteq Flag
  BY DEF RoundFlags, Flag
<1>5. inc => InRange(Inc(z))
  BY <1>1, <1>3, IncType
<1>6. Round(x, rem, rnd) = [x |-> IF inc THEN Inc(z) ELSE z,
                            tern |-> IF a = "RZERO" THEN 0 ELSE IF inc THEN -z.sign ELSE z.sign,
                            flags |-> RoundFlags(x, rem)]
  BY DEF Round
<1> HIDE DEF z, a, inc
<1> QED
  BY <1>1, <1>2, <1>4, <1>5, <1>6

\* An outcome of the dispatch on two operands that are not NaNs: only numbers
\* are operated on, and what is stored is a zero, an infinity or a NaN.
GoodOutcome(d, a, b) ==
  /\ d.src \in {"RET", "LHS", "RHS", "OPERATE"} /\ d.raise \subseteq Flag /\ d.rop \in Impl
  /\ d.src = "OPERATE" => a.special = "NUMBER" /\ b.special = "NUMBER"
  /\ d.src = "RET" => d.rop.special # "NUMBER"

LEMMA Outcomes ==
  ASSUME NEW g \in Impl, NEW s \in Sign, NEW a, NEW b
  PROVE  /\ \A from \in {"LHS", "RHS"} : GoodOutcome(Take(g, from), a, b)
         /\ a.special = "NUMBER" /\ b.special = "NUMBER" => GoodOutcome(Take(g, "OPERATE"), a, b)
         /\ GoodOutcome(Store(g, "ZERO", s), a, b) /\ GoodOutcome(Store(g, "INF", s), a, b)
         /\ GoodOutcome([Store(g, "INF", s) EXCEPT !.raise = {"DIVBYZERO"}], a, b)
         /\ GoodOutcome(InvalidOp(g), a, b)
<1>1. \A sp \in {"ZERO", "INF"} : [g EXCEPT !.special = sp, !.sign = s] \in Impl
  BY DEF Impl, Special
<1>2. [g EXCEPT !.special = "QNAN"] \in Impl
  BY DEF Impl, Special
<1>3. \A sp \in {"ZERO", "INF"} : [g EXCEPT !.special = sp, !.sign = s].special # "NUMBER"
  BY DEF Impl
<1>4. [g EXCEPT !.special = "QNAN"].special # "NUMBER"
  BY DEF Impl
<1> QED
  BY <1>1, <1>2, <1>3, <1>4 DEF GoodOutcome, Take, Store, InvalidOp, Outcome, Flag

LEMMA SpecialActionOutcome ==
  ASSUME NEW f \in Act, f.op \in Binary, NEW a \in Impl, NEW b \in Impl, NEW g \in Impl,
         ~NaN(a), ~NaN(b)
  PROVE  GoodOutcome(SpecialAction(f, a, b, g), a, b)
<1>1. a.special \in {"ZERO", "NUMBER", "INF"} /\ b.special \in {"ZERO", "NUMBER", "INF"}
  BY DEF NaN, Impl, Special
<1>2. SignOfProduct(a, b) \in Sign /\ a.sign \in Sign /\ 1 \in Sign /\ -1 \in Sign
  BY DEF SignOfProduct, Sign, Impl
<1>3. CASE f.op \in {"ADD", "SUB"}
  <2>1. SpecialAction(f, a, b, g) = AddAction(Sgn(f.op), a, b, f.rnd, g)
    BY <1>3 DEF SpecialAction
  <2> DEFINE s == IF a.sign = Sgn(f.op) * b.sign THEN a.sign ELSE IF f.rnd = "RNDD" THEN -1 ELSE 1
             d == AddAction(Sgn(f.op), a, b, f.rnd, g)
  <2>2. s \in Sign
    BY <1>2
  <2>3. \/ d = Store(g, "ZERO", s) \/ d = Take(g, "LHS") \/ d = Take(g, "RHS") \/ d = InvalidOp(g)
        \/ d = Take(g, "OPERATE") /\ a.special = "NUMBER" /\ b.special = "NUMBER"
    BY <1>1 DEF AddAction
  <2> HIDE DEF s, d
  <2>4. GoodOutcome(d, a, b)
    BY <2>2, <2>3, Outcomes
  <2> QED
    BY <2>1, <2>4 DEF d
<1>4. CASE f.op = "MUL"
  <2>1. SpecialAction(f, a, b, g) = MulAction(a, b, g)
    BY <1>4 DEF SpecialAction
  <2> DEFINE s == SignOfProduct(a, b)
             d == MulAction(a, b, g)
  <2>2. \/ d = Store(g, "ZERO", s) \/ d = Store(g, "INF", s) \/ d = InvalidOp(g)
        \/ d = Take(g, "OPERATE") /\ a.special = "NUMBER" /\ b.special = "NUMBER"
    BY <1>1 DEF MulAction
  <2> HIDE DEF s, d
  <2>3. s \in Sign
    BY <1>2 DEF s
  <2>4. GoodOutcome(d, a, b)
    BY <2>2, <2>3, Outcomes
  <2> QED
    BY <2>1, <2>4 DEF d
<1>5. CASE f.op = "DIV"
  <2>1. SpecialAction(f, a, b, g) = DivAction(a, b, g)
    BY <1>5 DEF SpecialAction
  <2> DEFINE s == SignOfProduct(a, b)
             d == DivAction(a, b, g)
  <2>2. \/ d = Store(g, "ZERO", s) \/ d = Store(g, "INF", s) \/ d = InvalidOp(g)
        \/ d = [Store(g, "INF", s) EXCEPT !.raise = {"DIVBYZERO"}]
        \/ d = Take(g, "OPERATE") /\ a.special = "NUMBER" /\ b.special = "NUMBER"
    BY <1>1 DEF DivAction
  <2> HIDE DEF s, d
  <2>3. s \in Sign
    BY <1>2 DEF s
  <2>4. GoodOutcome(d, a, b)
    <3>1. /\ GoodOutcome(Store(g, "ZERO", s), a, b) /\ GoodOutcome(Store(g, "INF", s), a, b)
          /\ GoodOutcome([Store(g, "INF", s) EXCEPT !.raise = {"DIVBYZERO"}], a, b)
          /\ GoodOutcome(InvalidOp(g), a, b)
          /\ a.special = "NUMBER" /\ b.special = "NUMBER" => GoodOutcome(Take(g, "OPERATE"), a, b)
      BY <2>3, Outcomes
    <3> QED
      BY <2>2, <3>1, Zenon
  <2> QED
    BY <2>1, <2>4 DEF d
<1> QED
  BY <1>3, <1>4, <1>5 DEF Binary

-----------------------------------------------------------------------------
(* The invariant holds at first and no action disturbs it                  *)

LEMMA NoNumberType == NoNumber \in Impl /\ Expanded(NoNumber)
BY DEF NoNumber, Impl, Sign, Special, Expanded, InRange

LEMMA InitInv == Init => Inv
<1> SUFFICES ASSUME Init PROVE Inv
  OBVIOUS
<1>1. PosZero \in Datum /\ Storable(PosZero)
  BY Format DEF PosZero, Datum, Sign, Storable
<1>2. PICK m \in InitMem : mem = [s \in Slots \cup {Temp} |-> IF s = Temp THEN PosZero ELSE m[s]]
  BY DEF Init
<1>3. \A s \in Slots : m[s] \in Datum /\ Storable(m[s])
  BY FpfdAssumption
<1>4. mem \in [Slots \cup {Temp} -> Datum] /\ \A s \in Places : Storable(mem[s])
  BY <1>1, <1>2, <1>3 DEF Places
<1>5. TypeOK
  BY <1>4, NoNumberType, FpfdAssumption DEF Init, TypeOK, Flag
<1>6. AtPoint
  BY DEF Init, AtPoint
<1> QED
  BY <1>4, <1>5, <1>6 DEF Inv

LEMMA InvokeInv == Inv /\ Invoke => Inv'
<1> SUFFICES ASSUME Inv, Invoke PROVE Inv'
  OBVIOUS
<1>1. call' \in Calls /\ act' = call' /\ pc' = "expand" /\ calls' \in 0..MaxCalls
  BY FpfdAssumption DEF Inv, TypeOK, Invoke
<1>2. act' \in Act
  BY <1>1, FpfdAssumption DEF Act, Binary, Places
<1>3. TypeOK'
  BY <1>1 DEF Inv, TypeOK, Invoke, locals
<1>4. AtPoint'
  BY <1>1, <1>2 DEF AtPoint
<1> QED
  BY <1>3, <1>4 DEF Inv, Invoke

LEMMA ExpandInv == Inv /\ ExpandOperands => Inv'
<1> SUFFICES ASSUME Inv, ExpandOperands PROVE Inv'
  OBVIOUS
<1>1. act \in Act /\ call \in Calls
  BY DEF Inv, AtPoint, ExpandOperands
<1>2. act.a \in Places /\ act.b \in Places /\ act.c \in Places /\ act.op \in Binary \cup {"FMA"}
  BY <1>1 DEF Act
<1>3. \A p \in Places : Expanded(Expand(mem[p]))
  BY ExpandType DEF Inv, TypeOK, Places
<1>4. Expanded(op1') /\ Expanded(op2') /\ Expanded(op3')
  BY <1>2, <1>3, NoNumberType DEF ExpandOperands
<1>5. {op1', op2', op3'} \subseteq Impl
  BY <1>4 DEF Expanded, InRange
<1>6. TypeOK'
  BY <1>5 DEF Inv, TypeOK, ExpandOperands, history, caller
<1>7. AtPoint'
  BY <1>1, <1>2, <1>4 DEF AtPoint, ExpandOperands, caller
<1> QED
  BY <1>6, <1>7 DEF Inv, ExpandOperands

LEMMA FmaOperateInv == LibraryDelivers(Operand) /\ Inv /\ FmaOperate => Inv'
<1> SUFFICES ASSUME LibraryDelivers(Operand), Inv, FmaOperate PROVE Inv'
  OBVIOUS
<1>1. op1.special = "NUMBER" /\ op2.special = "NUMBER" /\ op3.special = "NUMBER"
  BY DEF FmaOperate, AllNumbers
<1>2. op1 \in Operand /\ op2 \in Operand /\ op3 \in Operand
  BY <1>1, OperandIs DEF Inv, AtPoint, FmaOperate, Expanded, InRange
<1>3. Delivers(ImplAddSub(1, ImplMul(op1, op2), op3))
  BY <1>2 DEF LibraryDelivers
<1>4. rop' \in Impl /\ rem1' \in Nat /\ Scalable(rop')
  BY <1>3 DEF Delivers, FmaOperate
<1>5. TypeOK'
  BY <1>4 DEF Inv, TypeOK, FmaOperate, caller
<1>6. AtPoint'
  BY <1>4 DEF Inv, AtPoint, FmaOperate, caller
<1> QED
  BY <1>5, <1>6 DEF Inv, FmaOperate

LEMMA FmaFallbackInv == Inv /\ FmaFallback => Inv'
<1> SUFFICES ASSUME Inv, FmaFallback PROVE Inv'
  OBVIOUS
<1>1. act \in Act /\ call \in Calls /\ Temp \in Places /\ "RNDZ" \in Rnd
  BY DEF Inv, AtPoint, FmaFallback, Places, Rnd
<1>2. act' \in Act
  BY <1>1 DEF FmaFallback, Act, Binary
<1>3. TypeOK'
  BY NoNumberType DEF Inv, TypeOK, FmaFallback, LocalsDead, caller
<1>4. AtPoint'
  BY <1>1, <1>2 DEF AtPoint, FmaFallback, caller
<1> QED
  BY <1>3, <1>4 DEF Inv, FmaFallback

LEMMA QuietedType ==
  ASSUME NEW x \in Impl, Expanded(x), NEW chosen \in BOOLEAN
  PROVE  /\ Quieted(x, chosen) \in Impl /\ InRange(Quieted(x, chosen))
         /\ ~chosen => Quieted(x, chosen) = x
<1>1. CASE chosen
  <2>1. [x EXCEPT !.special = "QNAN"] \in Impl /\ [x EXCEPT !.special = "QNAN"].special = "QNAN"
    BY DEF Impl, Special
  <2> QED
    BY <1>1, <2>1 DEF Quieted, InRange
<1>2. CASE ~chosen
  BY <1>2 DEF Quieted, Expanded
<1> QED
  BY <1>1, <1>2

LEMMA DispatchInv == Inv /\ Dispatch => Inv'
<1> SUFFICES ASSUME Inv, Dispatch PROVE Inv'
  OBVIOUS
<1> DEFINE n == NanProp(op1, op2)
<1>1. PICK g \in Garbage :
        LET d == IF n.src = "OPERATE" THEN SpecialAction(act, op1, op2, g) ELSE Take(g, n.src)
        IN  /\ op1' = Quieted(op1, n.src = "LHS") /\ op2' = Quieted(op2, n.src = "RHS")
            /\ rop' = d.rop /\ src' = d.src /\ Raise(n.raise \cup d.raise)
            /\ pc' = IF d.src = "OPERATE" THEN "operate" ELSE "compress"
  BY DEF Dispatch
<1> DEFINE d == IF n.src = "OPERATE" THEN SpecialAction(act, op1, op2, g) ELSE Take(g, n.src)
<1>2. /\ act \in Act /\ act.op \in Binary /\ call \in Calls
      /\ op1 \in Impl /\ op2 \in Impl /\ Expanded(op1) /\ Expanded(op2)
  BY DEF Dispatch, Inv, TypeOK, AtPoint
<1>3. g \in Impl
  BY FpfdAssumption
<1>4. n.src \in {"LHS", "RHS", "OPERATE"} /\ n.raise \subseteq Flag
  BY DEF NanProp, Flag
<1>5. n.src = "OPERATE" => ~NaN(op1) /\ ~NaN(op2)
  BY DEF NanProp
<1>6. GoodOutcome(d, op1, op2) /\ (n.src # "OPERATE" => d.src # "OPERATE")
  <2>1. CASE n.src = "OPERATE"
    BY <1>2, <1>3, <1>5, <2>1, SpecialActionOutcome
  <2>2. CASE n.src \in {"LHS", "RHS"}
    <3>1. GoodOutcome(Take(g, n.src), op1, op2)
      BY <1>3, <2>2 DEF GoodOutcome, Take, Outcome
    <3> QED
      BY <2>2, <3>1 DEF Take, Outcome
  <2> QED
    BY <1>4, <2>1, <2>2
<1>7. /\ op1' \in Impl /\ InRange(op1') /\ (n.src = "OPERATE" => op1' = op1)
      /\ op2' \in Impl /\ InRange(op2') /\ (n.src = "OPERATE" => op2' = op2)
  <2>1. /\ Quieted(op1, n.src = "LHS") \in Impl /\ InRange(Quieted(op1, n.src = "LHS"))
        /\ n.src # "LHS" => Quieted(op1, n.src = "LHS") = op1
    BY <1>2, QuietedType
  <2>2. /\ Quieted(op2, n.src = "RHS") \in Impl /\ InRange(Quieted(op2, n.src = "RHS"))
        /\ n.src # "RHS" => Quieted(op2, n.src = "RHS") = op2
    BY <1>2, QuietedType
  <2> QED
    BY <1>1, <2>1, <2>2
<1>8. /\ rop' = d.rop /\ src' = d.src /\ Raise(n.raise \cup d.raise)
      /\ pc' = IF d.src = "OPERATE" THEN "operate" ELSE "compress"
  BY <1>1
<1> HIDE DEF n, d
<1>9. rop' \in Impl /\ src' \in {"RET", "LHS", "RHS", "OPERATE"}
  BY <1>6, <1>8 DEF GoodOutcome
<1>10. flags' \subseteq Flag
  BY <1>4, <1>6, <1>8 DEF GoodOutcome, Raise, Inv, TypeOK
<1>11. TypeOK'
  BY <1>7, <1>8, <1>9, <1>10 DEF Inv, TypeOK, Dispatch, caller
<1>12. pc' = "operate" => op1' \in Operand /\ op2' \in Operand
  <2> SUFFICES ASSUME pc' = "operate" PROVE op1' \in Operand /\ op2' \in Operand
    OBVIOUS
  <2>1. d.src = "OPERATE" /\ n.src = "OPERATE"
    BY <1>6, <1>8
  <2>2. op1.special = "NUMBER" /\ op2.special = "NUMBER" /\ op1' = op1 /\ op2' = op2
    BY <1>6, <1>7, <2>1 DEF GoodOutcome
  <2> QED
    BY <1>2, <2>2, OperandIs DEF Expanded, InRange
<1>13. pc' = "compress" => InRange(Chosen')
  <2> SUFFICES ASSUME pc' = "compress" PROVE InRange(Chosen')
    OBVIOUS
  <2>1. d.src \in {"RET", "LHS", "RHS"}
    BY <1>6, <1>8 DEF GoodOutcome
  <2>2. d.src = "RET" => InRange(rop')
    BY <1>6, <1>8, <1>9 DEF GoodOutcome, InRange
  <2> QED
    BY <1>7, <1>8, <2>1, <2>2 DEF Chosen
<1>14. AtPoint'
  BY <1>2, <1>8, <1>12, <1>13 DEF AtPoint, Dispatch, caller
<1> QED
  BY <1>11, <1>14 DEF Inv, Dispatch

LEMMA OperateInv == LibraryDelivers(Operand) /\ Inv /\ Operate => Inv'
<1> SUFFICES ASSUME LibraryDelivers(Operand), Inv, Operate PROVE Inv'
  OBVIOUS
<1>1. op1 \in Operand /\ op2 \in Operand
  BY DEF Inv, AtPoint, Operate
<1>2. rop' \in Impl /\ rem1' \in Nat /\ Scalable(rop')
  <2>1. CASE act.op \in {"ADD", "SUB"} /\ rop' = ImplAddSub(Sgn(act.op), op1, op2).x
                                       /\ rem1' = ImplAddSub(Sgn(act.op), op1, op2).rem
    <3>1. Sgn(act.op) \in Sign
      BY DEF Sgn, Sign
    <3>2. Delivers(ImplAddSub(Sgn(act.op), op1, op2))
      BY <1>1, <3>1 DEF LibraryDelivers
    <3> QED
      BY <2>1, <3>2 DEF Delivers
  <2>2. CASE act.op = "MUL" /\ rop' = ImplMul(op1, op2) /\ rem1' = 0
    BY <1>1, <2>2 DEF LibraryDelivers
  <2>3. CASE act.op = "DIV" /\ rop' = ImplDiv(op1, op2).x /\ rem1' = ImplDiv(op1, op2).rem
    <3>1. Delivers(ImplDiv(op1, op2))
      BY <1>1 DEF LibraryDelivers
    <3> QED
      BY <2>3, <3>1 DEF Delivers
  <2> QED
    BY <2>1, <2>2, <2>3 DEF Operate
<1>3. TypeOK'
  BY <1>2 DEF Inv, TypeOK, Operate, caller
<1>4. AtPoint'
  BY <1>2 DEF Inv, AtPoint, Operate, caller
<1> QED
  BY <1>3, <1>4 DEF Inv, Operate

LEMMA ScaleInv == Inv /\ Scale => Inv'
<1> SUFFICES ASSUME Inv, Scale PROVE Inv'
  OBVIOUS
<1>1. Scalable(rop) /\ rop' = ImplScale(rop).x /\ rem2' = ImplScale(rop).rem
  BY DEF Inv, AtPoint, Scale
<1>2. rem2' \in Nat /\ Fitted(rop') /\ rop' \in Impl
  BY <1>1 DEF Scalable
<1>3. TypeOK'
  BY <1>2 DEF Inv, TypeOK, Scale, caller
<1>4. AtPoint'
  BY <1>2 DEF Inv, AtPoint, Scale, caller
<1> QED
  BY <1>3, <1>4 DEF Inv, Scale

LEMMA RoundResultInv == Inv /\ RoundResult => Inv'
<1> SUFFICES ASSUME Inv, RoundResult PROVE Inv'
  OBVIOUS
<1> DEFINE rem == FinalRem(rem1, rem2)
           r == Round(rop, rem, act.rnd)
<1>1. rop \in Impl /\ InRange(rop)
  BY DEF Inv, TypeOK, AtPoint, RoundResult, Fitted, Canonical, InRange
<1>2. InRange(r.x) /\ r.tern \in {-1, 0, 1} /\ r.flags \subseteq Flag
  BY <1>1, RoundType
<1>3. rop' = r.x /\ tern' = r.tern /\ Raise(r.flags) /\ src' = "RET" /\ pc' = "compress"
  BY DEF RoundResult
<1> HIDE DEF r
<1>4. InRange(rop') /\ rop' \in Impl /\ flags' \subseteq Flag
  BY <1>2, <1>3 DEF InRange, Raise, Inv, TypeOK
<1>5. TypeOK'
  BY <1>2, <1>3, <1>4 DEF Inv, TypeOK, RoundResult, caller
<1>6. AtPoint'
  BY <1>3, <1>4 DEF Inv, AtPoint, RoundResult, caller, Chosen
<1> QED
  BY <1>5, <1>6 DEF Inv, RoundResult

\* A well-formed datum may be stored in any variable.
LEMMA StoreInv ==
  ASSUME Inv, NEW p \in Places, NEW d \in Datum, Storable(d), mem' = [mem EXCEPT ![p] = d]
  PROVE  mem' \in [Slots \cup {Temp} -> Datum] /\ \A x \in Places : Storable(mem'[x])
<1>1. mem \in [Places -> Datum] /\ \A x \in Places : Storable(mem[x])
  BY DEF Inv, TypeOK, Places
<1>2. mem' \in [Places -> Datum]
  BY <1>1
<1>3. \A x \in Places : mem'[x] = IF x = p THEN d ELSE mem[x]
  BY <1>1
<1> QED
  BY <1>1, <1>2, <1>3 DEF Places

LEMMA CompressResultInv == Inv /\ CompressResult => Inv'
<1> SUFFICES ASSUME Inv, CompressResult PROVE Inv'
  OBVIOUS
<1>1. act \in Act /\ call \in Calls /\ InRange(Chosen)
  BY DEF Inv, AtPoint, CompressResult
<1>2. Chosen \in Impl /\ act.dest \in Places
  BY <1>1 DEF InRange, Act
<1>3. Compress(Chosen) \in Datum /\ Storable(Compress(Chosen))
  BY <1>1, <1>2, CompressType
<1>4. mem' = [mem EXCEPT ![act.dest] = Compress(Chosen)]
  BY DEF CompressResult
<1>5. mem' \in [Slots \cup {Temp} -> Datum] /\ \A x \in Places : Storable(mem'[x])
  BY <1>2, <1>3, <1>4, StoreInv
<1>6. /\ {op1', op2', op3', rop'} \subseteq Impl /\ tern' \in {-1, 0, 1}
      /\ rem1' \in Nat /\ rem2' \in Nat /\ src' \in {"RET", "LHS", "RHS", "OPERATE"}
      /\ flags' \subseteq Flag /\ calls' \in 0..MaxCalls
  BY NoNumberType DEF CompressResult, LocalsDead, Inv, TypeOK
<1>7. CASE act.op = "MUL" /\ call.op = "FMA"
  <2>1. /\ act' = [call EXCEPT !.op = "ADD", !.a = Temp, !.b = call.c] /\ pc' = "expand"
        /\ UNCHANGED <<ret, call, flags0>>
    BY <1>7 DEF CompressResult
  <2>2. call \in [op : {"ADD", "SUB", "MUL", "DIV", "FMA"}, dest : Slots,
                  a : Slots, b : Slots, c : Slots, rnd : Rnd, fp : BOOLEAN]
    BY <1>1, FpfdAssumption
  <2>3. act' = [op |-> "ADD", dest |-> call.dest, a |-> Temp, b |-> call.c, c |-> call.c,
                rnd |-> call.rnd, fp |-> call.fp]
    BY <2>1, <2>2
  <2>4. act' \in Act
    BY <2>2, <2>3 DEF Act, Binary, Places
  <2>5. TypeOK' /\ AtPoint'
    BY <1>1, <1>5, <1>6, <2>1, <2>4 DEF Inv, TypeOK, AtPoint
  <2> QED
    BY <1>5, <2>5 DEF Inv
<1>8. CASE ~(act.op = "MUL" /\ call.op = "FMA")
  <2>1. ret' = tern /\ pc' = "idle" /\ call' = NoCall /\ flags0' = {}
    BY <1>8 DEF CompressResult
  <2>2. TypeOK' /\ AtPoint'
    BY <1>5, <1>6, <2>1 DEF Inv, TypeOK, AtPoint
  <2> QED
    BY <1>5, <2>2 DEF Inv
<1> QED
  BY <1>7, <1>8

LEMMA WriteInv ==
  ASSUME Inv, NEW p \in Slots, NEW d \in Datum, Storable(d), NEW r \in {-1, 0, 1}, Write(p, d, r)
  PROVE  Inv'
<1>1. mem' \in [Slots \cup {Temp} -> Datum] /\ \A x \in Places : Storable(mem'[x])
  BY StoreInv DEF Write, Places
<1>2. calls' \in 0..MaxCalls
  BY FpfdAssumption DEF Write, Inv, TypeOK
<1>3. TypeOK' /\ AtPoint'
  BY <1>1, <1>2 DEF Write, Inv, TypeOK, AtPoint, locals, history
<1> QED
  BY <1>1, <1>3 DEF Inv

LEMMA NegatedType ==
  ASSUME NEW d \in Datum, Storable(d)
  PROVE  Negated(d) \in Datum /\ Storable(Negated(d))
<1> DEFINE x == Expand(d)
<1>1. x \in Impl /\ InRange(x)
  BY ExpandType DEF Expanded, InRange
<1> HIDE DEF x
<1> DEFINE y == [x EXCEPT !.sign = -x.sign]
<1>2. y \in Impl /\ InRange(y)
  <2>1. x.sign \in {-1, 1}
    BY <1>1 DEF Impl, Sign
  <2>2. y = [mant |-> x.mant, exp |-> x.exp, sign |-> -x.sign, special |-> x.special]
    BY <1>1 DEF Impl
  <2> QED
    BY <1>1, <2>1, <2>2 DEF Impl, Sign, InRange
<1>3. Compress(y) \in Datum /\ Storable(Compress(y))
  BY <1>2, CompressType
<1> QED
  BY <1>3 DEF Negated, x

LEMMA ConstantsType == \A d \in Constants : d \in Datum /\ Storable(d)
<1> SUFFICES ASSUME NEW d \in Constants PROVE d \in Datum /\ Storable(d)
  OBVIOUS
<1> DEFINE Good(c) == c \in Datum /\ Storable(c)
<1>1. \A m \in {0, 1} : Good(Compress(Finite(m, 1)))
  <2>1. Finite(0, 1) = [mant |-> 0, exp |-> 0, sign |-> 1, special |-> "ZERO"]
    BY DEF Finite
  <2>2. Finite(1, 1) = [mant |-> 1, exp |-> 0, sign |-> 1, special |-> "NUMBER"]
    BY DEF Finite
  <2>3. Compress(Finite(0, 1)) = [kind |-> "FIN", mant |-> 0, exp |-> 0, sign |-> 1]
    BY <2>1 DEF Compress
  <2>4. Compress(Finite(1, 1)) = [kind |-> "FIN", mant |-> 1, exp |-> 0, sign |-> 1]
    BY <2>2 DEF Compress
  <2> QED
    BY <2>3, <2>4, Format DEF Datum, Sign, Storable
<1>2. \A g \in Garbage : Good(Compress(Infinite(g, 1)))
  <2> SUFFICES ASSUME NEW g \in Garbage PROVE Good(Compress(Infinite(g, 1)))
    OBVIOUS
  <2>1. Infinite(g, 1) \in Impl /\ Infinite(g, 1).special = "INF"
    BY FpfdAssumption DEF Infinite, Impl, Sign, Special
  <2> QED
    BY <2>1, CompressType DEF InRange
<1>3. \A c : Good(c) => Good(Negated(c))
  BY NegatedType
<1> HIDE DEF Good
<1>4. Good(d)
  BY <1>1, <1>2, <1>3 DEF Constants
<1> QED
  BY <1>4 DEF Good

LEMMA WritesInv == Inv /\ (Neg \/ Set \/ SetConstant \/ SetUi) => Inv'
<1> SUFFICES ASSUME Inv, Neg \/ Set \/ SetConstant \/ SetUi PROVE Inv'
  OBVIOUS
<1>1. ret \in {-1, 0, 1} /\ \A s \in Slots : mem[s] \in Datum /\ Storable(mem[s])
  BY DEF Inv, TypeOK, Places
<1>2. CASE Neg
  <2>1. PICK p \in Slots, s \in Slots : Write(p, Negated(mem[s]), ret)
    BY <1>2 DEF Neg
  <2>2. Negated(mem[s]) \in Datum /\ Storable(Negated(mem[s]))
    BY <1>1, NegatedType
  <2> QED
    BY <1>1, <2>1, <2>2, WriteInv
<1>3. CASE Set
  <2>1. PICK p \in Slots, s \in Slots : Write(p, mem[s], ret)
    BY <1>3 DEF Set
  <2> QED
    BY <1>1, <2>1, WriteInv
<1>4. CASE SetConstant
  <2>1. PICK p \in Slots, d \in Constants : Write(p, d, ret)
    BY <1>4 DEF SetConstant
  <2> QED
    BY <1>1, <2>1, ConstantsType, WriteInv
<1>5. CASE SetUi
  <2>1. PICK p \in Slots, m \in {0, 1} : Write(p, Compress(Finite(m, 1)), 0)
    BY <1>5 DEF SetUi
  <2>2. Compress(Finite(m, 1)) \in Constants
    BY DEF Constants
  <2> QED
    BY <2>1, <2>2, ConstantsType, WriteInv
<1> QED
  BY <1>2, <1>3, <1>4, <1>5

LEMMA QueryInv == Inv /\ Query => Inv'
<1> SUFFICES ASSUME Inv, Query PROVE Inv'
  OBVIOUS
<1>1. ret' \in {-1, 0, 1} /\ calls' \in 0..MaxCalls
  BY FpfdAssumption DEF Query, Inv, TypeOK
<1>2. TypeOK' /\ AtPoint'
  BY <1>1 DEF Query, Inv, TypeOK, AtPoint, locals, history
<1> QED
  BY <1>2 DEF Inv, Query

LEMMA StutterInv == Inv /\ UNCHANGED vars => Inv'
<1> SUFFICES ASSUME Inv, UNCHANGED vars PROVE Inv'
  OBVIOUS
<1>1. TypeOK' /\ AtPoint'
  BY DEF Inv, TypeOK, AtPoint, Chosen, vars, locals, history, caller
<1> QED
  BY <1>1 DEF Inv, vars

\* Inv is an inductive invariant for every library that delivers.
THEOREM FpfdInductive ==
  ASSUME LibraryDelivers(Operand)
  PROVE  Spec => []Inv
<1>1. Inv /\ [Next]_vars => Inv'
  BY LibraryDelivers(Operand), InvokeInv, ExpandInv, FmaOperateInv, FmaFallbackInv, DispatchInv,
     OperateInv, ScaleInv, RoundResultInv, CompressResultInv, WritesInv, QueryInv,
     StutterInv DEF Next, Step
<1> QED
  BY <1>1, InitInv, PTL DEF Spec

-----------------------------------------------------------------------------
(* The theorems                                                            *)

\* The state of a call is well typed at every point, fpfd32_fma's detour
\* through fpfd32_mul and fpfd32_add included.
THEOREM FpfdTypeOK ==
  ASSUME LibraryDelivers(Operand)
  PROVE  Spec => []TypeOK
<1>1. Inv => TypeOK
  BY DEF Inv
<1> QED
  BY <1>1, FpfdInductive, PTL

\* The action tables let only nonzero numbers of the format reach the library's
\* arithmetic (add.c:60-143, mul.c:70-151, div.c:70-151, fma.c:34-48).
THEOREM FpfdOperandsAreNumbers ==
  ASSUME LibraryDelivers(Operand)
  PROVE  Spec => []OperandsAreNumbers
<1>1. Inv => OperandsAreNumbers
  BY Format DEF Inv, AtPoint, OperandsAreNumbers, Arithmetic, Operand, Expanded, InRange, Impl
<1> QED
  BY <1>1, FpfdInductive, PTL

\* Rounding after scaling never leaves the range that fpfd32_impl_compress can
\* encode, and neither does an operand that is returned unchanged.
THEOREM FpfdEncodable ==
  ASSUME LibraryDelivers(Operand)
  PROVE  Spec => []Encodable
<1>1. Inv => Encodable
  BY DEF Inv, AtPoint, Encodable, InRange
<1> QED
  BY <1>1, FpfdInductive, PTL

-----------------------------------------------------------------------------
(* The promise of FpfdAPI is stated in the same format                      *)

LEMMA SameFormat ==
  /\ \A d : API!Expand(d) = Expand(d)
  /\ \A m : API!Digits(m) = Digits(m)
  /\ \A v, m, e : API!Position(v, m, e) = Position(v, m, e)
  /\ \A a, b : API!ExactSum(a, b) = ExactSum(a, b)
  /\ \A a, b : API!ExactProduct(a, b) = ExactProduct(a, b)
  /\ \A a, b : API!ExactQuotient(a, b) = ExactQuotient(a, b)
  /\ \A v, rnd : API!Rounded(v, rnd) = Rounded(v, rnd)
  /\ \A m, e, n, f : API!SameMagnitude(m, e, n, f) <=> SameMagnitude(m, e, n, f)
<1>1. API!MaxMant = MaxMant
  BY DEF API!MaxMant, MaxMant
<1>2. \A d : API!Expand(d) = Expand(d)
  BY <1>1 DEF API!Expand, Expand
<1>3. \A m : API!Digits(m) = Digits(m)
  BY DEF API!Digits, Digits
<1>4. /\ \A i, j : API!MaxOf(i, j) = MaxOf(i, j)
      /\ \A i, j : API!MinOf(i, j) = MinOf(i, j)
      /\ \A s, n, d, e : API!Exact(s, n, d, e) = Exact(s, n, d, e)
  BY DEF API!MaxOf, MaxOf, API!MinOf, MinOf, API!Exact, Exact
<1>5. /\ \A v, q : API!NumAt(v, q) = NumAt(v, q)
      /\ \A v, q : API!DenAt(v, q) = DenAt(v, q)
  BY <1>4 DEF API!NumAt, NumAt, API!DenAt, DenAt
<1>6. \A v, m, e : API!Position(v, m, e) = Position(v, m, e)
  <2> SUFFICES ASSUME NEW v, NEW m, NEW e PROVE API!Position(v, m, e) = Position(v, m, e)
    OBVIOUS
  <2>1. API!NumAt(v, e) = NumAt(v, e) /\ API!DenAt(v, e) = DenAt(v, e)
    BY <1>5
  <2> QED
    BY <2>1, Zenon DEF API!Position, Position
<1>7. \A a, b : API!ExactSum(a, b) = ExactSum(a, b)
  BY <1>4 DEF API!ExactSum, ExactSum
<1>8. \A a, b : API!ExactProduct(a, b) = ExactProduct(a, b)
  BY <1>4 DEF API!ExactProduct, ExactProduct
<1>9. \A a, b : API!ExactQuotient(a, b) = ExactQuotient(a, b)
  BY <1>4 DEF API!ExactQuotient, ExactQuotient
<1>10. \A rnd, s, pos, m : API!RoundsUp(rnd, s, pos, m) <=> RoundsUp(rnd, s, pos, m)
  BY DEF API!RoundsUp, RoundsUp
<1>11. \A v, rnd : API!Rounded(v, rnd) = Rounded(v, rnd)
  <2> SUFFICES ASSUME NEW v, NEW rnd PROVE API!Rounded(v, rnd) = Rounded(v, rnd)
    OBVIOUS
  <2> DEFINE q == MaxOf(EMin, v.e + Digits(v.n \div v.d) - P)
             m == NumAt(v, q) \div DenAt(v, q)
             pos == Position(v, m, q)
             up == RoundsUp(rnd, v.sign, pos, m)
  <2>1. q = API!MaxOf(EMin, v.e + API!Digits(v.n \div v.d) - P)
    BY <1>3, <1>4
  <2>2. m = API!NumAt(v, q) \div API!DenAt(v, q)
    BY <1>5
  <2>3. pos = API!Position(v, m, q)
    BY <1>6
  <2>4. up <=> API!RoundsUp(rnd, v.sign, pos, m)
    BY <1>10
  <2> QED
    BY <1>1, <2>1, <2>2, <2>3, <2>4 DEF API!Rounded, Rounded
<1>12. \A m, e, n, f : API!SameMagnitude(m, e, n, f) <=> SameMagnitude(m, e, n, f)
  BY <1>4 DEF API!SameMagnitude, SameMagnitude
<1> QED
  BY <1>2, <1>3, <1>6, <1>7, <1>8, <1>9, <1>11, <1>12

-----------------------------------------------------------------------------
(* Values that are stored without rounding                                  *)

\* The table of powers reaches from the lowest to the highest digit of every sum
\* that fpfd32_fma may have to round.
Reach == 2 * (EMax - EMin) + 4 * P <= MaxShift

\* A payload that fpfd32_impl_expand lets through fits the field it came from.
PayloadsFit == Pow10[P-1] <= PayloadMod

Val(x) == [class |-> x.special, sign |-> x.sign, mant |-> x.mant, exp |-> x.exp]

\* What fpfd32_impl_expand can return.
FromDatum(x) ==
  /\ x \in Impl /\ Expanded(x)
  /\ NaN(x) => x.mant < Pow10[P-1]
  /\ x.special = "ZERO" => x.mant = 0
  /\ x.special # "NUMBER" => x.exp = 0

LEMMA ExtOfDatum == \A d : API!Ext(d) = Val(Expand(d))
BY SameFormat DEF API!Ext, Val

LEMMA ExpandFromDatum ==
  ASSUME NEW d \in Datum, Storable(d)
  PROVE  FromDatum(Expand(d))
<1>1. d.kind \in {"FIN", "INF", "QNAN", "SNAN"} /\ d.mant \in Nat /\ d.sign \in Sign
  BY DEF Datum
<1>2. Expanded(Expand(d)) /\ Expand(d) \in Impl
  BY ExpandType DEF Expanded, InRange
<1>3. Pow10[P-1] \in Nat \ {0}
  <2>1. P - 1 \in 0..MaxShift
    BY DecimalAssumption
  <2> QED
    BY <2>1, PowerType
<1>4. CASE d.kind = "FIN" /\ d.mant \in 1..MaxMant
  <2>1. Expand(d) = [mant |-> d.mant, exp |-> d.exp, sign |-> d.sign, special |-> "NUMBER"]
    BY <1>4 DEF Expand
  <2> QED
    BY <1>2, <2>1 DEF FromDatum, NaN
<1>5. CASE d.kind = "FIN" /\ d.mant \notin 1..MaxMant
  <2>1. Expand(d) = [mant |-> 0, exp |-> 0, sign |-> d.sign, special |-> "ZERO"]
    BY <1>5 DEF Expand
  <2> QED
    BY <1>2, <2>1 DEF FromDatum, NaN
<1>6. CASE d.kind = "INF"
  <2>1. Expand(d) = [mant |-> 0, exp |-> 0, sign |-> d.sign, special |-> "INF"]
    BY <1>6 DEF Expand
  <2> QED
    BY <1>2, <2>1 DEF FromDatum, NaN
<1>7. CASE d.kind \in {"QNAN", "SNAN"}
  <2>1. Expand(d) = [mant |-> IF d.mant < Pow10[P-1] THEN d.mant ELSE 0,
                     exp |-> 0, sign |-> d.sign, special |-> d.kind]
    BY <1>7 DEF Expand
  <2> QED
    BY <1>1, <1>2, <1>3, <1>7, <2>1 DEF FromDatum, NaN
<1> QED
  BY <1>1, <1>4, <1>5, <1>6, <1>7

\* A payload that fits is stored as it is, and leaves the signalling bit alone.
LEMMA PayloadKept ==
  ASSUME PayloadsFit, NEW x \in Impl, x.special \in {"QNAN", "SNAN"}, x.mant < Pow10[P-1]
  PROVE  Compress(x) = [kind |-> x.special, mant |-> x.mant, exp |-> 0, sign |-> x.sign]
<1>1. x.mant \in Nat /\ PayloadMod \in Nat \ {0} /\ x.mant < PayloadMod
  <2>1. P - 1 \in 0..MaxShift
    BY DecimalAssumption
  <2>2. Pow10[P-1] \in Nat
    BY <2>1, PowerType
  <2> QED
    BY <2>2, EncodingAssumption DEF PayloadsFit, Impl
<1>2. x.mant % PayloadMod = x.mant
  BY <1>1, ModSmall
<1> DEFINE big == 32 * PayloadMod
           m == x.mant
<1>3. big \in Nat \ {0} /\ m \in Nat /\ m = 0 * big + m /\ m \in 0..(big - 1) /\ 0 \in Int
  BY <1>1
<1>4. m \div big = 0 /\ m % big = m
  <2> HIDE DEF big, m
  <2> QED
    BY <1>3, DivModUnique
<1>5. ~SignallingBit(x.mant)
  BY <1>4 DEF SignallingBit
<1> QED
  BY <1>2, <1>5 DEF Compress

LEMMA QuietCompress ==
  ASSUME PayloadsFit, NEW x \in Impl, x.special = "QNAN", x.mant < Pow10[P-1]
  PROVE  /\ Compress(x) = [kind |-> "QNAN", mant |-> x.mant, exp |-> 0, sign |-> x.sign]
         /\ Compress(x).kind = "QNAN"
BY PayloadKept

\* fpfd_impl_nanprop makes the result that IEEE 754-2008, 6.2, asks for.
LEMMA NanOutcome ==
  ASSUME PayloadsFit, NEW a, FromDatum(a), NEW b, FromDatum(b), NaN(a) \/ NaN(b),
         NEW x, x = IF NanProp(a, b).src = "LHS" THEN Quieted(a, TRUE) ELSE Quieted(b, TRUE)
  PROVE  /\ NanProp(a, b).src \in {"LHS", "RHS"}
         /\ API!PropagatesNaN({Val(a), Val(b)}, Compress(x), 0, NanProp(a, b).raise)
         /\ Compress(x).kind = "QNAN"
<1> DEFINE c == IF NaN(a) THEN a ELSE b
<1>1. NanProp(a, b).src = IF NaN(a) THEN "LHS" ELSE "RHS"
  BY DEF NanProp
<1>2. x = [c EXCEPT !.special = "QNAN"] /\ NaN(c) /\ FromDatum(c) /\ (c = a \/ c = b)
  BY <1>1 DEF Quieted
<1> HIDE DEF c
<1>3. c \in Impl /\ c.mant < Pow10[P-1]
  BY <1>2 DEF FromDatum
<1>4. x \in Impl /\ x.special = "QNAN" /\ x.mant = c.mant /\ x.sign = c.sign
  BY <1>2, <1>3 DEF Impl, Special
<1>5. /\ Compress(x) = [kind |-> "QNAN", mant |-> c.mant, exp |-> 0, sign |-> c.sign]
      /\ Compress(x).kind = "QNAN"
  BY <1>3, <1>4, QuietCompress
<1>6. API!IsNaN(Val(c)) /\ Val(c).mant = c.mant /\ Val(c).sign = c.sign
  BY <1>2 DEF API!IsNaN, Val, NaN
<1>7. NanProp(a, b).raise = IF \E o \in {Val(a), Val(b)} : o.class = "SNAN" THEN {"INVALID"} ELSE {}
  BY DEF NanProp, Val
<1>8. Val(c) \in {Val(a), Val(b)}
  BY <1>2
<1>9. API!PropagatesNaN({Val(a), Val(b)}, Compress(x), 0, NanProp(a, b).raise)
  BY <1>5, <1>6, <1>7, <1>8 DEF API!PropagatesNaN
<1>10. NanProp(a, b).src \in {"LHS", "RHS"}
  BY <1>1
<1>11. Compress(x).kind = "QNAN"
  BY <1>5
<1> QED
  BY <1>9, <1>10, <1>11, Zenon

LEMMA Bounds ==
  /\ P \in Nat \ {0} /\ MaxShift \in Nat /\ EMin \in Int /\ EMax \in Int
  /\ EMin <= 0 /\ 0 <= EMax /\ EMin < EMax /\ P \in 0..MaxShift
  /\ Reach => /\ P + (2 * EMax - 2 * EMin) <= MaxShift /\ P + EMax - EMin <= MaxShift
BY DecimalAssumption, FpfdAssumption DEF Reach

\* A number plus a zero is the number.
LEMMA SumWithZero ==
  ASSUME Reach, NEW x, NEW y, x.sign \in Sign, x.mant = 0, x.exp \in EMin..EMax,
         y.sign \in Sign, y.mant \in 1..MaxMant, y.exp \in EMin..EMax
  PROVE  /\ Denotes(ExactSum(x, y), y.mant, y.exp) /\ ExactSum(x, y).sign = y.sign
         /\ Denotes(ExactSum(y, x), y.mant, y.exp) /\ ExactSum(y, x).sign = y.sign
         /\ ExactSum(x, y).n # 0 /\ ExactSum(y, x).n # 0
<1> DEFINE q == MinOf(x.exp, y.exp)
           p == Pow10[y.exp - q]
           o == Pow10[x.exp - q]
           m == y.mant
<1>1. /\ q \in EMin..EMax /\ q \in Int /\ q <= y.exp /\ q <= x.exp
      /\ y.exp - q \in 0..MaxShift /\ x.exp - q \in 0..MaxShift /\ MinOf(y.exp, x.exp) = q
  BY Bounds DEF MinOf
<1>2. p \in Nat \ {0} /\ o \in Nat /\ m \in Nat \ {0}
  BY <1>1, PowerType, Format
<1>3. x.sign \in {-1, 1} /\ y.sign \in {-1, 1} /\ x.mant = 0
  BY DEF Sign
<1> DEFINE t == x.sign * x.mant * o + y.sign * m * p
           u == y.sign * m * p + x.sign * x.mant * o
<1>4. m * p \in Nat \ {0}
  BY <1>2
<1>5. x.sign * x.mant * o = 0
  BY <1>2, <1>3
<1>6. y.sign * m * p = IF y.sign = 1 THEN m * p ELSE -(m * p)
  BY <1>2, <1>3
<1>7. t = (IF y.sign = 1 THEN m * p ELSE -(m * p)) /\ u = t
  BY <1>4, <1>5, <1>6
<1>8. /\ ExactSum(x, y) = Exact(IF t < 0 THEN -1 ELSE 1, IF t < 0 THEN -t ELSE t, 1, q)
      /\ ExactSum(y, x) = Exact(IF u < 0 THEN -1 ELSE 1, IF u < 0 THEN -u ELSE u, 1, q)
  BY <1>1 DEF ExactSum
<1> DEFINE w == m * p
<1>9. w \in Nat \ {0} /\ t = (IF y.sign = 1 THEN w ELSE -w) /\ u = t
  BY <1>4, <1>7
<1> HIDE DEF t, u, w, q, p, o
<1>10. /\ (IF t < 0 THEN -1 ELSE 1) = y.sign /\ (IF t < 0 THEN -t ELSE t) = w
  BY <1>3, <1>9
<1>11. ExactSum(x, y) = Exact(y.sign, w, 1, q) /\ ExactSum(y, x) = Exact(y.sign, w, 1, q)
  BY <1>8, <1>9, <1>10
<1> DEFINE v == Exact(y.sign, w, 1, q)
<1>12. v.sign = y.sign /\ v.n = w /\ v.d = 1 /\ v.e = q
  BY DEF Exact
<1>13. w = y.mant * Pow10[y.exp - q]
  BY DEF w, p
<1>14. P + EMax - q <= MaxShift /\ P + EMax - EMin <= MaxShift
  BY <1>1, Bounds
<1> HIDE DEF v
<1>15. Denotes(v, y.mant, y.exp)
  BY <1>1, <1>12, <1>13, <1>14 DEF Denotes
<1> QED
  BY <1>9, <1>11, <1>12, <1>15 DEF v

\* A number of the format is delivered as it is, without a flag.
LEMMA NumberIsPromised ==
  ASSUME NEW v, NEW m, NEW e, Denotes(v, m, e), NEW rnd, NEW d,
         d = [kind |-> "FIN", mant |-> m, exp |-> e, sign |-> v.sign]
  PROVE  API!IsRounded(v, rnd, d, 0, {})
<1> DEFINE r == Rounded(v, rnd)
<1>1. /\ ~r.inf /\ ~r.past /\ r.order = 0 /\ r.sign = v.sign
      /\ SameMagnitude(m, e, r.mant, r.exp)
  BY NumberIsRounded
<1>2. API!Rounded(v, rnd) = r
  BY SameFormat
<1>3. API!SameMagnitude(m, e, r.mant, r.exp)
  BY <1>1, SameFormat
<1>4. d.kind = "FIN" /\ d.mant = m /\ d.exp = e /\ d.sign = v.sign
  OBVIOUS
<1> HIDE DEF r
<1>5. 0 = -r.order
  <2>1. r.order = 0
    BY <1>1
  <2>2. \A i \in Int : -i = 0 - i
    OBVIOUS
  <2>3. 0 \in Int /\ 0 = 0 - 0
    OBVIOUS
  <2> QED
    BY <2>1, <2>2, <2>3, Zenon
<1> QED
  BY <1>1, <1>2, <1>3, <1>4, <1>5 DEF API!IsRounded

-----------------------------------------------------------------------------
(* Outcomes of the action tables                                            *)

LEMMA StoredSpecial ==
  ASSUME NEW g \in Impl, NEW s \in Sign
  PROVE  /\ Compress(Store(g, "ZERO", s).rop) = [kind |-> "FIN", mant |-> 0, exp |-> 0, sign |-> s]
         /\ Compress(Store(g, "INF", s).rop) = [kind |-> "INF", mant |-> 0, exp |-> 0, sign |-> s]
         /\ Compress(InvalidOp(g).rop).kind \in {"QNAN", "SNAN"}
<1>1. Store(g, "ZERO", s).rop = [g EXCEPT !.special = "ZERO", !.sign = s]
  BY DEF Store, Outcome
<1>2. [g EXCEPT !.special = "ZERO", !.sign = s].special = "ZERO" /\ [g EXCEPT !.special = "ZERO", !.sign = s].sign = s
  BY DEF Impl
<1>3. Store(g, "INF", s).rop = [g EXCEPT !.special = "INF", !.sign = s]
  BY DEF Store, Outcome
<1>4. [g EXCEPT !.special = "INF", !.sign = s].special = "INF" /\ [g EXCEPT !.special = "INF", !.sign = s].sign = s
  BY DEF Impl
<1>5. InvalidOp(g).rop = [g EXCEPT !.special = "QNAN"]
  BY DEF InvalidOp, Outcome
<1>6. [g EXCEPT !.special = "QNAN"].special = "QNAN"
  BY DEF Impl
<1>7. Compress(Store(g, "ZERO", s).rop) = [kind |-> "FIN", mant |-> 0, exp |-> 0, sign |-> s]
  BY <1>1, <1>2 DEF Compress
<1>8. Compress(Store(g, "INF", s).rop) = [kind |-> "INF", mant |-> 0, exp |-> 0, sign |-> s]
  BY <1>3, <1>4 DEF Compress
<1>9. Compress(InvalidOp(g).rop).kind \in {"QNAN", "SNAN"}
  <2> DEFINE x == [g EXCEPT !.special = "QNAN"]
  <2>1. Compress(x) = [kind |-> IF SignallingBit(x.mant) THEN "SNAN" ELSE x.special,
                       mant |-> x.mant % PayloadMod, exp |-> 0, sign |-> x.sign]
    BY <1>6 DEF Compress
  <2> QED
    BY <1>5, <1>6, <2>1
<1> QED
  BY <1>7, <1>8, <1>9

\* What a stored zero or infinity promises.
LEMMA SpecialsArePromised ==
  ASSUME NEW s \in Sign, NEW m, NEW e
  PROVE  /\ API!IsZeroOf(s, [kind |-> "FIN", mant |-> 0, exp |-> 0, sign |-> s])
         /\ API!IsInfOf(s, [kind |-> "INF", mant |-> m, exp |-> e, sign |-> s])
         /\ API!Silent(0, {})
<1> DEFINE z == [kind |-> "FIN", mant |-> 0, exp |-> 0, sign |-> s]
<1>1. Expand(z) = [mant |-> 0, exp |-> 0, sign |-> s, special |-> "ZERO"]
  BY DEF Expand
<1>2. API!Ext(z).class = "ZERO"
  BY <1>1, ExtOfDatum DEF Val
<1> QED
  BY <1>2 DEF API!IsZeroOf, API!IsInfOf, API!Silent

\* A finite or infinite operand is stored as it came.
LEMMA CompressOperand ==
  ASSUME NEW x, FromDatum(x), ~NaN(x)
  PROVE  /\ x.special = "NUMBER" => Compress(x) = [kind |-> "FIN", mant |-> x.mant, exp |-> x.exp, sign |-> x.sign]
         /\ x.special = "INF" => Compress(x) = [kind |-> "INF", mant |-> 0, exp |-> 0, sign |-> x.sign]
         /\ x.special \in {"ZERO", "NUMBER", "INF"} /\ x.sign \in Sign
BY DEF FromDatum, NaN, Compress, Impl, Special

\* X is the value of the operand x, taken s times.
Like(X, x, s) ==
  /\ X.class = x.special /\ X.sign = s * x.sign
  /\ X.class = "NUMBER" => X.mant = x.mant /\ X.exp = x.exp
  /\ X.class = "ZERO" => X.mant = 0 /\ X.exp \in EMin..EMax

\* What the outcome d of a dispatch on a and b has the function compress.
Picked(d, a, b) == IF d.src = "LHS" THEN a ELSE IF d.src = "RHS" THEN b ELSE d.rop

LEMMA SignTimes ==
  ASSUME NEW s \in Sign, NEW r \in Sign
  PROVE  s * r \in Sign /\ 1 * r = r /\ (s * r = r <=> s = 1) /\ (s * r = 1 <=> s = r)
BY DEF Sign

LEMMA OperandIsPromised ==
  ASSUME Reach, NEW x, FromDatum(x), x.special = "NUMBER", NEW X, Like(X, x, 1),
         NEW Z, Z.sign \in Sign, Z.mant = 0, Z.exp \in EMin..EMax, NEW rnd
  PROVE  /\ API!IsRounded(ExactSum(X, Z), rnd, Compress(x), 0, {}) /\ ExactSum(X, Z).n # 0
         /\ API!IsRounded(ExactSum(Z, X), rnd, Compress(x), 0, {}) /\ ExactSum(Z, X).n # 0
<1>1. x.sign \in Sign /\ x.mant \in 1..MaxMant /\ x.exp \in EMin..EMax
  BY Format DEF FromDatum, Expanded, InRange, Impl
<1>2. X.sign = x.sign /\ X.mant = x.mant /\ X.exp = x.exp
  BY <1>1, SignTimes DEF Like, Sign
<1>3. /\ Denotes(ExactSum(Z, X), x.mant, x.exp) /\ ExactSum(Z, X).sign = x.sign
      /\ Denotes(ExactSum(X, Z), x.mant, x.exp) /\ ExactSum(X, Z).sign = x.sign
      /\ ExactSum(Z, X).n # 0 /\ ExactSum(X, Z).n # 0
  <2>1. X.sign \in Sign /\ X.mant \in 1..MaxMant /\ X.exp \in EMin..EMax
    BY <1>1, <1>2
  <2>2. /\ Denotes(ExactSum(Z, X), X.mant, X.exp) /\ ExactSum(Z, X).sign = X.sign
        /\ Denotes(ExactSum(X, Z), X.mant, X.exp) /\ ExactSum(X, Z).sign = X.sign
        /\ ExactSum(Z, X).n # 0 /\ ExactSum(X, Z).n # 0
    BY <2>1, SumWithZero
  <2> QED
    BY <1>2, <2>2
<1>4. Compress(x) = [kind |-> "FIN", mant |-> x.mant, exp |-> x.exp, sign |-> x.sign]
  BY DEF Compress
<1>5. API!IsRounded(ExactSum(X, Z), rnd, Compress(x), 0, {})
  BY <1>3, <1>4, NumberIsPromised
<1>6. API!IsRounded(ExactSum(Z, X), rnd, Compress(x), 0, {})
  BY <1>3, <1>4, NumberIsPromised
<1> QED
  BY <1>3, <1>5, <1>6

\* The action tables of add and sub deliver what IEEE 754-2008, 6.1, 6.3 and 7.2,
\* says of zeros, infinities and invalid sums.
LEMMA SumOutcome ==
  ASSUME Reach, NEW a, FromDatum(a), ~NaN(a), NEW b, FromDatum(b), ~NaN(b),
         NEW s \in Sign, NEW X, Like(X, a, 1), NEW Y, Like(Y, b, s), NEW rnd, NEW g \in Impl,
         NEW d, d = AddAction(s, a, b, rnd, g), d.src # "OPERATE", s = 1 \/ d.src # "RHS"
  PROVE  API!IsSum(X, Y, rnd, Compress(Picked(d, a, b)), 0, d.raise)
<1> DEFINE same == a.sign = s * b.sign
           zs == IF same THEN a.sign ELSE IF rnd = "RNDD" THEN -1 ELSE 1
           c == Compress(Picked(d, a, b))
<1>1. /\ a.special \in {"ZERO", "NUMBER", "INF"} /\ a.sign \in Sign
      /\ b.special \in {"ZERO", "NUMBER", "INF"} /\ b.sign \in Sign
  BY CompressOperand
<1>2. /\ X.class = a.special /\ X.sign = a.sign /\ Y.class = b.special /\ Y.sign = s * b.sign
      /\ (same <=> X.sign = Y.sign) /\ X.sign \in Sign /\ Y.sign \in Sign
  BY <1>1, SignTimes DEF Like
<1>3. zs \in Sign
  BY <1>1 DEF Sign
<1>4. zs = IF X.sign = Y.sign THEN X.sign ELSE IF rnd = "RNDD" THEN -1 ELSE 1
  BY <1>2
<1>5. CASE a.special = "ZERO" /\ b.special = "ZERO"
  <2>1. d = Store(g, "ZERO", zs)
    BY <1>5 DEF AddAction
  <2> HIDE DEF zs
  <2>2. d.src = "RET" /\ d.raise = {} /\ d.rop = Store(g, "ZERO", zs).rop
    BY <2>1 DEF Store, Outcome
  <2>3. c = [kind |-> "FIN", mant |-> 0, exp |-> 0, sign |-> zs]
    BY <1>3, <2>2, StoredSpecial DEF Picked
  <2>4. API!IsZeroOf(zs, c) /\ API!Silent(0, {})
    BY <1>3, <2>3, SpecialsArePromised
  <2> QED
    BY <1>2, <1>4, <1>5, <2>2, <2>4, Zenon DEF API!IsSum
<1>6. CASE a.special = "INF" /\ b.special = "INF" /\ same
  <2>1. d = Take(g, "LHS")
    BY <1>6 DEF AddAction
  <2>2. d.src = "LHS" /\ d.raise = {}
    BY <2>1 DEF Take, Outcome
  <2>3. c = [kind |-> "INF", mant |-> 0, exp |-> 0, sign |-> a.sign]
    BY <1>6, <2>2, CompressOperand DEF Picked
  <2>4. API!IsInfOf(a.sign, c) /\ API!Silent(0, {})
    BY <1>1, <2>3, SpecialsArePromised
  <2> QED
    BY <1>2, <1>6, <2>2, <2>4 DEF API!IsSum
<1>7. CASE a.special = "INF" /\ b.special = "INF" /\ ~same
  <2>1. d = InvalidOp(g)
    BY <1>7 DEF AddAction
  <2>2. d.src = "RET" /\ d.raise = {"INVALID"} /\ d.rop = InvalidOp(g).rop
    BY <2>1 DEF InvalidOp, Outcome
  <2>3. c.kind \in {"QNAN", "SNAN"}
    <3>1. Compress(InvalidOp(g).rop).kind \in {"QNAN", "SNAN"}
      BY <1>1, StoredSpecial
    <3> QED
      BY <2>2, <3>1 DEF Picked
  <2>4. API!IsInvalid(c, 0, d.raise)
    BY <2>2, <2>3 DEF API!IsInvalid
  <2> QED
    BY <1>2, <1>7, <2>4 DEF API!IsSum
<1>8. CASE a.special \in {"ZERO", "NUMBER"} /\ b.special = "INF"
  <2>1. d = Take(g, "RHS")
    BY <1>8 DEF AddAction
  <2>2. d.src = "RHS" /\ d.raise = {}
    BY <2>1 DEF Take, Outcome
  <2>3. c = [kind |-> "INF", mant |-> 0, exp |-> 0, sign |-> b.sign]
    BY <1>8, <2>2, CompressOperand DEF Picked
  <2>4. Y.sign = b.sign
    BY <1>1, <1>2, <2>2, SignTimes
  <2>5. API!IsInfOf(Y.sign, c) /\ API!Silent(0, {})
    BY <1>1, <2>3, <2>4, SpecialsArePromised
  <2> QED
    BY <1>2, <1>8, <2>2, <2>5 DEF API!IsSum
<1>9. CASE a.special = "INF" /\ b.special \in {"ZERO", "NUMBER"}
  <2>1. d = Take(g, "LHS")
    BY <1>9 DEF AddAction
  <2>2. d.src = "LHS" /\ d.raise = {}
    BY <2>1 DEF Take, Outcome
  <2>3. c = [kind |-> "INF", mant |-> 0, exp |-> 0, sign |-> a.sign]
    BY <1>9, <2>2, CompressOperand DEF Picked
  <2>4. API!IsInfOf(a.sign, c) /\ API!Silent(0, {})
    BY <1>1, <2>3, SpecialsArePromised
  <2> QED
    BY <1>2, <1>9, <2>2, <2>4 DEF API!IsSum
<1>10. CASE a.special = "ZERO" /\ b.special = "NUMBER"
  <2>1. d = Take(g, "RHS")
    BY <1>10 DEF AddAction
  <2>2. d.src = "RHS" /\ d.raise = {} /\ s = 1
    BY <2>1 DEF Take, Outcome
  <2>3. Picked(d, a, b) = b
    BY <2>2 DEF Picked
  <2>4. X.mant = 0 /\ X.exp \in EMin..EMax
    BY <1>2, <1>10 DEF Like
  <2>5. API!IsRounded(ExactSum(X, Y), rnd, c, 0, {}) /\ ExactSum(X, Y).n # 0
    BY <1>2, <1>10, <2>2, <2>3, <2>4, OperandIsPromised
  <2>6. API!ExactSum(X, Y) = ExactSum(X, Y)
    BY SameFormat
  <2> QED
    BY <1>2, <1>10, <2>2, <2>5, <2>6 DEF API!IsSum
<1>11. CASE a.special = "NUMBER" /\ b.special = "ZERO"
  <2>1. d = Take(g, "LHS")
    BY <1>11 DEF AddAction
  <2>2. d.src = "LHS" /\ d.raise = {}
    BY <2>1 DEF Take, Outcome
  <2>3. Picked(d, a, b) = a
    BY <2>2 DEF Picked
  <2>4. Y.mant = 0 /\ Y.exp \in EMin..EMax
    BY <1>2, <1>11 DEF Like
  <2>5. API!IsRounded(ExactSum(X, Y), rnd, c, 0, {}) /\ ExactSum(X, Y).n # 0
    BY <1>2, <1>11, <2>3, <2>4, OperandIsPromised
  <2>6. API!ExactSum(X, Y) = ExactSum(X, Y)
    BY SameFormat
  <2> QED
    BY <1>2, <1>11, <2>2, <2>5, <2>6 DEF API!IsSum
<1>12. ~(a.special = "NUMBER" /\ b.special = "NUMBER")
  <2> SUFFICES ASSUME a.special = "NUMBER", b.special = "NUMBER" PROVE FALSE
    OBVIOUS
  <2>1. d = Take(g, "OPERATE")
    BY DEF AddAction
  <2> QED
    BY <2>1 DEF Take, Outcome
<1> QED
  BY <1>1, <1>5, <1>6, <1>7, <1>8, <1>9, <1>10, <1>11, <1>12

\* The value T of a product of which a factor is a zero or an infinity, delivered.
SpecialDone(T, d, f) ==
  \/ T.class = "INVALID" /\ API!IsInvalid(d, 0, f)
  \/ T.class = "INF" /\ API!IsInfOf(T.sign, d) /\ f = {}
  \/ T.class = "ZERO" /\ API!IsZeroOf(T.sign, d) /\ f = {}

LEMMA SignOfProductIs ==
  ASSUME NEW a, NEW b, a.sign \in Sign, b.sign \in Sign
  PROVE  SignOfProduct(a, b) = a.sign * b.sign /\ SignOfProduct(a, b) \in Sign
BY DEF SignOfProduct, Sign

\* The action table of mul delivers what IEEE 754-2008 says of a product with a
\* zero or an infinity.
LEMMA ProductOutcome ==
  ASSUME NEW a, FromDatum(a), ~NaN(a), NEW b, FromDatum(b), ~NaN(b), NEW g \in Impl,
         NEW d, d = MulAction(a, b, g), d.src # "OPERATE"
  PROVE  SpecialDone(API!Times(Val(a), Val(b)), Compress(Picked(d, a, b)), d.raise)
<1> DEFINE s == SignOfProduct(a, b)
           T == API!Times(Val(a), Val(b))
           c == Compress(Picked(d, a, b))
           classes == {a.special, b.special}
<1>1. /\ a.special \in {"ZERO", "NUMBER", "INF"} /\ a.sign \in Sign
      /\ b.special \in {"ZERO", "NUMBER", "INF"} /\ b.sign \in Sign
  BY CompressOperand
<1>2. s \in Sign /\ s = a.sign * b.sign
  BY <1>1, SignOfProductIs
<1>3. /\ T.sign = s
      /\ classes = {"ZERO", "INF"} => T.class = "INVALID"
      /\ classes = {"INF"} \/ classes = {"INF", "NUMBER"} => T.class = "INF"
      /\ classes = {"ZERO"} \/ classes = {"ZERO", "NUMBER"} => T.class = "ZERO"
  <2> DEFINE X == Val(a)
             Y == Val(b)
  <2>1. X.class = a.special /\ Y.class = b.special /\ X.sign = a.sign /\ Y.sign = b.sign
    BY DEF Val
  <2> HIDE DEF X, Y
  <2>2. LET U == API!Times(X, Y)
        IN  /\ U.sign = X.sign * Y.sign
            /\ {X.class, Y.class} = {"ZERO", "INF"} => U.class = "INVALID"
            /\ {X.class, Y.class} = {"INF"} \/ {X.class, Y.class} = {"INF", "NUMBER"} => U.class = "INF"
            /\ {X.class, Y.class} = {"ZERO"} \/ {X.class, Y.class} = {"ZERO", "NUMBER"} => U.class = "ZERO"
    BY DEF API!Times
  <2> QED
    BY <1>2, <2>1, <2>2 DEF X, Y
<1> HIDE DEF T, s
<1>4. CASE classes = {"ZERO", "INF"}
  <2>1. d = InvalidOp(g)
    BY <1>4 DEF MulAction
  <2>2. d.src = "RET" /\ d.raise = {"INVALID"} /\ d.rop = InvalidOp(g).rop
    BY <2>1 DEF InvalidOp, Outcome
  <2>3. Compress(InvalidOp(g).rop).kind \in {"QNAN", "SNAN"}
    BY <1>2, StoredSpecial
  <2>4. API!IsInvalid(c, 0, d.raise)
    BY <2>2, <2>3 DEF API!IsInvalid, Picked
  <2> QED
    BY <1>3, <1>4, <2>4 DEF SpecialDone, T
<1>5. CASE classes = {"INF"} \/ classes = {"INF", "NUMBER"}
  <2>1. d = Store(g, "INF", s)
    BY <1>5 DEF MulAction, s
  <2>2. d.src = "RET" /\ d.raise = {} /\ d.rop = Store(g, "INF", s).rop
    BY <2>1 DEF Store, Outcome
  <2>3. c = [kind |-> "INF", mant |-> 0, exp |-> 0, sign |-> s]
    BY <1>2, <2>2, StoredSpecial DEF Picked
  <2>4. API!IsInfOf(s, c)
    BY <1>2, <2>3, SpecialsArePromised
  <2> QED
    BY <1>3, <1>5, <2>2, <2>4 DEF SpecialDone, T
<1>6. CASE classes = {"ZERO"} \/ classes = {"ZERO", "NUMBER"}
  <2>1. d = Store(g, "ZERO", s)
    BY <1>6 DEF MulAction, s
  <2>2. d.src = "RET" /\ d.raise = {} /\ d.rop = Store(g, "ZERO", s).rop
    BY <2>1 DEF Store, Outcome
  <2>3. c = [kind |-> "FIN", mant |-> 0, exp |-> 0, sign |-> s]
    BY <1>2, <2>2, StoredSpecial DEF Picked
  <2>4. API!IsZeroOf(s, c)
    BY <1>2, <2>3, SpecialsArePromised
  <2> QED
    BY <1>3, <1>6, <2>2, <2>4 DEF SpecialDone, T
<1>7. classes # {"NUMBER"}
  <2> SUFFICES ASSUME classes = {"NUMBER"} PROVE FALSE
    OBVIOUS
  <2>1. d = Take(g, "OPERATE")
    BY DEF MulAction
  <2> QED
    BY <2>1 DEF Take, Outcome
<1> QED
  BY <1>1, <1>4, <1>5, <1>6, <1>7

LEMMA SpecialDoneIsProduct ==
  ASSUME NEW X, NEW Y, NEW rnd, NEW d, NEW f, SpecialDone(API!Times(X, Y), d, f)
  PROVE  API!IsProduct(X, Y, rnd, d, 0, f)
<1>1. f = {} => API!Silent(0, f)
  BY DEF API!Silent
<1> QED
  BY <1>1, Zenon DEF SpecialDone, API!IsProduct

\* The action table of div, likewise.
LEMMA QuotientOutcome ==
  ASSUME NEW a, FromDatum(a), ~NaN(a), NEW b, FromDatum(b), ~NaN(b), NEW g \in Impl, NEW rnd,
         NEW d, d = DivAction(a, b, g), d.src # "OPERATE"
  PROVE  API!IsQuotient(Val(a), Val(b), rnd, Compress(Picked(d, a, b)), 0, d.raise)
<1> DEFINE s == SignOfProduct(a, b)
           X == Val(a)
           Y == Val(b)
           c == Compress(Picked(d, a, b))
<1>1. /\ a.special \in {"ZERO", "NUMBER", "INF"} /\ a.sign \in Sign
      /\ b.special \in {"ZERO", "NUMBER", "INF"} /\ b.sign \in Sign
  BY CompressOperand
<1>2. s \in Sign /\ s = X.sign * Y.sign
  BY <1>1, SignOfProductIs DEF Val
<1>3. X.class = a.special /\ Y.class = b.special
  BY DEF Val
<1>4. API!Silent(0, {})
  BY DEF API!Silent
<1> HIDE DEF X, Y, s
<1>5. CASE a.special = b.special /\ a.special # "NUMBER"
  <2>1. d = InvalidOp(g)
    BY <1>5 DEF DivAction
  <2>2. d.src = "RET" /\ d.raise = {"INVALID"} /\ d.rop = InvalidOp(g).rop
    BY <2>1 DEF InvalidOp, Outcome
  <2>3. Compress(InvalidOp(g).rop).kind \in {"QNAN", "SNAN"}
    BY <1>2, StoredSpecial
  <2>4. API!IsInvalid(c, 0, d.raise)
    BY <2>2, <2>3 DEF API!IsInvalid, Picked
  <2> QED
    BY <1>1, <1>3, <1>5, <2>4 DEF API!IsQuotient, X, Y
<1>6. CASE a.special = "NUMBER" /\ b.special = "ZERO"
  <2>1. d = [Store(g, "INF", s) EXCEPT !.raise = {"DIVBYZERO"}]
    BY <1>6 DEF DivAction, s
  <2>2. d.src = "RET" /\ d.raise = {"DIVBYZERO"} /\ d.rop = Store(g, "INF", s).rop
    BY <2>1 DEF Store, Outcome
  <2>3. c = [kind |-> "INF", mant |-> 0, exp |-> 0, sign |-> s]
    BY <1>2, <2>2, StoredSpecial DEF Picked
  <2>4. API!IsInfOf(s, c)
    BY <1>2, <2>3, SpecialsArePromised
  <2> QED
    BY <1>2, <1>3, <1>6, <2>2, <2>4 DEF API!IsQuotient, X, Y
<1>7. CASE a.special = "INF" /\ b.special # "INF"
  <2>1. d = Store(g, "INF", s)
    BY <1>7 DEF DivAction, s
  <2>2. d.src = "RET" /\ d.raise = {} /\ d.rop = Store(g, "INF", s).rop
    BY <2>1 DEF Store, Outcome
  <2>3. c = [kind |-> "INF", mant |-> 0, exp |-> 0, sign |-> s]
    BY <1>2, <2>2, StoredSpecial DEF Picked
  <2>4. API!IsInfOf(s, c)
    BY <1>2, <2>3, SpecialsArePromised
  <2> QED
    BY <1>2, <1>3, <1>4, <1>7, <2>2, <2>4 DEF API!IsQuotient, X, Y
<1>8. CASE (a.special = "ZERO" /\ b.special # "ZERO") \/ (a.special = "NUMBER" /\ b.special = "INF")
  <2>1. d = Store(g, "ZERO", s)
    BY <1>1, <1>8 DEF DivAction, s
  <2>2. d.src = "RET" /\ d.raise = {} /\ d.rop = Store(g, "ZERO", s).rop
    BY <2>1 DEF Store, Outcome
  <2>3. c = [kind |-> "FIN", mant |-> 0, exp |-> 0, sign |-> s]
    BY <1>2, <2>2, StoredSpecial DEF Picked
  <2>4. API!IsZeroOf(s, c)
    BY <1>2, <2>3, SpecialsArePromised
  <2> QED
    BY <1>1, <1>2, <1>3, <1>4, <1>8, <2>2, <2>4 DEF API!IsQuotient, X, Y
<1>9. ~(a.special = "NUMBER" /\ b.special = "NUMBER")
  <2> SUFFICES ASSUME a.special = "NUMBER", b.special = "NUMBER" PROVE FALSE
    OBVIOUS
  <2>1. d = Take(g, "OPERATE")
    BY DEF DivAction
  <2> QED
    BY <2>1 DEF Take, Outcome
<1> QED
  BY <1>1, <1>5, <1>6, <1>7, <1>8, <1>9

-----------------------------------------------------------------------------
(* Rounded results                                                          *)

LEMMA RoundedIsPromised ==
  ASSUME NEW v, NEW rnd, NEW res, RoundsAs(v, rnd, res), res.x \in Impl
  PROVE  API!IsRounded(v, rnd, Compress(res.x), res.tern, res.flags)
<1> DEFINE r == Rounded(v, rnd)
           x == res.x
           d == Compress(x)
<1>1. /\ x.sign = r.sign /\ x.special = (IF r.inf THEN "INF" ELSE "NUMBER")
      /\ (~r.inf => x.mant = r.mant /\ x.exp = r.exp) /\ res.tern = -r.order
      /\ res.flags = {"UNDERFLOW"} \cup (IF r.past THEN {"OVERFLOW"}
                                         ELSE IF res.tern = 0 THEN {} ELSE {"INEXACT"})
  BY DEF RoundsAs
<1>2. API!Rounded(v, rnd) = r
  BY SameFormat
<1>3. x.mant \in Nat /\ x.exp \in Int /\ x.sign \in Sign
  BY DEF Impl
<1>4. d.sign = x.sign /\ (r.inf => d.kind = "INF")
      /\ (~r.inf => d.kind = "FIN" /\ d.mant = x.mant /\ d.exp = x.exp)
  BY <1>1 DEF Compress
<1>5. API!SameMagnitude(x.mant, x.exp, x.mant, x.exp)
  <2> DEFINE m == x.mant
             e == x.exp
  <2>1. 0 \in 0..P /\ P \in Nat /\ Pow10[0] = 1
    BY DecimalAssumption
  <2>2. m \in Nat /\ e \in Int /\ e - 0 = e
    BY <1>3
  <2> HIDE DEF m, e
  <2>3. CASE m = 0
    BY <2>3, SameFormat DEF SameMagnitude, m, e
  <2>4. CASE m # 0
    <3>1. SameMagnitude(m, e, m * Pow10[0], e - 0)
      BY <2>1, <2>2, <2>4, SameNumber
    <3>2. m * Pow10[0] = m
      BY <2>1, <2>2
    <3> QED
      BY <2>2, <3>1, <3>2, SameFormat DEF m, e
  <2> QED
    BY <2>3, <2>4
<1>6. /\ res.flags \subseteq {"INEXACT", "OVERFLOW", "UNDERFLOW"}
      /\ ("OVERFLOW" \in res.flags) <=> r.past
      /\ ("INEXACT" \in res.flags) <=> (res.tern # 0 /\ ~r.past)
  BY <1>1
<1> HIDE DEF r, d
<1>7. /\ d.sign = r.sign
      /\ IF r.inf THEN d.kind = "INF"
         ELSE d.kind = "FIN" /\ API!SameMagnitude(d.mant, d.exp, r.mant, r.exp)
  BY <1>1, <1>4, <1>5
<1>8. API!IsRounded(v, rnd, d, res.tern, res.flags)
  BY <1>1, <1>2, <1>6, <1>7 DEF API!IsRounded
<1> QED
  BY <1>8 DEF d

\* A call that is not excused delivers a nonzero exact value rounded.
LEMMA HonestIsPromised ==
  ASSUME NEW v, Measurable(v), v.n # 0, NEW x \in Impl, Fitted(x), x.special # "ZERO",
         NEW rem \in Nat, Honest(v, x, rem), NEW rnd \in Rnd, ~(rnd = "RNDNA" /\ rem % 16 \in 5..9)
  PROVE  LET r == Round(x, rem, rnd)
         IN  API!IsRounded(v, rnd, Compress(r.x), r.tern, r.flags)
<1> DEFINE r == Round(x, rem, rnd)
<1>1. x.special = "NUMBER" /\ Canonical(x.mant, x.exp) /\ x.sign = v.sign
  BY DEF Fitted, Honest
<1>2. r.x \in Impl
  <2>1. InRange(x)
    BY <1>1 DEF InRange, Canonical
  <2> QED
    BY <2>1, RoundType DEF InRange
<1>3. RoundsAs(v, rnd, r)
  <2>1. CASE rem = TotalOverflow
    <3>1. Rounded(v, "RNDZ").past /\ x.mant = MaxMant /\ x.exp = EMax
      BY <2>1 DEF Honest
    <3>2. v.sign \in Sign
      BY DEF Measurable
    <3> QED
      BY <1>1, <2>1, <3>1, <3>2, OverflowIsRounded
  <2>2. CASE rem = TotalUnderflow
    BY <2>2 DEF Honest, TotalOverflow, TotalUnderflow
  <2>3. CASE rem # TotalOverflow /\ rem # TotalUnderflow
    <3>1. RemClass(rem) # "OUT" /\ Position(v, x.mant, x.exp) = RemClass(rem)
      BY <2>3 DEF Honest
    <3> QED
      BY <1>1, <3>1, RoundIsRounded
  <2> QED
    BY <2>1, <2>2, <2>3
<1> HIDE DEF r
<1>4. API!IsRounded(v, rnd, Compress(r.x), r.tern, r.flags)
  BY <1>2, <1>3, RoundedIsPromised
<1> QED
  BY <1>4 DEF r

\* An exact zero is rounded to a zero of the sign that the mode asks for.
LEMMA ZeroIsPromised ==
  ASSUME NEW x \in Impl, x.special = "ZERO", NEW rem, NEW rnd,
         NEW s, s = IF rnd = "RNDD" THEN -1 ELSE 1
  PROVE  LET r == Round(x, rem, rnd)
         IN  /\ API!IsZeroOf(s, Compress(r.x)) /\ API!Silent(r.tern, r.flags)
<1>1. SignOfZero(x, rnd) = [x EXCEPT !.sign = s]
  BY DEF SignOfZero
<1>2. /\ [x EXCEPT !.sign = s].special = "ZERO" /\ [x EXCEPT !.sign = s].sign = s /\ s \in Sign
  BY DEF Impl, Sign
<1>3. RoundAction(x, rem, rnd) = "RZERO" /\ RoundFlags(x, rem) = {}
  BY DEF RoundAction, RoundFlags
<1>4. Round(x, rem, rnd) = [x |-> [x EXCEPT !.sign = s], tern |-> 0, flags |-> {}]
  BY <1>1, <1>3 DEF Round
<1>5. Compress([x EXCEPT !.sign = s]) = [kind |-> "FIN", mant |-> 0, exp |-> 0, sign |-> s]
  BY <1>2 DEF Compress
<1>6. API!IsZeroOf(s, Compress([x EXCEPT !.sign = s])) /\ API!Silent(0, {})
  BY <1>2, <1>5, SpecialsArePromised
<1> QED
  BY <1>4, <1>6

-----------------------------------------------------------------------------
(* The exact results of calls can be measured                               *)

LEMMA BoundedIsMeasurable ==
  ASSUME NEW v, v.sign \in Sign, v.n \in Nat, v.d \in Nat \ {0}, v.e \in Int, v.n \div v.d # 0,
         NEW k \in 0..MaxShift, v.n \div v.d < Pow10[k],
         k + MaxOf(v.e - EMin, 0) <= MaxShift, P + MaxOf(EMax - v.e, 0) <= MaxShift
  PROVE  Measurable(v)
<1> DEFINE m == v.n \div v.d
           j == Digits(m)
<1>1. m \in Nat
  BY DivMod
<1>2. m < Pow10[MaxShift] /\ m < Pow10[k] /\ m # 0
  BY <1>1, FitsTable
<1>3. IsDigits(j, m)
  <2> HIDE DEF m
  <2> QED
    BY <1>1, <1>2, DigitsMeaning
<1> HIDE DEF m, j
<1>4. j \in 1..MaxShift /\ (j = 1 \/ Pow10[j-1] <= m) /\ MaxShift \in Nat
  BY <1>3, DecimalAssumption DEF IsDigits
<1>5. j <= k
  <2>1. j - 1 \in 0..MaxShift
    BY <1>4
  <2>2. Pow10[j-1] \in Nat /\ Pow10[k] \in Nat /\ Pow10[0] = 1
    BY <2>1, PowerType, DecimalAssumption
  <2>3. Pow10[j-1] < Pow10[k]
    <3>1. j = 1 => Pow10[j-1] = 1
      BY <2>2
    <3> QED
      BY <1>1, <1>2, <1>4, <2>2, <3>1
  <2>4. j - 1 < k
    BY <2>1, <2>3, PowerOrder
  <2> QED
    BY <1>4, <2>4
<1>6. j + MaxOf(v.e - EMin, 0) <= MaxShift
  <2>1. MaxOf(v.e - EMin, 0) \in Int
    BY Bounds DEF MaxOf
  <2> QED
    BY <1>4, <1>5, <2>1
<1> QED
  BY <1>2, <1>6 DEF Measurable, m, j

LEMMA ProductBelow ==
  ASSUME NEW x \in Nat, NEW y \in Nat, NEW i \in Nat, NEW j \in Nat, i + j <= MaxShift,
         x < Pow10[i], y <= Pow10[j]
  PROVE  x * y \in Nat /\ x * y < Pow10[i + j]
<1> DEFINE u == Pow10[i]
           w == Pow10[j]
<1>1. i \in 0..MaxShift /\ j \in 0..MaxShift
  BY TableIndex
<1>2. u \in Nat \ {0} /\ w \in Nat \ {0}
  BY <1>1, PowerType
<1>3. Pow10[i + j] = u * w
  BY PowerSum
<1>4. x < u /\ y <= w
  OBVIOUS
<1> HIDE DEF u, w
<1>5. x * y <= x * w
  <2>1. y * x <= w * x
    BY <1>2, <1>4, TimesMonotonic
  <2> QED
    BY <1>2, <2>1
<1>6. (x + 1) * w <= u * w
  BY <1>2, <1>4, TimesMonotonic
<1>7. (x + 1) * w = x * w + w /\ x * w \in Nat /\ x * y \in Nat /\ u * w \in Nat
  BY <1>2
<1>8. x * y < u * w
  BY <1>2, <1>5, <1>6, <1>7
<1> QED
  BY <1>3, <1>7, <1>8

\* The facts on a library operand in the form that the lemmas below need.
LEMMA OperandFacts ==
  ASSUME NEW a \in Operand
  PROVE  /\ a.sign \in Sign /\ a.mant \in Nat \ {0} /\ a.mant < Pow10[P]
         /\ a.exp \in Int /\ EMin <= a.exp /\ a.exp <= EMax
<1>1. a.mant \in 0..(Pow10[P] - 1) /\ a.mant # 0 /\ a.exp \in EMin..EMax /\ a.sign \in Sign
  BY DEF Operand, Expanded, InRange, Impl, MaxMant
<1>2. Pow10[P] \in Nat
  BY Format
<1> QED
  BY <1>1, <1>2, Bounds

LEMMA ProductMeasurable ==
  ASSUME Reach, NEW a \in Operand, NEW b \in Operand
  PROVE  Measurable(ExactProduct(a, b)) /\ ExactProduct(a, b).n # 0
<1> DEFINE v == ExactProduct(a, b)
           m == a.mant
           n == b.mant
<1>1. v.sign = a.sign * b.sign /\ v.n = m * n /\ v.d = 1 /\ v.e = a.exp + b.exp
  BY DEF ExactProduct, Exact
<1>2. /\ m \in Nat \ {0} /\ m < Pow10[P] /\ n \in Nat \ {0} /\ n < Pow10[P]
      /\ a.exp \in Int /\ EMin <= a.exp /\ a.exp <= EMax
      /\ b.exp \in Int /\ EMin <= b.exp /\ b.exp <= EMax /\ a.sign \in Sign /\ b.sign \in Sign
  BY OperandFacts
<1>3. v.sign \in Sign
  BY <1>1, <1>2, SignTimes
<1>4. P \in Nat /\ P + P <= MaxShift /\ P + P \in 0..MaxShift
  BY Bounds DEF Reach
<1>5. m * n \in Nat \ {0} /\ m * n < Pow10[P + P]
  <2> HIDE DEF m, n
  <2>1. Pow10[P] \in Nat
    BY Format
  <2>2. m * n \in Nat /\ m * n < Pow10[P + P]
    BY <1>2, <1>4, <2>1, ProductBelow
  <2> QED
    BY <1>2, <2>2
<1>6. v.n \in Nat \ {0} /\ v.n \div v.d = v.n
  <2>1. \A i \in Nat : i \div 1 = i
    OBVIOUS
  <2> QED
    BY <1>1, <1>5, <2>1
<1>7. v.e \in Int /\ 2 * EMin <= v.e /\ v.e <= 2 * EMax
  BY <1>1, <1>2, Bounds
<1> HIDE DEF v, m, n
<1>8. (P + P) + MaxOf(v.e - EMin, 0) <= MaxShift /\ P + MaxOf(EMax - v.e, 0) <= MaxShift
  BY <1>4, <1>7, Bounds DEF MaxOf, Reach
<1>9. Measurable(v)
  <2>1. v.n \div v.d # 0 /\ v.n \div v.d < Pow10[P + P] /\ v.d \in Nat \ {0} /\ v.n \in Nat
    BY <1>1, <1>5, <1>6
  <2> QED
    BY <1>3, <1>4, <1>7, <1>8, <2>1, BoundedIsMeasurable
<1> QED
  BY <1>6, <1>9 DEF v

LEMMA QuotientMeasurable ==
  ASSUME Reach, NEW a \in Operand, NEW b \in Operand
  PROVE  Measurable(ExactQuotient(a, b)) /\ ExactQuotient(a, b).n # 0
<1> DEFINE v == ExactQuotient(a, b)
           m == a.mant
           d == b.mant
           t == Pow10[2 * P]
           n == m * t
<1>1. v.sign = a.sign * b.sign /\ v.n = n /\ v.d = d /\ v.e = a.exp - b.exp - 2 * P
  BY DEF ExactQuotient, Exact
<1>2. /\ m \in Nat \ {0} /\ m < Pow10[P] /\ d \in Nat \ {0} /\ d < Pow10[P]
      /\ a.exp \in Int /\ EMin <= a.exp /\ a.exp <= EMax
      /\ b.exp \in Int /\ EMin <= b.exp /\ b.exp <= EMax /\ a.sign \in Sign /\ b.sign \in Sign
  BY OperandFacts
<1>3. v.sign \in Sign
  BY <1>1, <1>2, SignTimes
<1>4. P \in Nat /\ 2 * P \in Nat /\ P + 2 * P <= MaxShift /\ P + 2 * P \in 0..MaxShift /\ 2 * P \in 0..MaxShift
  BY Bounds DEF Reach
<1>5. t \in Nat \ {0} /\ Pow10[P] \in Nat /\ Pow10[P] <= t
  <2>1. P \in 0..MaxShift /\ P <= 2 * P
    BY <1>4, Bounds
  <2> QED
    BY <1>4, <2>1, PowerType, PowerOrder
<1>6. n \in Nat /\ n < Pow10[P + 2 * P]
  <2> HIDE DEF m
  <2> QED
    BY <1>2, <1>4, <1>5, ProductBelow
<1>7. d <= n
  <2> HIDE DEF m, d, t
  <2>1. 1 * t <= m * t
    BY <1>2, <1>5, TimesMonotonic
  <2> QED
    BY <1>2, <1>5, <1>6, <2>1
<1>8. n \div d # 0 /\ n \div d < Pow10[P + 2 * P]
  <2>1. Pow10[P + 2 * P] \in Nat
    BY <1>4, PowerType
  <2> HIDE DEF n, d
  <2>2. n \div d \in Nat /\ n % d \in 0..(d - 1) /\ ((n \div d) * d) + (n % d) = n /\ n \div d <= n
    BY <1>2, <1>6, DivMod
  <2>3. n \div d = 0 => (n \div d) * d = 0
    BY <1>2
  <2> QED
    BY <1>2, <1>6, <1>7, <2>1, <2>2, <2>3
<1>9. n # 0
  BY <1>2, <1>7
<1>10. v.e \in Int /\ EMin - EMax - 2 * P <= v.e /\ v.e <= EMax - EMin - 2 * P
  BY <1>1, <1>2, <1>4, Bounds
<1> HIDE DEF v, n, d
<1>11. (P + 2 * P) + MaxOf(v.e - EMin, 0) <= MaxShift /\ P + MaxOf(EMax - v.e, 0) <= MaxShift
  BY <1>4, <1>10, Bounds DEF MaxOf, Reach
<1>12. Measurable(v)
  <2>1. v.n \div v.d # 0 /\ v.n \div v.d < Pow10[P + 2 * P] /\ v.d \in Nat \ {0} /\ v.n \in Nat
    BY <1>1, <1>2, <1>6, <1>8
  <2> QED
    BY <1>3, <1>4, <1>10, <1>11, <2>1, BoundedIsMeasurable
<1> QED
  BY <1>1, <1>9, <1>12 DEF v

\* A factor of a sum: an operand, or the product of two.
Summand(x) ==
  /\ x.sign \in Sign /\ x.mant \in Nat \ {0} /\ x.mant < Pow10[2 * P]
  /\ x.exp \in Int /\ 2 * EMin <= x.exp /\ x.exp <= 2 * EMax

LEMMA SumMeasurable ==
  ASSUME Reach, NEW x, Summand(x), NEW y, Summand(y)
  PROVE  /\ ExactSum(x, y).n # 0 => Measurable(ExactSum(x, y))
         /\ ExactSum(x, y).n = 0 => x.sign # y.sign
<1> DEFINE v == ExactSum(x, y)
           q == MinOf(x.exp, y.exp)
           k == MaxOf(x.exp, y.exp) - q
           i == x.exp - q
           j == y.exp - q
           tx == x.mant * Pow10[i]
           ty == y.mant * Pow10[j]
           b == 2 * P + k
           t == x.sign * x.mant * Pow10[i] + y.sign * y.mant * Pow10[j]
<1>1. /\ x.sign \in {-1, 1} /\ x.mant \in Nat \ {0} /\ x.mant < Pow10[2 * P]
      /\ y.sign \in {-1, 1} /\ y.mant \in Nat \ {0} /\ y.mant < Pow10[2 * P]
      /\ x.exp \in Int /\ 2 * EMin <= x.exp /\ x.exp <= 2 * EMax
      /\ y.exp \in Int /\ 2 * EMin <= y.exp /\ y.exp <= 2 * EMax
  BY DEF Summand, Sign
<1>2. /\ q \in Int /\ 2 * EMin <= q /\ q <= 2 * EMax /\ i \in Nat /\ j \in Nat /\ k \in Nat
      /\ i <= k /\ j <= k /\ k + q <= 2 * EMax /\ k + q \in Int
  BY <1>1, Bounds DEF MinOf, MaxOf
<1>3. /\ P \in Nat /\ 2 * P \in Nat /\ b \in Nat /\ b + 1 \in 0..MaxShift /\ b \in 0..MaxShift
      /\ 2 * P + i <= b /\ 2 * P + j <= b /\ b < MaxShift /\ 2 * P + i \in 0..MaxShift /\ 2 * P + j \in 0..MaxShift
      /\ i \in 0..MaxShift /\ j \in 0..MaxShift
  <2> HIDE DEF q, k, i, j
  <2> QED
    BY <1>2, Bounds DEF Reach
<1> HIDE DEF q, k, i, j
<1>4. Pow10[i] \in Nat \ {0} /\ Pow10[j] \in Nat \ {0} /\ Pow10[b] \in Nat \ {0}
  BY <1>3, PowerType
<1>5. tx \in Nat \ {0} /\ tx < Pow10[b]
  <2>1. tx \in Nat /\ tx < Pow10[2 * P + i]
    <3> DEFINE m == x.mant
               w == Pow10[i]
               a == 2 * P
    <3>1. a \in Nat /\ i \in Nat /\ a + i <= MaxShift
      BY <1>2, <1>3
    <3>2. m \in Nat /\ w \in Nat /\ m < Pow10[a] /\ w <= Pow10[i]
      BY <1>1, <1>4
    <3> HIDE DEF m, w, a
    <3>3. m * w \in Nat /\ m * w < Pow10[a + i]
      BY <3>1, <3>2, ProductBelow
    <3> QED
      BY <3>3 DEF m, w, a
  <2>2. Pow10[2 * P + i] <= Pow10[b] /\ Pow10[2 * P + i] \in Nat
    BY <1>3, PowerOrder, PowerType
  <2>3. tx # 0
    BY <1>1, <1>4
  <2> HIDE DEF tx
  <2> QED
    BY <1>4, <2>1, <2>2, <2>3
<1>6. ty \in Nat \ {0} /\ ty < Pow10[b]
  <2>1. ty \in Nat /\ ty < Pow10[2 * P + j]
    <3> DEFINE m == y.mant
               w == Pow10[j]
               a == 2 * P
    <3>1. a \in Nat /\ j \in Nat /\ a + j <= MaxShift
      BY <1>2, <1>3
    <3>2. m \in Nat /\ w \in Nat /\ m < Pow10[a] /\ w <= Pow10[j]
      BY <1>1, <1>4
    <3> HIDE DEF m, w, a
    <3>3. m * w \in Nat /\ m * w < Pow10[a + j]
      BY <3>1, <3>2, ProductBelow
    <3> QED
      BY <3>3 DEF m, w, a
  <2>2. Pow10[2 * P + j] <= Pow10[b] /\ Pow10[2 * P + j] \in Nat
    BY <1>3, PowerOrder, PowerType
  <2>3. ty # 0
    BY <1>1, <1>4
  <2> HIDE DEF ty
  <2> QED
    BY <1>4, <2>1, <2>2, <2>3
<1>7. /\ x.sign * x.mant * Pow10[i] = IF x.sign = 1 THEN tx ELSE -tx
      /\ y.sign * y.mant * Pow10[j] = IF y.sign = 1 THEN ty ELSE -ty
  BY <1>1, <1>4
<1>8. t = (IF x.sign = 1 THEN tx ELSE -tx) + (IF y.sign = 1 THEN ty ELSE -ty)
  BY <1>7
<1>9. v = Exact(IF t < 0 THEN -1 ELSE 1, IF t < 0 THEN -t ELSE t, 1, q)
  BY DEF ExactSum, q, i, j
<1> HIDE DEF t, tx, ty
<1>10. /\ t \in Int /\ -(2 * Pow10[b]) < t /\ t < 2 * Pow10[b]
       /\ t = 0 => x.sign # y.sign
  BY <1>1, <1>4, <1>5, <1>6, <1>8
<1>11. v.sign \in Sign /\ v.n = (IF t < 0 THEN -t ELSE t) /\ v.d = 1 /\ v.e = q
  BY <1>9 DEF Exact, Sign
<1>12. v.n \in Nat /\ (v.n = 0 <=> t = 0) /\ v.n < Pow10[b + 1] /\ v.n \div v.d = v.n
  <2>1. Pow10[b + 1] = 10 * Pow10[b]
    BY <1>3, PowerStep
  <2>2. \A n \in Nat : n \div 1 = n
    OBVIOUS
  <2>3. v.n \in Nat /\ (v.n = 0 <=> t = 0) /\ v.n < 2 * Pow10[b]
    BY <1>4, <1>10, <1>11
  <2> HIDE DEF v
  <2> QED
    BY <1>4, <1>11, <2>1, <2>2, <2>3
<1> HIDE DEF v
<1>13. (b + 1) + MaxOf(v.e - EMin, 0) <= MaxShift /\ P + MaxOf(EMax - v.e, 0) <= MaxShift
  BY <1>2, <1>3, <1>11, Bounds DEF MaxOf, Reach
<1>14. v.n # 0 => Measurable(v)
  <2> SUFFICES ASSUME v.n # 0 PROVE Measurable(v)
    OBVIOUS
  <2>1. v.n \div v.d # 0 /\ v.n \div v.d < Pow10[b + 1] /\ v.d \in Nat \ {0} /\ v.n \in Nat /\ v.e \in Int
    BY <1>2, <1>11, <1>12
  <2> QED
    BY <1>3, <1>11, <1>13, <2>1, BoundedIsMeasurable
<1>15. v.n = 0 => x.sign # y.sign
  BY <1>10, <1>12
<1> QED
  BY <1>14, <1>15 DEF v

-----------------------------------------------------------------------------
(* The promise, by the operation                                            *)

LEMMA PromiseRules ==
  ASSUME NEW c, NEW m, NEW d, NEW t, NEW f,
         NEW A, A = Expand(m[c.a]), NEW B, B = Expand(m[c.b]), NEW C, C = Expand(m[c.c])
  PROVE  LET promised == API!Promised(c, m, d, t, f)
             X == Val(A)
             Y == Val(B)
             Z == Val(C)
             invalid == API!Times(X, Y).class = "INVALID"
         IN  /\ c.op # "FMA" /\ (NaN(A) \/ NaN(B)) /\ API!PropagatesNaN({X, Y}, d, t, f) => promised
             /\ c.op # "FMA" /\ ~NaN(A) /\ ~NaN(B) =>
                  /\ c.op = "ADD" /\ API!IsSum(X, Y, c.rnd, d, t, f) => promised
                  /\ c.op = "SUB" /\ API!IsSum(X, API!Opposite(Y), c.rnd, d, t, f) => promised
                  /\ c.op = "MUL" /\ API!IsProduct(X, Y, c.rnd, d, t, f) => promised
                  /\ c.op = "DIV" /\ API!IsQuotient(X, Y, c.rnd, d, t, f) => promised
             /\ c.op = "FMA" /\ invalid /\ API!IsInvalid(d, t, f) => promised
             /\ c.op = "FMA" /\ ~invalid /\ (NaN(A) \/ NaN(B) \/ NaN(C))
                  /\ API!PropagatesNaN({X, Y, Z}, d, t, f) => promised
             /\ c.op = "FMA" /\ ~invalid /\ ~NaN(A) /\ ~NaN(B) /\ ~NaN(C)
                  /\ API!IsSum(API!Times(X, Y), Z, c.rnd, d, t, f) => promised
<1> DEFINE X == Val(A)
           Y == Val(B)
           Z == Val(C)
           operands == IF c.op = "FMA" THEN {X, Y, Z} ELSE {X, Y}
           invalid == API!Times(X, Y).class = "INVALID"
           promised == API!Promised(c, m, d, t, f)
<1>1. API!Ext(m[c.a]) = X /\ API!Ext(m[c.b]) = Y /\ API!Ext(m[c.c]) = Z
  BY ExtOfDatum
<1>2. (API!IsNaN(X) <=> NaN(A)) /\ (API!IsNaN(Y) <=> NaN(B)) /\ (API!IsNaN(Z) <=> NaN(C))
  BY DEF API!IsNaN, NaN, Val
<1> HIDE DEF X, Y, Z
<1>3. promised <=>
        CASE c.op = "FMA" /\ invalid -> API!IsInvalid(d, t, f)
          [] (\E o \in operands : API!IsNaN(o)) /\ ~(c.op = "FMA" /\ invalid) ->
               API!PropagatesNaN(operands, d, t, f)
          [] OTHER ->
               CASE c.op = "ADD" -> API!IsSum(X, Y, c.rnd, d, t, f)
                 [] c.op = "SUB" -> API!IsSum(X, API!Opposite(Y), c.rnd, d, t, f)
                 [] c.op = "MUL" -> API!IsProduct(X, Y, c.rnd, d, t, f)
                 [] c.op = "DIV" -> API!IsQuotient(X, Y, c.rnd, d, t, f)
                 [] c.op = "FMA" -> API!IsSum(API!Times(X, Y), Z, c.rnd, d, t, f)
  BY <1>1 DEF API!Promised
<1> HIDE DEF invalid, promised
<1>4. ASSUME c.op # "FMA"
      PROVE  /\ (NaN(A) \/ NaN(B)) /\ API!PropagatesNaN({X, Y}, d, t, f) => promised
             /\ ~NaN(A) /\ ~NaN(B) =>
                  /\ c.op = "ADD" /\ API!IsSum(X, Y, c.rnd, d, t, f) => promised
                  /\ c.op = "SUB" /\ API!IsSum(X, API!Opposite(Y), c.rnd, d, t, f) => promised
                  /\ c.op = "MUL" /\ API!IsProduct(X, Y, c.rnd, d, t, f) => promised
                  /\ c.op = "DIV" /\ API!IsQuotient(X, Y, c.rnd, d, t, f) => promised
  <2>1. operands = {X, Y} /\ ((\E o \in operands : API!IsNaN(o)) <=> NaN(A) \/ NaN(B))
    BY <1>2, <1>4
  <2> HIDE DEF operands
  <2> QED
    BY <1>3, <1>4, <2>1
<1>5. ASSUME c.op = "FMA"
      PROVE  /\ invalid /\ API!IsInvalid(d, t, f) => promised
             /\ ~invalid /\ (NaN(A) \/ NaN(B) \/ NaN(C))
                  /\ API!PropagatesNaN({X, Y, Z}, d, t, f) => promised
             /\ ~invalid /\ ~NaN(A) /\ ~NaN(B) /\ ~NaN(C)
                  /\ API!IsSum(API!Times(X, Y), Z, c.rnd, d, t, f) => promised
  <2>1. operands = {X, Y, Z} /\ ((\E o \in operands : API!IsNaN(o)) <=> NaN(A) \/ NaN(B) \/ NaN(C))
    BY <1>2, <1>5
  <2> HIDE DEF operands
  <2> QED
    BY <1>3, <1>5, <2>1
<1> QED
  BY <1>4, <1>5 DEF invalid, promised, X, Y, Z

\* x and rem are what the library made of the exact value v, and the call that
\* rounds them in the mode rnd needs no excuse.
Unexcused(v, x, rem, rnd) ==
  /\ x \in Impl /\ Fitted(x) /\ rem \in Nat /\ Honest(v, x, rem)
  /\ ~(v.n # 0 /\ x.special = "ZERO")
  /\ rnd \in Rnd /\ ~(rnd = "RNDNA" /\ rem % 16 \in 5..9)

LEMMA RoundedValuePromised ==
  ASSUME NEW v, NEW x, NEW rem, NEW rnd, Unexcused(v, x, rem, rnd), Measurable(v), v.n # 0
  PROVE  LET r == Round(x, rem, rnd)
         IN  API!IsRounded(v, rnd, Compress(r.x), r.tern, r.flags)
<1>1. /\ x \in Impl /\ Fitted(x) /\ rem \in Nat /\ Honest(v, x, rem) /\ x.special # "ZERO"
      /\ rnd \in Rnd /\ ~(rnd = "RNDNA" /\ rem % 16 \in 5..9)
  BY DEF Unexcused
<1> QED
  BY <1>1, HonestIsPromised

LEMMA SumPromised ==
  ASSUME Reach, NEW X, Summand(X), X.class = "NUMBER", NEW Y, Summand(Y), Y.class = "NUMBER",
         NEW x, NEW rem, NEW rnd, Unexcused(ExactSum(X, Y), x, rem, rnd)
  PROVE  LET r == Round(x, rem, rnd)
         IN  API!IsSum(X, Y, rnd, Compress(r.x), r.tern, r.flags)
<1> DEFINE v == ExactSum(X, Y)
           r == Round(x, rem, rnd)
           s == IF rnd = "RNDD" THEN -1 ELSE 1
           d == Compress(r.x)
<1>1. API!ExactSum(X, Y) = v
  BY SameFormat
<1>2. CASE v.n # 0
  <2>1. Measurable(v)
    BY <1>2, SumMeasurable
  <2>2. API!IsRounded(v, rnd, d, r.tern, r.flags)
    BY <1>2, <2>1, RoundedValuePromised
  <2> HIDE DEF v, r, d
  <2>3. API!IsSum(X, Y, rnd, d, r.tern, r.flags)
    BY <1>1, <1>2, <2>2 DEF API!IsSum
  <2> QED
    BY <2>3 DEF r, d
<1>3. CASE v.n = 0
  <2>1. X.sign # Y.sign
    BY <1>3, SumMeasurable
  <2>2. x \in Impl /\ x.special = "ZERO"
    BY <1>3 DEF Unexcused, Honest
  <2>3. API!IsZeroOf(s, d) /\ API!Silent(r.tern, r.flags)
    BY <2>2, ZeroIsPromised
  <2> HIDE DEF v, r, d
  <2>4. API!IsSum(X, Y, rnd, d, r.tern, r.flags)
    BY <1>1, <1>3, <2>1, <2>3 DEF API!IsSum
  <2> QED
    BY <2>4 DEF r, d
<1> QED
  BY <1>2, <1>3

\* The exact value of the call c on the numbers A, B and C.
Computes(c, A, B, C, v) ==
  /\ A.special = "NUMBER" /\ B.special = "NUMBER"
  /\ \/ c.op \in {"ADD", "SUB"} /\ v = ExactSum(A, [B EXCEPT !.sign = Sgn(c.op) * @])
     \/ c.op = "MUL" /\ v = ExactProduct(A, B)
     \/ c.op = "DIV" /\ v = ExactQuotient(A, B)
     \/ /\ c.op = "FMA" /\ C.special = "NUMBER"
        /\ v = ExactSum([A EXCEPT !.mant = @ * B.mant, !.exp = @ + B.exp, !.sign = @ * B.sign], C)

LEMMA OperandSummand ==
  ASSUME Reach, NEW a \in Operand, NEW s \in Sign, NEW x,
         x.sign = s * a.sign, x.mant = a.mant, x.exp = a.exp
  PROVE  Summand(x)
<1>1. /\ a.sign \in Sign /\ a.mant \in Nat \ {0} /\ a.mant < Pow10[P]
      /\ a.exp \in Int /\ EMin <= a.exp /\ a.exp <= EMax
  BY OperandFacts
<1>2. x.sign \in Sign
  BY <1>1, SignTimes
<1>3. P \in 0..MaxShift /\ 2 * P \in 0..MaxShift /\ P <= 2 * P
  BY Bounds DEF Reach
<1>4. Pow10[P] <= Pow10[2 * P] /\ Pow10[2 * P] \in Nat /\ Pow10[P] \in Nat
  BY <1>3, PowerOrder, PowerType
<1>5. a.mant < Pow10[2 * P]
  BY <1>1, <1>4
<1> QED
  BY <1>1, <1>2, <1>5, Bounds DEF Summand

LEMMA ProductSummand ==
  ASSUME Reach, NEW a \in Operand, NEW b \in Operand, NEW x,
         x.sign = a.sign * b.sign, x.mant = a.mant * b.mant, x.exp = a.exp + b.exp
  PROVE  Summand(x)
<1> DEFINE m == a.mant
           n == b.mant
<1>1. /\ a.sign \in Sign /\ m \in Nat \ {0} /\ m < Pow10[P]
      /\ a.exp \in Int /\ EMin <= a.exp /\ a.exp <= EMax
      /\ b.sign \in Sign /\ n \in Nat \ {0} /\ n < Pow10[P]
      /\ b.exp \in Int /\ EMin <= b.exp /\ b.exp <= EMax
  BY OperandFacts
<1>2. x.sign \in Sign
  BY <1>1, SignTimes
<1>3. P \in Nat /\ P + P <= MaxShift /\ P + P = 2 * P
  BY Bounds DEF Reach
<1>4. x.mant \in Nat \ {0} /\ x.mant < Pow10[2 * P]
  <2>1. x.mant = m * n
    OBVIOUS
  <2> HIDE DEF m, n
  <2>2. Pow10[P] \in Nat
    BY Format
  <2>3. m * n \in Nat /\ m * n < Pow10[P + P]
    BY <1>1, <1>3, <2>2, ProductBelow
  <2> QED
    BY <1>1, <1>3, <2>1, <2>3
<1> QED
  BY <1>1, <1>2, <1>4, Bounds DEF Summand

LEMMA SumOfSame ==
  ASSUME NEW a, NEW b, NEW x, NEW y,
         x.sign = a.sign, x.mant = a.mant, x.exp = a.exp,
         y.sign = b.sign, y.mant = b.mant, y.exp = b.exp
  PROVE  ExactSum(x, y) = ExactSum(a, b)
BY DEF ExactSum

LEMMA OperandOf ==
  ASSUME NEW a, FromDatum(a), a.special = "NUMBER"
  PROVE  /\ a \in Operand /\ ~NaN(a) /\ a.sign \in Sign
         /\ Val(a) = [class |-> "NUMBER", sign |-> a.sign, mant |-> a.mant, exp |-> a.exp]
BY OperandIs DEF FromDatum, NaN, Val, Impl

\* A call that is not excused keeps the promise when it rounds.
LEMMA ComputedIsPromised ==
  ASSUME Reach, NEW c, c.op \in Binary \cup {"FMA"}, NEW m,
         NEW A, A = Expand(m[c.a]), FromDatum(A),
         NEW B, B = Expand(m[c.b]), FromDatum(B),
         NEW C, C = Expand(m[c.c]), FromDatum(C),
         NEW v, Computes(c, A, B, C, v),
         NEW x, NEW rem, Unexcused(v, x, rem, c.rnd)
  PROVE  LET r == Round(x, rem, c.rnd)
         IN  API!Promised(c, m, Compress(r.x), r.tern, r.flags)
<1> DEFINE r == Round(x, rem, c.rnd)
           d == Compress(r.x)
           X == Val(A)
           Y == Val(B)
           Z == Val(C)
<1>1. A.special = "NUMBER" /\ B.special = "NUMBER"
  BY DEF Computes
<1>2. /\ A \in Operand /\ ~NaN(A) /\ A.sign \in Sign
      /\ X = [class |-> "NUMBER", sign |-> A.sign, mant |-> A.mant, exp |-> A.exp]
      /\ B \in Operand /\ ~NaN(B) /\ B.sign \in Sign
      /\ Y = [class |-> "NUMBER", sign |-> B.sign, mant |-> B.mant, exp |-> B.exp]
  BY <1>1, OperandOf
<1>3. 1 \in Sign /\ -1 \in Sign
  BY DEF Sign
<1>4. X.class = "NUMBER" /\ X.sign = 1 * A.sign /\ X.mant = A.mant /\ X.exp = A.exp
  BY <1>2, SignTimes
<1>5. Y.class = "NUMBER" /\ Y.sign = 1 * B.sign /\ Y.mant = B.mant /\ Y.exp = B.exp
  BY <1>2, SignTimes
<1>6. Summand(X)
  BY <1>2, <1>3, <1>4, OperandSummand
<1> HIDE DEF X, Y, Z, r, d
<1>7. CASE c.op = "ADD"
  <2>1. Summand(Y)
    BY <1>2, <1>3, <1>5, OperandSummand
  <2>2. v = ExactSum(A, [B EXCEPT !.sign = 1 * B.sign])
    BY <1>7 DEF Computes, Sgn
  <2>3. [B EXCEPT !.sign = 1 * B.sign] = [mant |-> B.mant, exp |-> B.exp, sign |-> 1 * B.sign, special |-> B.special]
    BY <1>2 DEF Operand, Impl
  <2>4. ExactSum(X, Y) = v
    BY <1>2, <1>4, <1>5, <2>2, <2>3, SignTimes, <1>3, SumOfSame
  <2>5. API!IsSum(X, Y, c.rnd, d, r.tern, r.flags)
    BY <1>4, <1>5, <1>6, <2>1, <2>4, SumPromised DEF r, d
  <2> QED
    BY <1>2, <1>7, <2>5, PromiseRules DEF X, Y, r, d
<1>8. CASE c.op = "SUB"
  <2> DEFINE O == API!Opposite(Y)
  <2>1. O.class = "NUMBER" /\ O.sign = (-1) * B.sign /\ O.mant = B.mant /\ O.exp = B.exp
    <3>1. O = [class |-> "NUMBER", sign |-> -B.sign, mant |-> B.mant, exp |-> B.exp]
      BY <1>2 DEF API!Opposite, Y
    <3>2. -B.sign = (-1) * B.sign
      BY <1>2 DEF Sign
    <3> QED
      BY <3>1, <3>2
  <2> HIDE DEF O
  <2>2. Summand(O)
    BY <1>2, <1>3, <2>1, OperandSummand
  <2>3. v = ExactSum(A, [B EXCEPT !.sign = (-1) * B.sign])
    BY <1>8 DEF Computes, Sgn
  <2>4. [B EXCEPT !.sign = (-1) * B.sign] = [mant |-> B.mant, exp |-> B.exp, sign |-> (-1) * B.sign, special |-> B.special]
    BY <1>2 DEF Operand, Impl
  <2>5. ExactSum(X, O) = v
    BY <1>2, <1>4, <2>1, <2>3, <2>4, SignTimes, <1>3, SumOfSame
  <2>6. API!IsSum(X, O, c.rnd, d, r.tern, r.flags)
    BY <1>4, <1>6, <2>1, <2>2, <2>5, SumPromised DEF r, d
  <2> QED
    BY <1>2, <1>8, <2>6, PromiseRules DEF X, Y, r, d, O
<1>9. CASE c.op = "MUL"
  <2>1. v = ExactProduct(A, B) /\ Measurable(v) /\ v.n # 0
    BY <1>2, <1>9, ProductMeasurable DEF Computes
  <2>2. API!IsRounded(v, c.rnd, d, r.tern, r.flags)
    BY <2>1, RoundedValuePromised DEF r, d
  <2>3. API!ExactProduct(X, Y) = v
    <3>1. ExactProduct(X, Y) = ExactProduct(A, B)
      BY <1>2 DEF ExactProduct, X, Y
    <3> QED
      BY <2>1, <3>1, SameFormat
  <2>4. API!Times(X, Y).class = "NUMBER"
    BY <1>4, <1>5 DEF API!Times
  <2>5. API!IsProduct(X, Y, c.rnd, d, r.tern, r.flags)
    BY <2>2, <2>3, <2>4 DEF API!IsProduct
  <2> QED
    BY <1>2, <1>9, <2>5, PromiseRules DEF X, Y, r, d
<1>10. CASE c.op = "DIV"
  <2>1. v = ExactQuotient(A, B) /\ Measurable(v) /\ v.n # 0
    BY <1>2, <1>10, QuotientMeasurable DEF Computes
  <2>2. API!IsRounded(v, c.rnd, d, r.tern, r.flags)
    BY <2>1, RoundedValuePromised DEF r, d
  <2>3. API!ExactQuotient(X, Y) = v
    <3>1. ExactQuotient(X, Y) = ExactQuotient(A, B)
      BY <1>2 DEF ExactQuotient, X, Y
    <3> QED
      BY <2>1, <3>1, SameFormat
  <2>4. API!IsQuotient(X, Y, c.rnd, d, r.tern, r.flags)
    BY <1>4, <1>5, <2>2, <2>3 DEF API!IsQuotient
  <2> QED
    BY <1>2, <1>10, <2>4, PromiseRules DEF X, Y, r, d
<1>11. CASE c.op = "FMA"
  <2> DEFINE T == API!Times(X, Y)
             p == [A EXCEPT !.mant = A.mant * B.mant, !.exp = A.exp + B.exp, !.sign = A.sign * B.sign]
  <2>1. C.special = "NUMBER" /\ v = ExactSum(p, C)
    BY <1>11 DEF Computes
  <2>2. /\ C \in Operand /\ ~NaN(C) /\ C.sign \in Sign
        /\ Z = [class |-> "NUMBER", sign |-> C.sign, mant |-> C.mant, exp |-> C.exp]
    BY <2>1, OperandOf DEF Z
  <2>3. Z.class = "NUMBER" /\ Z.sign = 1 * C.sign /\ Z.mant = C.mant /\ Z.exp = C.exp /\ Z.sign = C.sign
    BY <2>2, SignTimes
  <2>4. T.class = "NUMBER" /\ T.sign = A.sign * B.sign /\ T.mant = A.mant * B.mant /\ T.exp = A.exp + B.exp
    BY <1>2 DEF API!Times, X, Y
  <2>5. p.sign = A.sign * B.sign /\ p.mant = A.mant * B.mant /\ p.exp = A.exp + B.exp
    BY <1>2 DEF Operand, Impl
  <2> HIDE DEF T, p
  <2>6. Summand(T) /\ Summand(Z)
    BY <1>2, <1>3, <2>2, <2>3, <2>4, OperandSummand, ProductSummand
  <2>7. ExactSum(T, Z) = v
    BY <2>1, <2>3, <2>4, <2>5, SumOfSame
  <2>8. API!IsSum(T, Z, c.rnd, d, r.tern, r.flags)
    BY <2>3, <2>4, <2>6, <2>7, SumPromised DEF r, d
  <2>9. T.class # "INVALID"
    BY <2>4
  <2> QED
    BY <1>2, <1>11, <2>2, <2>8, <2>9, PromiseRules DEF X, Y, Z, r, d, T
<1>12. c.op \in {"ADD", "SUB", "MUL", "DIV", "FMA"}
  BY DEF Binary
<1> QED
  BY <1>7, <1>8, <1>9, <1>10, <1>11, <1>12 DEF r, d

-----------------------------------------------------------------------------
(* What the concrete state says of the promise at each point of a call.     *)

A0 == Expand(mem[call.a])
B0 == Expand(mem[call.b])
C0 == Expand(mem[call.c])

\* The function that runs: the call itself, or one of the two that fpfd32_fma
\* makes when an operand is not a number.
Own      == act = call
InnerMul == call.op = "FMA" /\ act = [call EXCEPT !.op = "MUL", !.dest = Temp, !.rnd = "RNDZ"]
InnerAdd == call.op = "FMA" /\ act = [call EXCEPT !.op = "ADD", !.a = Temp, !.b = call.c]

\* d and f are what fpfd32_fma's own fpfd32_mul leaves in temp and in the flags:
\* a NaN among the factors, or their product, of which no rounding was needed.
MulDone(A, B, d, f) ==
  IF NaN(A) \/ NaN(B) THEN API!PropagatesNaN({Val(A), Val(B)}, d, 0, f)
  ELSE SpecialDone(API!Times(Val(A), Val(B)), d, f)

\* f: the flags raised so far.
Started(f) ==
  \/ Own /\ f = {}
  \/ InnerMul /\ ~(A0.special = "NUMBER" /\ B0.special = "NUMBER") /\ f = {}
  \/ InnerAdd /\ MulDone(A0, B0, mem[Temp], f)

CallerMem == [s \in Slots |-> mem[s]]

Finished(d, t, f) ==
  IF InnerMul THEN MulDone(A0, B0, d, f) ELSE API!Promised(call, CallerMem, d, t, f)

Loaded == op1 = Expand(mem[act.a]) /\ op2 = Expand(mem[act.b])

\* What the promise needs to know at each point.
Ahead(f) ==
  /\ pc \in {"expand", "fma", "dispatch", "operate", "scale", "round"} => Started(f)
  /\ pc = "fma"      => op1 = A0 /\ op2 = B0 /\ op3 = C0
  /\ pc \in {"dispatch", "operate"} => Loaded
  /\ pc \in {"operate", "scale", "round"} => Own
  /\ pc \in {"scale", "round"} => Computes(call, A0, B0, C0, exact)
  /\ pc = "round" => /\ Honest(exact, rop, FinalRem(rem1, rem2))
                     /\ ~(exact.n # 0 /\ rop.special = "ZERO")
  /\ pc = "compress" => Finished(Compress(Chosen), tern, f)

Raised(f) == flags = IF call.fp THEN flags0 \cup f ELSE flags0

\* The invariant of the refinement.
Link ==
  /\ pc = "idle" => call = NoCall /\ excuse = {}
  /\ pc # "idle" =>
       /\ Own \/ InnerMul \/ InnerAdd
       /\ \E f \in SUBSET Flag : Raised(f) /\ (excuse = {} => Ahead(f))

-----------------------------------------------------------------------------
(* The dispatch keeps the promise                                           *)

\* n, d and x: what fpfd_impl_nanprop and the action table of f make of a and b,
\* and what is compressed if the library's operation is not needed.
Dispatched(f, a, b, g, n, d, x) ==
  /\ n = NanProp(a, b)
  /\ d = IF n.src = "OPERATE" THEN SpecialAction(f, a, b, g) ELSE Take(g, n.src)
  /\ x = IF d.src = "LHS" THEN Quieted(a, n.src = "LHS")
         ELSE IF d.src = "RHS" THEN Quieted(b, n.src = "RHS") ELSE d.rop

LEMMA DispatchedNaN ==
  ASSUME PayloadsFit, NEW f, NEW a, FromDatum(a), NEW b, FromDatum(b), NaN(a) \/ NaN(b),
         NEW g, NEW n, NEW d, NEW x, Dispatched(f, a, b, g, n, d, x)
  PROVE  /\ d.src # "OPERATE" /\ d.raise = {}
         /\ API!PropagatesNaN({Val(a), Val(b)}, Compress(x), 0, n.raise)
         /\ Compress(x).kind = "QNAN"
<1> DEFINE y == IF NanProp(a, b).src = "LHS" THEN Quieted(a, TRUE) ELSE Quieted(b, TRUE)
<1>1. /\ NanProp(a, b).src \in {"LHS", "RHS"}
      /\ API!PropagatesNaN({Val(a), Val(b)}, Compress(y), 0, NanProp(a, b).raise)
      /\ Compress(y).kind = "QNAN"
  BY NanOutcome
<1>2. n = NanProp(a, b) /\ d = Take(g, n.src)
  BY <1>1 DEF Dispatched
<1>3. d.src = n.src /\ d.raise = {}
  BY <1>2 DEF Take, Outcome
<1>4. x = y
  BY <1>1, <1>2, <1>3 DEF Dispatched
<1> QED
  BY <1>1, <1>2, <1>3, <1>4

LEMMA DispatchedPlain ==
  ASSUME NEW f, NEW a, ~NaN(a), NEW b, ~NaN(b), NEW g, NEW n, NEW d, NEW x,
         Dispatched(f, a, b, g, n, d, x)
  PROVE  n.src = "OPERATE" /\ n.raise = {} /\ d = SpecialAction(f, a, b, g) /\ x = Picked(d, a, b)
<1>1. n.src = "OPERATE" /\ n.raise = {}
  BY DEF Dispatched, NanProp, NaN
<1>2. d = SpecialAction(f, a, b, g)
  BY <1>1 DEF Dispatched
<1>3. x = Picked(d, a, b)
  BY <1>1 DEF Dispatched, Picked, Quieted
<1> QED
  BY <1>1, <1>2, <1>3

LEMMA LikeVal ==
  ASSUME NEW a, FromDatum(a)
  PROVE  Like(Val(a), a, 1)
<1>1. /\ Val(a).class = a.special /\ Val(a).sign = a.sign /\ Val(a).mant = a.mant /\ Val(a).exp = a.exp
      /\ a.sign \in Sign /\ (a.special = "ZERO" => a.mant = 0 /\ a.exp = 0)
  BY DEF Val, FromDatum, Impl
<1> QED
  BY <1>1, SignTimes, Format DEF Like

LEMMA LikeOpposite ==
  ASSUME NEW a, FromDatum(a), NEW s, s = -1
  PROVE  Like(API!Opposite(Val(a)), a, s)
<1> DEFINE O == API!Opposite(Val(a))
<1>1. /\ O = [class |-> a.special, sign |-> -a.sign, mant |-> a.mant, exp |-> a.exp]
      /\ a.sign \in Sign /\ (a.special = "ZERO" => a.mant = 0 /\ a.exp = 0)
  BY DEF API!Opposite, Val, FromDatum, Impl
<1>2. -a.sign = s * a.sign
  BY <1>1 DEF Sign
<1> QED
  BY <1>1, <1>2, Format DEF Like

\* A call that dispatches to an operand or to a special value delivers it.
LEMMA DispatchIsPromised ==
  ASSUME Reach, PayloadsFit, NEW c, c.op \in Binary, NEW m,
         NEW A, A = Expand(m[c.a]), FromDatum(A),
         NEW B, B = Expand(m[c.b]), FromDatum(B),
         NEW g \in Impl, NEW n, NEW d, NEW x, Dispatched(c, A, B, g, n, d, x), d.src # "OPERATE",
         ~(c.op = "SUB" /\ n.src = "OPERATE" /\ d.src = "RHS")
  PROVE  API!Promised(c, m, Compress(x), 0, n.raise \cup d.raise)
<1> DEFINE f == n.raise \cup d.raise
           k == Compress(x)
           C == Expand(m[c.c])
<1>1. c.op # "FMA"
  BY DEF Binary
<1>2. CASE NaN(A) \/ NaN(B)
  <2>1. API!PropagatesNaN({Val(A), Val(B)}, k, 0, n.raise) /\ d.raise = {}
    BY <1>2, DispatchedNaN
  <2>2. f = n.raise
    BY <2>1
  <2>3. API!PropagatesNaN({Val(A), Val(B)}, k, 0, f)
    BY <2>1, <2>2
  <2> HIDE DEF f, k
  <2>4. API!Promised(c, m, k, 0, f)
    BY <1>1, <1>2, <2>3, PromiseRules
  <2> QED
    BY <2>4 DEF f, k
<1>3. CASE ~NaN(A) /\ ~NaN(B)
  <2>1. n.src = "OPERATE" /\ n.raise = {} /\ d = SpecialAction(c, A, B, g) /\ x = Picked(d, A, B)
    BY <1>3, DispatchedPlain
  <2>2. f = d.raise /\ k = Compress(Picked(d, A, B))
    BY <2>1
  <2>3. 1 \in Sign /\ -1 \in Sign /\ Like(Val(A), A, 1)
    BY LikeVal DEF Sign
  <2> HIDE DEF f, k
  <2>4. CASE c.op = "ADD"
    <3>1. d = AddAction(1, A, B, c.rnd, g)
      BY <2>1, <2>4 DEF SpecialAction, Sgn
    <3>2. Like(Val(B), B, 1)
      BY LikeVal
    <3>3. API!IsSum(Val(A), Val(B), c.rnd, k, 0, f)
      BY <1>3, <2>2, <2>3, <3>1, <3>2, SumOutcome
    <3>4. API!Promised(c, m, k, 0, f)
      BY <1>1, <1>3, <2>4, <3>3, PromiseRules
    <3> QED
      BY <3>4 DEF f, k
  <2>5. CASE c.op = "SUB"
    <3>1. d = AddAction(-1, A, B, c.rnd, g) /\ d.src # "RHS"
      BY <2>1, <2>5 DEF SpecialAction, Sgn
    <3>2. Like(API!Opposite(Val(B)), B, -1)
      BY LikeOpposite
    <3>3. API!IsSum(Val(A), API!Opposite(Val(B)), c.rnd, k, 0, f)
      BY <1>3, <2>2, <2>3, <3>1, <3>2, SumOutcome
    <3>4. API!Promised(c, m, k, 0, f)
      BY <1>1, <1>3, <2>5, <3>3, PromiseRules
    <3> QED
      BY <3>4 DEF f, k
  <2>6. CASE c.op = "MUL"
    <3>1. d = MulAction(A, B, g)
      BY <2>1, <2>6 DEF SpecialAction
    <3>2. SpecialDone(API!Times(Val(A), Val(B)), k, f)
      BY <1>3, <2>2, <3>1, ProductOutcome
    <3>3. API!IsProduct(Val(A), Val(B), c.rnd, k, 0, f)
      BY <3>2, SpecialDoneIsProduct
    <3>4. API!Promised(c, m, k, 0, f)
      BY <1>1, <1>3, <2>6, <3>3, PromiseRules
    <3> QED
      BY <3>4 DEF f, k
  <2>7. CASE c.op = "DIV"
    <3>1. d = DivAction(A, B, g)
      BY <2>1, <2>7 DEF SpecialAction
    <3>2. API!IsQuotient(Val(A), Val(B), c.rnd, k, 0, f)
      BY <1>3, <2>2, <3>1, QuotientOutcome
    <3>3. API!Promised(c, m, k, 0, f)
      BY <1>1, <1>3, <2>7, <3>2, PromiseRules
    <3> QED
      BY <3>3 DEF f, k
  <2> QED
    BY <2>4, <2>5, <2>6, <2>7 DEF Binary
<1> QED
  BY <1>2, <1>3

\* fpfd32_fma's own fpfd32_mul leaves a special value in temp.
LEMMA InnerProduct ==
  ASSUME PayloadsFit, NEW c, c.op = "MUL", NEW A, FromDatum(A), NEW B, FromDatum(B),
         ~(A.special = "NUMBER" /\ B.special = "NUMBER"),
         NEW g \in Impl, NEW n, NEW d, NEW x, Dispatched(c, A, B, g, n, d, x)
  PROVE  d.src # "OPERATE" /\ MulDone(A, B, Compress(x), n.raise \cup d.raise)
<1>1. CASE NaN(A) \/ NaN(B)
  <2>1. API!PropagatesNaN({Val(A), Val(B)}, Compress(x), 0, n.raise) /\ d.raise = {} /\ d.src # "OPERATE"
    BY <1>1, DispatchedNaN
  <2>2. n.raise \cup d.raise = n.raise
    BY <2>1
  <2> QED
    BY <1>1, <2>1, <2>2 DEF MulDone
<1>2. CASE ~NaN(A) /\ ~NaN(B)
  <2>1. n.raise = {} /\ d = SpecialAction(c, A, B, g) /\ x = Picked(d, A, B)
    BY <1>2, DispatchedPlain
  <2>2. d = MulAction(A, B, g)
    BY <2>1 DEF SpecialAction
  <2>3. d.src # "OPERATE"
    <3>1. A.special \in {"ZERO", "NUMBER", "INF"} /\ B.special \in {"ZERO", "NUMBER", "INF"}
      BY <1>2, CompressOperand
    <3>2. \/ \E sp, s : d = Store(g, sp, s)
          \/ d = InvalidOp(g)
      BY <2>2, <3>1 DEF MulAction
    <3>3. InvalidOp(g).src = "RET" /\ \A sp, s : Store(g, sp, s).src = "RET"
      BY DEF Store, InvalidOp, Outcome
    <3> QED
      BY <3>2, <3>3, Zenon
  <2>4. SpecialDone(API!Times(Val(A), Val(B)), Compress(x), d.raise)
    BY <1>2, <2>1, <2>2, <2>3, ProductOutcome
  <2>5. n.raise \cup d.raise = d.raise
    BY <2>1
  <2> QED
    BY <1>2, <2>3, <2>4, <2>5 DEF MulDone
<1> QED
  BY <1>1, <1>2

\* What fpfd32_fma's fpfd32_mul left in temp, read again by its fpfd32_add.
LEMMA InnerSum ==
  ASSUME Reach, PayloadsFit, NEW c, c.op = "FMA", NEW m,
         NEW A, A = Expand(m[c.a]), FromDatum(A),
         NEW B, B = Expand(m[c.b]), FromDatum(B),
         NEW C, C = Expand(m[c.c]), FromDatum(C),
         NEW k \in Datum, NEW h, MulDone(A, B, k, h), NEW T, T = Expand(k), FromDatum(T),
         NEW e, e.op = "ADD", e.rnd = c.rnd,
         NEW g \in Impl, NEW n, NEW d, NEW x, Dispatched(e, T, C, g, n, d, x)
  PROVE  d.src # "OPERATE" /\ API!Promised(c, m, Compress(x), 0, h \cup (n.raise \cup d.raise))
<1> DEFINE X == Val(A)
           Y == Val(B)
           Z == Val(C)
           p == API!Times(X, Y)
           f == h \cup (n.raise \cup d.raise)
           r == Compress(x)
<1>1. n.raise \subseteq {"INVALID"}
  BY DEF Dispatched, NanProp
<1>2. CASE NaN(T)
  <2>1. n.src = "LHS" /\ d = Take(g, "LHS")
    BY <1>2 DEF Dispatched, NanProp
  <2>2. d.src = "LHS" /\ d.raise = {}
    BY <2>1 DEF Take, Outcome
  <2>3. x = [T EXCEPT !.special = "QNAN"]
    BY <2>1, <2>2 DEF Dispatched, Quieted
  <2>4. T \in Impl /\ T.mant < Pow10[P-1]
    BY <1>2 DEF FromDatum
  <2>5. x \in Impl /\ x.special = "QNAN" /\ x.mant = T.mant /\ x.sign = T.sign
    BY <2>3, <2>4 DEF Impl, Special
  <2>6. r = [kind |-> "QNAN", mant |-> T.mant, exp |-> 0, sign |-> T.sign] /\ r.kind = "QNAN"
    BY <2>4, <2>5, QuietCompress
  <2>7. n.raise = IF T.special = "SNAN" \/ C.special = "SNAN" THEN {"INVALID"} ELSE {}
    BY DEF Dispatched, NanProp
  <2> HIDE DEF r
  <2>8. CASE NaN(A) \/ NaN(B)
    <3>1. API!PropagatesNaN({X, Y}, k, 0, h)
      BY <2>8 DEF MulDone
    <3>2. PICK o \in {X, Y} : API!IsNaN(o) /\ k = [kind |-> "QNAN", mant |-> o.mant, exp |-> 0, sign |-> o.sign]
      BY <3>1 DEF API!PropagatesNaN
    <3>3. h = IF \E i \in {X, Y} : i.class = "SNAN" THEN {"INVALID"} ELSE {}
      BY <3>1 DEF API!PropagatesNaN
    <3>4. o.mant < Pow10[P-1]
      BY <3>2 DEF FromDatum, Val, API!IsNaN, NaN
    <3>5. T = [mant |-> o.mant, exp |-> 0, sign |-> o.sign, special |-> "QNAN"]
      BY <3>2, <3>4 DEF Expand
    <3>6. r = [kind |-> "QNAN", mant |-> o.mant, exp |-> 0, sign |-> o.sign]
      BY <2>6, <3>5
    <3>7. f = IF \E i \in {X, Y, Z} : i.class = "SNAN" THEN {"INVALID"} ELSE {}
      BY <2>2, <2>7, <3>3, <3>5 DEF Val
    <3> HIDE DEF f
    <3>8. API!PropagatesNaN({X, Y, Z}, r, 0, f)
      BY <3>2, <3>6, <3>7 DEF API!PropagatesNaN
    <3>9. p.class # "INVALID"
      <4>1. X.class \in {"QNAN", "SNAN"} \/ Y.class \in {"QNAN", "SNAN"}
        BY <2>8 DEF Val, NaN
      <4> HIDE DEF X, Y
      <4>2. {X.class, Y.class} # {"ZERO", "INF"} /\ ~({X.class, Y.class} \subseteq {"INF", "NUMBER"})
            /\ ~({X.class, Y.class} \subseteq {"ZERO", "NUMBER"}) /\ {X.class, Y.class} # {"NUMBER"}
        BY <4>1
      <4> QED
        BY <4>2 DEF API!Times
    <3>10. API!Promised(c, m, r, 0, f)
      BY <2>8, <3>8, <3>9, PromiseRules
    <3> QED
      BY <2>2, <3>10 DEF f, r
  <2>9. CASE ~NaN(A) /\ ~NaN(B)
    <3>1. SpecialDone(p, k, h)
      BY <2>9 DEF MulDone
    <3>2. ~API!IsInfOf(p.sign, k) /\ ~API!IsZeroOf(p.sign, k)
      <4>1. API!Ext(k).class = T.special
        BY ExtOfDatum DEF Val
      <4>2. k.kind = "INF" => T.special = "INF"
        BY DEF Expand
      <4> QED
        BY <1>2, <4>1, <4>2 DEF API!IsInfOf, API!IsZeroOf, NaN
    <3>3. p.class = "INVALID" /\ API!IsInvalid(k, 0, h)
      BY <3>1, <3>2 DEF SpecialDone
    <3>4. h = {"INVALID"}
      BY <3>3 DEF API!IsInvalid
    <3>5. f = {"INVALID"}
      BY <1>1, <2>2, <3>4
    <3>6. API!IsInvalid(r, 0, f)
      BY <2>6, <3>5 DEF API!IsInvalid
    <3> HIDE DEF f
    <3>7. API!Promised(c, m, r, 0, f)
      BY <3>3, <3>6, PromiseRules
    <3> QED
      BY <2>2, <3>7 DEF f, r
  <2> QED
    BY <2>8, <2>9
<1>3. CASE ~NaN(T)
  <2>1. ~NaN(A) /\ ~NaN(B)
    <3> SUFFICES ASSUME NaN(A) \/ NaN(B) PROVE FALSE
      OBVIOUS
    <3>1. k.kind = "QNAN"
      BY DEF MulDone, API!PropagatesNaN
    <3>2. T.special = "QNAN"
      BY <3>1 DEF Expand
    <3> QED
      BY <1>3, <3>2 DEF NaN
  <2>2. SpecialDone(p, k, h)
    BY <2>1 DEF MulDone
  <2>3. /\ ~API!IsInvalid(k, 0, h) /\ h = {} /\ p.class = T.special /\ p.sign = T.sign
        /\ T.special \in {"INF", "ZERO"}
    <3>1. ~API!IsInvalid(k, 0, h)
      <4>1. k.kind \in {"QNAN", "SNAN"} => T.special = k.kind
        BY DEF Expand
      <4> QED
        BY <1>3, <4>1 DEF API!IsInvalid, NaN
    <3>2. API!Ext(k).class = T.special
      BY ExtOfDatum DEF Val
    <3>3. T.special \in {"INF", "ZERO"} => T.sign = k.sign
      <4>1. k.kind \in {"FIN", "INF", "QNAN", "SNAN"}
        BY DEF Datum
      <4> QED
        BY <4>1 DEF Expand
    <3>4. k.kind = "INF" => T.special = "INF"
      BY DEF Expand
    <3>5. CASE p.class = "INF" /\ API!IsInfOf(p.sign, k) /\ h = {}
      BY <3>1, <3>3, <3>4, <3>5 DEF API!IsInfOf
    <3>6. CASE p.class = "ZERO" /\ API!IsZeroOf(p.sign, k) /\ h = {}
      BY <3>1, <3>2, <3>3, <3>6 DEF API!IsZeroOf
    <3> QED
      BY <2>2, <3>1, <3>5, <3>6 DEF SpecialDone
  <2>4. T.sign \in Sign /\ T \in Impl
    BY DEF FromDatum, Impl
  <2>5. Like(p, T, 1)
    <3>1. p.sign = 1 * T.sign
      BY <2>3, <2>4, SignTimes
    <3>2. T.special = "ZERO" => p.mant = 0 /\ p.exp \in EMin..EMax
      <4> SUFFICES ASSUME T.special = "ZERO" PROVE p.mant = 0 /\ p.exp \in EMin..EMax
        OBVIOUS
      <4>1. A.special \in {"ZERO", "NUMBER", "INF"} /\ B.special \in {"ZERO", "NUMBER", "INF"}
        BY <2>1, CompressOperand
      <4>2. p.mant = A.mant * B.mant /\ p.exp = A.exp + B.exp
        BY DEF API!Times, Val
      <4>3. "INF" \notin {A.special, B.special} /\ "ZERO" \in {A.special, B.special}
        <5> SUFFICES ASSUME "INF" \in {A.special, B.special} \/ {A.special, B.special} = {"NUMBER"}
                     PROVE  FALSE
          BY <4>1
        <5>1. X.class = A.special /\ Y.class = B.special
          BY DEF Val
        <5> HIDE DEF X, Y
        <5>2. CASE {A.special, B.special} = {"NUMBER"}
          <6>1. p.class = "NUMBER"
            BY <5>1, <5>2 DEF API!Times
          <6> QED
            BY <2>3, <6>1
        <5>3. CASE {A.special, B.special} = {"ZERO", "INF"}
          <6>1. p.class = "INVALID"
            BY <5>1, <5>3 DEF API!Times
          <6> QED
            BY <2>3, <6>1
        <5>4. CASE {A.special, B.special} \subseteq {"INF", "NUMBER"} /\ "INF" \in {A.special, B.special}
          <6>1. p.class = "INF"
            BY <5>1, <5>4 DEF API!Times
          <6> QED
            BY <2>3, <6>1
        <5> QED
          BY <4>1, <5>2, <5>3, <5>4
      <4>4. /\ A.mant \in Nat /\ A.exp \in EMin..EMax /\ (A.special = "ZERO" => A.mant = 0 /\ A.exp = 0)
            /\ B.mant \in Nat /\ B.exp \in EMin..EMax /\ (B.special = "ZERO" => B.mant = 0 /\ B.exp = 0)
        BY <4>1, <4>3, Format DEF FromDatum, Expanded, InRange, Impl
      <4>5. (A.special = "ZERO" /\ A.mant = 0 /\ A.exp = 0) \/ (B.special = "ZERO" /\ B.mant = 0 /\ B.exp = 0)
        BY <4>3, <4>4
      <4>6. A.mant * B.mant = 0
        BY <4>4, <4>5
      <4>7. A.exp + B.exp \in EMin..EMax
        BY <4>4, <4>5, Format
      <4> QED
        BY <4>2, <4>6, <4>7
    <3> QED
      BY <2>3, <3>1, <3>2 DEF Like
  <2>6. p.class # "INVALID"
    BY <2>3
  <2> HIDE DEF p
  <2>7. CASE NaN(C)
    <3>1. d.src # "OPERATE" /\ d.raise = {} /\ API!PropagatesNaN({Val(T), Z}, r, 0, n.raise)
      BY <2>7, DispatchedNaN
    <3>2. f = n.raise
      BY <2>3, <3>1
    <3>3. PICK o \in {Val(T), Z} : API!IsNaN(o) /\ r = [kind |-> "QNAN", mant |-> o.mant, exp |-> 0, sign |-> o.sign]
      BY <3>1 DEF API!PropagatesNaN
    <3>4. o = Z
      BY <1>3, <3>3 DEF API!IsNaN, Val, NaN
    <3>5. n.raise = IF C.special = "SNAN" THEN {"INVALID"} ELSE {}
      BY <1>3 DEF Dispatched, NanProp, NaN
    <3>6. (\E i \in {X, Y, Z} : i.class = "SNAN") <=> C.special = "SNAN"
      BY <2>1 DEF Val, NaN
    <3>7. f = IF \E i \in {X, Y, Z} : i.class = "SNAN" THEN {"INVALID"} ELSE {}
      BY <3>2, <3>5, <3>6
    <3> HIDE DEF f, r
    <3>8. API!PropagatesNaN({X, Y, Z}, r, 0, f)
      BY <3>3, <3>4, <3>7 DEF API!PropagatesNaN
    <3>9. API!Promised(c, m, r, 0, f)
      BY <2>6, <2>7, <3>8, PromiseRules DEF p
    <3> QED
      BY <3>1, <3>9 DEF f, r
  <2>8. CASE ~NaN(C)
    <3>1. n.raise = {} /\ d = SpecialAction(e, T, C, g) /\ x = Picked(d, T, C)
      BY <1>3, <2>8, DispatchedPlain
    <3>2. d = AddAction(1, T, C, c.rnd, g)
      BY <3>1 DEF SpecialAction, Sgn
    <3>3. d.src # "OPERATE"
      <4>1. C.special \in {"ZERO", "NUMBER", "INF"}
        BY <2>8, CompressOperand
      <4>2. \/ \E s : d = Store(g, "ZERO", s)
            \/ d = InvalidOp(g) \/ d = Take(g, "LHS") \/ d = Take(g, "RHS")
        BY <2>3, <3>2, <4>1 DEF AddAction
      <4>3. /\ InvalidOp(g).src = "RET" /\ \A s : Store(g, "ZERO", s).src = "RET"
            /\ Take(g, "LHS").src = "LHS" /\ Take(g, "RHS").src = "RHS"
        BY DEF Store, InvalidOp, Take, Outcome
      <4> QED
        BY <4>2, <4>3
    <3>4. f = d.raise
      BY <2>3, <3>1
    <3>5. Like(Z, C, 1) /\ 1 \in Sign
      BY LikeVal DEF Sign
    <3>6. API!IsSum(p, Z, c.rnd, r, 0, d.raise)
      BY <1>3, <2>5, <2>8, <3>1, <3>2, <3>3, <3>5, SumOutcome
    <3> HIDE DEF f, r
    <3>7. API!Promised(c, m, r, 0, f)
      BY <2>1, <2>6, <2>8, <3>4, <3>6, PromiseRules DEF p
    <3> QED
      BY <3>3, <3>7 DEF f, r
  <2> QED
    BY <2>7, <2>8
<1> QED
  BY <1>2, <1>3

-----------------------------------------------------------------------------
(* The steps of a call keep Link                                            *)

LEMMA CallFacts ==
  ASSUME Inv, pc # "idle"
  PROVE  /\ call \in Calls /\ call.op \in Binary \cup {"FMA"} /\ call.rnd \in Rnd /\ call # NoCall
         /\ {call.dest, call.a, call.b, call.c} \subseteq Slots
         /\ InnerMul => act = [op |-> "MUL", dest |-> Temp, a |-> call.a, b |-> call.b, c |-> call.c,
                               rnd |-> "RNDZ", fp |-> call.fp]
         /\ InnerAdd => act = [op |-> "ADD", dest |-> call.dest, a |-> Temp, b |-> call.c, c |-> call.c,
                               rnd |-> call.rnd, fp |-> call.fp]
<1>1. call \in Calls
  BY DEF Inv, AtPoint
<1>2. call \in [op : {"ADD", "SUB", "MUL", "DIV", "FMA"}, dest : Slots,
                a : Slots, b : Slots, c : Slots, rnd : Rnd, fp : BOOLEAN]
  BY <1>1, FpfdAssumption
<1>3. call.op \in {"ADD", "SUB", "MUL", "DIV", "FMA"}
  BY <1>2
<1>4. call # NoCall
  BY <1>3 DEF NoCall
<1>5. ASSUME InnerMul
      PROVE  act = [op |-> "MUL", dest |-> Temp, a |-> call.a, b |-> call.b, c |-> call.c,
                    rnd |-> "RNDZ", fp |-> call.fp]
  <2>1. act = [call EXCEPT !.op = "MUL", !.dest = Temp, !.rnd = "RNDZ"]
    BY <1>5 DEF InnerMul
  <2> QED
    BY <1>2, <2>1
<1>6. ASSUME InnerAdd
      PROVE  act = [op |-> "ADD", dest |-> call.dest, a |-> Temp, b |-> call.c, c |-> call.c,
                    rnd |-> call.rnd, fp |-> call.fp]
  <2>1. act = [call EXCEPT !.op = "ADD", !.a = Temp, !.b = call.c]
    BY <1>6 DEF InnerAdd
  <2> QED
    BY <1>2, <2>1
<1> QED
  BY <1>1, <1>2, <1>3, <1>4, <1>5, <1>6 DEF Binary

LEMMA OperandsFacts ==
  ASSUME Inv, pc # "idle"
  PROVE  /\ FromDatum(A0) /\ FromDatum(B0) /\ FromDatum(C0)
         /\ mem[Temp] \in Datum /\ FromDatum(Expand(mem[Temp]))
         /\ A0 = Expand(CallerMem[call.a]) /\ B0 = Expand(CallerMem[call.b])
         /\ C0 = Expand(CallerMem[call.c])
<1>1. \A p \in Places : mem[p] \in Datum /\ Storable(mem[p]) /\ FromDatum(Expand(mem[p]))
  BY ExpandFromDatum DEF Inv, TypeOK, Places
<1>2. {call.dest, call.a, call.b, call.c} \subseteq Slots
  BY CallFacts
<1>3. \A s \in Slots : CallerMem[s] = mem[s]
  BY DEF CallerMem
<1> QED
  BY <1>1, <1>2, <1>3 DEF Places, A0, B0, C0

LEMMA SameCall ==
  ASSUME mem' = mem, call' = call, act' = act
  PROVE  /\ A0' = A0 /\ B0' = B0 /\ C0' = C0 /\ CallerMem' = CallerMem
         /\ (Own' <=> Own) /\ (InnerMul' <=> InnerMul) /\ (InnerAdd' <=> InnerAdd)
         /\ \A f : Started(f)' <=> Started(f)
         /\ \A d, t, f : Finished(d, t, f)' <=> Finished(d, t, f)
<1>1. A0' = A0 /\ B0' = B0 /\ C0' = C0 /\ CallerMem' = CallerMem
  BY DEF A0, B0, C0, CallerMem
<1>2. (Own' <=> Own) /\ (InnerMul' <=> InnerMul) /\ (InnerAdd' <=> InnerAdd)
  BY DEF Own, InnerMul, InnerAdd
<1>3. \A f : Started(f)' <=> Started(f)
  BY <1>1, <1>2 DEF Started
<1>4. \A d, t, f : Finished(d, t, f)' <=> Finished(d, t, f)
  BY <1>1, <1>2 DEF Finished
<1> QED
  BY <1>1, <1>2, <1>3, <1>4

\* What Link says while a call runs.
LEMMA Running ==
  ASSUME Link, pc # "idle"
  PROVE  /\ Own \/ InnerMul \/ InnerAdd
         /\ \E f \in SUBSET Flag : Raised(f) /\ (excuse = {} => Ahead(f))
BY DEF Link

\* Which function runs follows from the operation.
LEMMA WhichRuns ==
  ASSUME Inv, Link, pc # "idle"
  PROVE  /\ InnerMul => act.op = "MUL" /\ call.op = "FMA"
         /\ InnerAdd => act.op = "ADD" /\ call.op = "FMA"
         /\ act.op = "FMA" => Own /\ call.op = "FMA" /\ ~InnerMul /\ ~InnerAdd
         /\ InnerMul <=> act.op = "MUL" /\ call.op = "FMA"
<1>1. InnerMul => act.op = "MUL" /\ call.op = "FMA"
  BY CallFacts DEF InnerMul
<1>2. InnerAdd => act.op = "ADD" /\ call.op = "FMA"
  BY CallFacts DEF InnerAdd
<1>3. Own \/ InnerMul \/ InnerAdd
  BY Running
<1>4. Own => act.op = call.op
  BY DEF Own
<1> QED
  BY <1>1, <1>2, <1>3, <1>4

LEMMA StillRunning ==
  ASSUME pc' # "idle", (Own \/ InnerMul \/ InnerAdd)', NEW f \in SUBSET Flag, Raised(f)',
         excuse' = {} => Ahead(f)'
  PROVE  Link'
BY DEF Link

LEMMA InitLink == Init => Link
BY DEF Init, Link

LEMMA InvokeLink == Inv /\ Link /\ Invoke => Link'
<1> SUFFICES ASSUME Inv, Link, Invoke PROVE Link'
  OBVIOUS
<1>1. act' = call' /\ pc' = "expand" /\ flags0' = flags /\ flags' = flags
  BY DEF Invoke
<1>2. Own' /\ {} \in SUBSET Flag
  BY <1>1 DEF Own
<1>3. Raised({})'
  BY <1>1 DEF Raised
<1>4. Ahead({})'
  BY <1>1, <1>2 DEF Ahead, Started
<1> QED
  BY <1>1, <1>2, <1>3, <1>4, StillRunning

LEMMA ExpandLink == Inv /\ Link /\ ExpandOperands => Link'
<1> SUFFICES ASSUME Inv, Link, ExpandOperands PROVE Link'
  OBVIOUS
<1>1. /\ mem' = mem /\ call' = call /\ act' = act /\ flags' = flags /\ flags0' = flags0
      /\ excuse' = excuse /\ pc = "expand"
      /\ op1' = Expand(mem[act.a]) /\ op2' = Expand(mem[act.b])
      /\ op3' = (IF act.op = "FMA" THEN Expand(mem[act.c]) ELSE NoNumber)
      /\ pc' = IF act.op = "FMA" THEN "fma" ELSE "dispatch"
  BY DEF ExpandOperands, history, caller
<1>2. PICK f \in SUBSET Flag : Raised(f) /\ (excuse = {} => Ahead(f))
  BY <1>1, Running
<1>3. (Own \/ InnerMul \/ InnerAdd)'
  BY <1>1, Running, SameCall
<1>4. Raised(f)'
  BY <1>1, <1>2 DEF Raised
<1>5. ASSUME excuse' = {} PROVE Ahead(f)'
  <2>1. Started(f)'
    BY <1>1, <1>2, <1>5, SameCall DEF Ahead
  <2>2. CASE act.op = "FMA"
    <3>1. act = call
      BY <1>1, <2>2, WhichRuns DEF Own
    <3>2. (op1 = A0 /\ op2 = B0 /\ op3 = C0)'
      BY <1>1, <2>2, <3>1 DEF A0, B0, C0
    <3> QED
      BY <1>1, <2>1, <2>2, <3>2 DEF Ahead
  <2>3. CASE act.op # "FMA"
    <3>1. Loaded'
      BY <1>1 DEF Loaded
    <3> QED
      BY <1>1, <2>1, <2>3, <3>1 DEF Ahead
  <2> QED
    BY <2>2, <2>3
<1>6. pc' # "idle"
  BY <1>1
<1> QED
  BY <1>3, <1>4, <1>5, <1>6, StillRunning

LEMMA FmaOperateLink == Inv /\ Link /\ FmaOperate => Link'
<1> SUFFICES ASSUME Inv, Link, FmaOperate PROVE Link'
  OBVIOUS
<1>1. /\ mem' = mem /\ call' = call /\ act' = act /\ flags' = flags /\ flags0' = flags0
      /\ excuse' = excuse /\ pc = "fma" /\ pc' = "scale"
      /\ exact' = ExactSum([op1 EXCEPT !.mant = @ * op2.mant, !.exp = @ + op2.exp,
                                       !.sign = @ * op2.sign], op3)
      /\ op1.special = "NUMBER" /\ op2.special = "NUMBER" /\ op3.special = "NUMBER"
  BY DEF FmaOperate, AllNumbers, caller
<1>2. PICK f \in SUBSET Flag : Raised(f) /\ (excuse = {} => Ahead(f))
  BY <1>1, Running
<1>3. (Own \/ InnerMul \/ InnerAdd)'
  BY <1>1, Running, SameCall
<1>4. Raised(f)'
  BY <1>1, <1>2 DEF Raised
<1>5. ASSUME excuse' = {} PROVE Ahead(f)'
  <2>1. Started(f)'
    BY <1>1, <1>2, <1>5, SameCall DEF Ahead
  <2>2. op1 = A0 /\ op2 = B0 /\ op3 = C0
    BY <1>1, <1>2, <1>5 DEF Ahead
  <2>3. act.op = "FMA"
    BY <1>1 DEF Inv, AtPoint
  <2>4. Own /\ call.op = "FMA"
    BY <1>1, <2>3, WhichRuns
  <2>5. Computes(call, A0, B0, C0, exact)'
    BY <1>1, <2>2, <2>4, SameCall DEF Computes
  <2>6. Own'
    BY <1>1, <2>4, SameCall
  <2> QED
    BY <1>1, <2>1, <2>5, <2>6 DEF Ahead
<1>6. pc' # "idle"
  BY <1>1
<1> QED
  BY <1>3, <1>4, <1>5, <1>6, StillRunning

LEMMA FmaFallbackLink == Inv /\ Link /\ FmaFallback => Link'
<1> SUFFICES ASSUME Inv, Link, FmaFallback PROVE Link'
  OBVIOUS
<1>1. /\ mem' = mem /\ call' = call /\ flags' = flags /\ flags0' = flags0
      /\ pc = "fma" /\ pc' = "expand"
      /\ act' = [act EXCEPT !.op = "MUL", !.dest = Temp, !.rnd = "RNDZ"]
      /\ excuse' = IF op1.special = "NUMBER" /\ op2.special = "NUMBER"
                   THEN excuse \cup {"product rounded alone"} ELSE excuse
  BY DEF FmaFallback, caller
<1>2. PICK f \in SUBSET Flag : Raised(f) /\ (excuse = {} => Ahead(f))
  BY <1>1, Running
<1>3. act.op = "FMA"
  BY <1>1 DEF Inv, AtPoint
<1>4. act = call /\ call.op = "FMA" /\ ~InnerMul /\ ~InnerAdd
  <2>1. Own /\ call.op = "FMA" /\ ~InnerMul /\ ~InnerAdd
    BY <1>1, <1>3, WhichRuns
  <2> QED
    BY <2>1 DEF Own
<1>5. InnerMul'
  BY <1>1, <1>4 DEF InnerMul
<1>6. Raised(f)'
  BY <1>1, <1>2 DEF Raised
<1>7. ASSUME excuse' = {} PROVE Ahead(f)'
  <2>1. excuse = {} /\ ~(op1.special = "NUMBER" /\ op2.special = "NUMBER")
    BY <1>1, <1>7
  <2>2. op1 = A0 /\ op2 = B0 /\ Started(f)
    BY <1>1, <1>2, <2>1 DEF Ahead
  <2>3. f = {}
    BY <1>4, <2>2 DEF Started
  <2>4. A0' = A0 /\ B0' = B0
    BY <1>1 DEF A0, B0
  <2>5. Started(f)'
    BY <1>5, <2>1, <2>2, <2>3, <2>4 DEF Started
  <2> QED
    BY <1>1, <2>5 DEF Ahead
<1>8. pc' # "idle"
  BY <1>1
<1> QED
  BY <1>5, <1>6, <1>7, <1>8, StillRunning

LEMMA DispatchedOperate ==
  ASSUME NEW f, f.op \in Binary, NEW a, FromDatum(a), NEW b, FromDatum(b),
         NEW g, NEW n, NEW d, NEW x, Dispatched(f, a, b, g, n, d, x), d.src = "OPERATE"
  PROVE  /\ n.raise \cup d.raise = {}
         /\ Quieted(a, n.src = "LHS") = a /\ Quieted(b, n.src = "RHS") = b
<1>1. ~NaN(a) /\ ~NaN(b)
  BY DEF Dispatched, NanProp, Take, Outcome
<1>2. n.src = "OPERATE" /\ n.raise = {} /\ d = SpecialAction(f, a, b, g)
  BY <1>1, DispatchedPlain
<1>3. a.special \in {"ZERO", "NUMBER", "INF"} /\ b.special \in {"ZERO", "NUMBER", "INF"}
  BY <1>1, CompressOperand
<1>4. /\ Take(g, "OPERATE").raise = {} /\ Take(g, "LHS").src = "LHS" /\ Take(g, "RHS").src = "RHS"
      /\ \A sp, s : Store(g, sp, s).src = "RET"
      /\ \A sp, s : [Store(g, sp, s) EXCEPT !.raise = {"DIVBYZERO"}].src = "RET"
      /\ InvalidOp(g).src = "RET"
  BY DEF Take, Store, InvalidOp, Outcome
<1>5. CASE f.op \in {"ADD", "SUB"}
  <2>1. d = AddAction(Sgn(f.op), a, b, f.rnd, g)
    BY <1>2, <1>5 DEF SpecialAction
  <2>2. \/ d = Take(g, "OPERATE") \/ d = Take(g, "LHS") \/ d = Take(g, "RHS") \/ d = InvalidOp(g)
        \/ \E s : d = Store(g, "ZERO", s)
    BY <1>3, <2>1 DEF AddAction
  <2> QED
    BY <1>2, <1>4, <2>2 DEF Quieted
<1>6. CASE f.op = "MUL"
  <2>1. d = MulAction(a, b, g)
    BY <1>2, <1>6 DEF SpecialAction
  <2>2. \/ d = Take(g, "OPERATE") \/ d = InvalidOp(g)
        \/ \E sp, s : d = Store(g, sp, s)
    BY <1>3, <2>1 DEF MulAction
  <2> QED
    BY <1>2, <1>4, <2>2, Zenon DEF Quieted
<1>7. CASE f.op = "DIV"
  <2>1. d = DivAction(a, b, g)
    BY <1>2, <1>7 DEF SpecialAction
  <2>2. \/ d = Take(g, "OPERATE") \/ d = InvalidOp(g)
        \/ \E sp, s : d = Store(g, sp, s)
        \/ \E sp, s : d = [Store(g, sp, s) EXCEPT !.raise = {"DIVBYZERO"}]
    BY <1>3, <2>1 DEF DivAction
  <2> QED
    BY <1>2, <1>4, <2>2, Zenon DEF Quieted
<1> QED
  BY <1>5, <1>6, <1>7 DEF Binary

LEMMA DispatchLink == Reach /\ PayloadsFit /\ Inv /\ Link /\ Dispatch => Link'
<1> SUFFICES ASSUME Reach, PayloadsFit, Inv, Link, Dispatch PROVE Link'
  OBVIOUS
<1> DEFINE n == NanProp(op1, op2)
<1>1. PICK g \in Garbage :
        LET d == IF n.src = "OPERATE" THEN SpecialAction(act, op1, op2, g) ELSE Take(g, n.src)
        IN  /\ op1' = Quieted(op1, n.src = "LHS") /\ op2' = Quieted(op2, n.src = "RHS")
            /\ rop' = d.rop /\ src' = d.src /\ Raise(n.raise \cup d.raise)
            /\ pc' = IF d.src = "OPERATE" THEN "operate" ELSE "compress"
            /\ excuse' = IF act.op = "SUB" /\ n.src = "OPERATE" /\ d.src = "RHS"
                         THEN excuse \cup {"subtrahend not negated"} ELSE excuse
  BY DEF Dispatch
<1> DEFINE d == IF n.src = "OPERATE" THEN SpecialAction(act, op1, op2, g) ELSE Take(g, n.src)
           x == IF d.src = "LHS" THEN Quieted(op1, n.src = "LHS")
                ELSE IF d.src = "RHS" THEN Quieted(op2, n.src = "RHS") ELSE d.rop
           h == n.raise \cup d.raise
<1>2. Dispatched(act, op1, op2, g, n, d, x)
  BY DEF Dispatched
<1>3. /\ op1' = Quieted(op1, n.src = "LHS") /\ op2' = Quieted(op2, n.src = "RHS")
      /\ rop' = d.rop /\ src' = d.src /\ Raise(h)
      /\ pc' = (IF d.src = "OPERATE" THEN "operate" ELSE "compress")
      /\ excuse' = IF act.op = "SUB" /\ n.src = "OPERATE" /\ d.src = "RHS"
                   THEN excuse \cup {"subtrahend not negated"} ELSE excuse
  BY <1>1
<1>4. /\ pc = "dispatch" /\ tern' = 0 /\ mem' = mem /\ act' = act /\ call' = call /\ flags0' = flags0
      /\ g \in Impl /\ act \in Act /\ act.op \in Binary
  BY FpfdAssumption DEF Dispatch, caller, Inv, AtPoint
<1>5. Chosen' = x
  BY <1>3 DEF Chosen
<1> HIDE DEF n, d, x
<1>6. PICK f \in SUBSET Flag : Raised(f) /\ (excuse = {} => Ahead(f))
  BY <1>4, Running
<1>7. (Own \/ InnerMul \/ InnerAdd)' /\ act.op # "FMA" /\ (Own \/ InnerMul \/ InnerAdd)
  BY <1>4, Running, SameCall DEF Binary
<1>8. /\ FromDatum(A0) /\ FromDatum(B0) /\ FromDatum(C0)
      /\ mem[Temp] \in Datum /\ FromDatum(Expand(mem[Temp]))
      /\ A0 = Expand(CallerMem[call.a]) /\ B0 = Expand(CallerMem[call.b])
      /\ C0 = Expand(CallerMem[call.c])
  BY <1>4, OperandsFacts
<1>9. excuse' = {} => excuse = {} /\ ~(act.op = "SUB" /\ n.src = "OPERATE" /\ d.src = "RHS")
  BY <1>3
<1>10. ASSUME excuse = {}
       PROVE  Started(f) /\ op1 = Expand(mem[act.a]) /\ op2 = Expand(mem[act.b])
  BY <1>4, <1>6, <1>10 DEF Ahead, Loaded
<1>11. PICK k \in SUBSET Flag : k = f \cup h
  <2>1. n.raise \subseteq Flag
    BY DEF n, NanProp, Flag
  <2>2. d.raise \subseteq Flag
    <3>1. op1 \in Impl /\ op2 \in Impl
      BY DEF Inv, TypeOK
    <3>2. CASE n.src = "OPERATE"
      <4>1. ~NaN(op1) /\ ~NaN(op2)
        BY <3>2 DEF n, NanProp
      <4>2. GoodOutcome(SpecialAction(act, op1, op2, g), op1, op2)
        BY <1>4, <3>1, <4>1, SpecialActionOutcome
      <4> QED
        BY <3>2, <4>2 DEF GoodOutcome, d
    <3>3. CASE n.src # "OPERATE"
      BY <3>3 DEF d, Take, Outcome
    <3> QED
      BY <3>2, <3>3
  <2>3. f \cup h \in SUBSET Flag
    BY <1>6, <2>1, <2>2
  <2> QED
    BY <2>3
<1>12. Raised(k)'
  BY <1>3, <1>4, <1>6, <1>11 DEF Raised, Raise
<1>13. ASSUME excuse' = {} PROVE Ahead(k)'
  <2>1. /\ excuse = {} /\ ~(act.op = "SUB" /\ n.src = "OPERATE" /\ d.src = "RHS") /\ k = f \cup h
        /\ Started(f) /\ op1 = Expand(mem[act.a]) /\ op2 = Expand(mem[act.b])
    BY <1>9, <1>10, <1>11, <1>13
  <2> HIDE DEF h
  <2>2. CASE Own
    <3>1. act = call /\ op1 = A0 /\ op2 = B0 /\ call.op # "FMA"
      BY <1>7, <2>1, <2>2 DEF Own, A0, B0
    <3>2. ~InnerMul /\ ~InnerAdd
      BY <1>4, <3>1, WhichRuns
    <3>3. f = {} /\ k = h
      BY <2>1, <3>2 DEF Started
    <3>4. CASE d.src = "OPERATE"
      <4>1. h = {} /\ op1' = op1 /\ op2' = op2
        BY <1>2, <1>3, <1>4, <1>8, <3>1, <3>4, DispatchedOperate DEF h
      <4>2. Started(f) /\ k = f
        BY <2>1, <3>3, <4>1
      <4>3. Started(k)' /\ Own'
        BY <1>4, <2>2, <4>2, SameCall
      <4>4. Loaded'
        BY <1>4, <2>1, <4>1 DEF Loaded
      <4>5. pc' = "operate"
        BY <1>3, <3>4
      <4> QED
        BY <4>3, <4>4, <4>5 DEF Ahead
    <3>5. CASE d.src # "OPERATE"
      <4>1. Dispatched(call, A0, B0, g, n, d, x) /\ call.op \in Binary
        BY <1>2, <1>4, <3>1
      <4>2. ~(call.op = "SUB" /\ n.src = "OPERATE" /\ d.src = "RHS")
        BY <2>1, <3>1
      <4>3. API!Promised(call, CallerMem, Compress(x), 0, h)
        BY <1>4, <1>8, <3>5, <4>1, <4>2, DispatchIsPromised DEF h
      <4>4. Finished(Compress(x), 0, k)
        BY <3>2, <3>3, <4>3 DEF Finished
      <4>5. pc' = "compress"
        BY <1>3, <3>5
      <4>6. Finished(Compress(Chosen), tern, k)'
        BY <1>4, <1>5, <4>4, SameCall DEF Finished
      <4> QED
        BY <4>5, <4>6 DEF Ahead
    <3> QED
      BY <3>4, <3>5
  <2>3. CASE InnerMul
    <3>1. act.op = "MUL" /\ call.op = "FMA" /\ act.a = call.a /\ act.b = call.b
      BY <1>4, <2>3, CallFacts, WhichRuns
    <3>2. op1 = A0 /\ op2 = B0
      BY <2>1, <3>1 DEF A0, B0
    <3>3. ~Own /\ ~InnerAdd
      BY <1>4, <3>1, WhichRuns DEF Own
    <3>4. f = {} /\ ~(A0.special = "NUMBER" /\ B0.special = "NUMBER") /\ k = h
      BY <2>1, <3>3 DEF Started
    <3>5. Dispatched(act, A0, B0, g, n, d, x)
      BY <1>2, <3>2
    <3>6. d.src # "OPERATE" /\ MulDone(A0, B0, Compress(x), h)
      BY <1>4, <1>8, <3>1, <3>4, <3>5, InnerProduct DEF h
    <3>7. Finished(Compress(x), 0, k)
      BY <2>3, <3>4, <3>6 DEF Finished
    <3>8. pc' = "compress"
      BY <1>3, <3>6
    <3>9. Finished(Compress(Chosen), tern, k)'
      BY <1>4, <1>5, <3>7, SameCall DEF Finished
    <3> QED
      BY <3>8, <3>9 DEF Ahead
  <2>4. CASE InnerAdd
    <3>1. act.op = "ADD" /\ call.op = "FMA" /\ act.a = Temp /\ act.b = call.c /\ act.rnd = call.rnd
      BY <1>4, <2>4, CallFacts, WhichRuns
    <3>2. op1 = Expand(mem[Temp]) /\ op2 = C0
      BY <2>1, <3>1 DEF C0
    <3>3. ~Own /\ ~InnerMul
      BY <1>4, <3>1, WhichRuns DEF Own
    <3>4. MulDone(A0, B0, mem[Temp], f)
      BY <2>1, <3>3 DEF Started
    <3>5. Dispatched(act, op1, C0, g, n, d, x)
      BY <1>2, <3>2
    <3>6. d.src # "OPERATE" /\ API!Promised(call, CallerMem, Compress(x), 0, f \cup h)
      BY <1>4, <1>8, <3>1, <3>2, <3>4, <3>5, InnerSum DEF h
    <3>7. Finished(Compress(x), 0, k)
      BY <2>1, <3>3, <3>6 DEF Finished
    <3>8. pc' = "compress"
      BY <1>3, <3>6
    <3>9. Finished(Compress(Chosen), tern, k)'
      BY <1>4, <1>5, <3>7, SameCall DEF Finished
    <3> QED
      BY <3>8, <3>9 DEF Ahead
  <2> QED
    BY <1>7, <2>2, <2>3, <2>4
<1>14. pc' # "idle"
  BY <1>3
<1> QED
  BY <1>7, <1>12, <1>13, <1>14, StillRunning

LEMMA OperateLink == Inv /\ Link /\ Operate => Link'
<1> SUFFICES ASSUME Inv, Link, Operate PROVE Link'
  OBVIOUS
<1>1. /\ mem' = mem /\ call' = call /\ act' = act /\ flags' = flags /\ flags0' = flags0
      /\ excuse' = excuse /\ pc = "operate" /\ pc' = "scale"
      /\ op1.special = "NUMBER" /\ op2.special = "NUMBER"
  BY DEF Operate, caller, Inv, AtPoint, Operand
<1>2. \/ act.op \in {"ADD", "SUB"} /\ exact' = ExactSum(op1, [op2 EXCEPT !.sign = Sgn(act.op) * @])
      \/ act.op = "MUL" /\ exact' = ExactProduct(op1, op2)
      \/ act.op = "DIV" /\ exact' = ExactQuotient(op1, op2)
  BY DEF Operate
<1>3. PICK f \in SUBSET Flag : Raised(f) /\ (excuse = {} => Ahead(f))
  BY <1>1, Running
<1>4. (Own \/ InnerMul \/ InnerAdd)'
  BY <1>1, Running, SameCall
<1>5. Raised(f)'
  BY <1>1, <1>3 DEF Raised
<1>6. ASSUME excuse' = {} PROVE Ahead(f)'
  <2>1. Started(f) /\ Loaded /\ Own
    BY <1>1, <1>3, <1>6 DEF Ahead
  <2>2. act = call /\ op1 = A0 /\ op2 = B0
    BY <2>1 DEF Own, Loaded, A0, B0
  <2>3. Computes(call, A0, B0, C0, exact)'
    BY <1>1, <1>2, <2>2, SameCall DEF Computes
  <2>4. Started(f)' /\ Own'
    BY <1>1, <2>1, SameCall
  <2> QED
    BY <1>1, <2>3, <2>4 DEF Ahead
<1>7. pc' # "idle"
  BY <1>1
<1> QED
  BY <1>4, <1>5, <1>6, <1>7, StillRunning

LEMMA ScaleLink == Inv /\ Link /\ Scale => Link'
<1> SUFFICES ASSUME Inv, Link, Scale PROVE Link'
  OBVIOUS
<1>1. /\ mem' = mem /\ call' = call /\ act' = act /\ flags' = flags /\ flags0' = flags0
      /\ exact' = exact /\ rem1' = rem1 /\ pc = "scale" /\ pc' = "round"
      /\ excuse' = excuse
           \cup (IF Honest(exact, rop', FinalRem(rem1, rem2')) THEN {} ELSE {"remainder"})
           \cup (IF exact.n # 0 /\ rop'.special = "ZERO" THEN {"total underflow"} ELSE {})
  BY DEF Scale, caller
<1>2. PICK f \in SUBSET Flag : Raised(f) /\ (excuse = {} => Ahead(f))
  BY <1>1, Running
<1>3. (Own \/ InnerMul \/ InnerAdd)'
  BY <1>1, Running, SameCall
<1>4. Raised(f)'
  BY <1>1, <1>2 DEF Raised
<1>5. ASSUME excuse' = {} PROVE Ahead(f)'
  <2>1. /\ excuse = {} /\ Honest(exact, rop', FinalRem(rem1, rem2'))
        /\ ~(exact.n # 0 /\ rop'.special = "ZERO")
    BY <1>1, <1>5
  <2>2. Started(f) /\ Own /\ Computes(call, A0, B0, C0, exact)
    BY <1>1, <1>2, <2>1 DEF Ahead
  <2>3. Started(f)' /\ Own' /\ Computes(call, A0, B0, C0, exact)'
    BY <1>1, <2>2, SameCall
  <2>4. (Honest(exact, rop, FinalRem(rem1, rem2)) /\ ~(exact.n # 0 /\ rop.special = "ZERO"))'
    <3>1. FinalRem(rem1, rem2)' = FinalRem(rem1, rem2')
      BY <1>1 DEF FinalRem
    <3> QED
      BY <1>1, <2>1, <3>1
  <2> QED
    BY <1>1, <2>3, <2>4 DEF Ahead
<1>6. pc' # "idle"
  BY <1>1
<1> QED
  BY <1>3, <1>4, <1>5, <1>6, StillRunning

LEMMA RoundResultLink == Reach /\ Inv /\ Link /\ RoundResult => Link'
<1> SUFFICES ASSUME Reach, Inv, Link, RoundResult PROVE Link'
  OBVIOUS
<1> DEFINE rem == FinalRem(rem1, rem2)
           r == Round(rop, rem, act.rnd)
<1>1. /\ mem' = mem /\ call' = call /\ act' = act /\ flags0' = flags0
      /\ rop' = r.x /\ tern' = r.tern /\ Raise(r.flags) /\ src' = "RET"
      /\ pc = "round" /\ pc' = "compress"
      /\ excuse' = IF act.rnd = "RNDNA" /\ rem % 16 \in 5..9
                   THEN excuse \cup {"RNDNA rounds to zero"} ELSE excuse
  BY DEF RoundResult, caller
<1>2. PICK f \in SUBSET Flag : Raised(f) /\ (excuse = {} => Ahead(f))
  BY <1>1, Running
<1>3. (Own \/ InnerMul \/ InnerAdd)'
  BY <1>1, Running, SameCall
<1>4. /\ rop \in Impl /\ Fitted(rop) /\ InRange(rop) /\ rem1 \in Nat /\ rem2 \in Nat
      /\ act.rnd \in Rnd /\ act \in Act
  BY <1>1 DEF Inv, TypeOK, AtPoint, Fitted, Canonical, InRange, Act
<1>5. rem \in Nat
  BY <1>4 DEF FinalRem, Combine
<1>6. r.flags \in SUBSET Flag
  BY <1>4, RoundType
<1>7. Chosen' = r.x
  BY <1>1 DEF Chosen
<1> HIDE DEF r, rem
<1>8. PICK k \in SUBSET Flag : k = f \cup r.flags
  BY <1>2, <1>6
<1>9. Raised(k)'
  BY <1>1, <1>2, <1>8 DEF Raised, Raise
<1>10. ASSUME excuse' = {} PROVE Ahead(k)'
  <2>1. excuse = {} /\ ~(act.rnd = "RNDNA" /\ rem % 16 \in 5..9)
    BY <1>1, <1>10
  <2>2. /\ Started(f) /\ Own /\ Computes(call, A0, B0, C0, exact)
        /\ Honest(exact, rop, rem) /\ ~(exact.n # 0 /\ rop.special = "ZERO")
    BY <1>1, <1>2, <2>1 DEF Ahead, rem
  <2>3. act = call /\ call.op \in Binary \cup {"FMA"}
    BY <1>1, <2>2, CallFacts DEF Own
  <2>4. ~InnerMul /\ ~InnerAdd
    <3>1. act.op = call.op
      BY <2>3
    <3> QED
      BY <1>1, <3>1, WhichRuns
  <2>5. k = r.flags
    BY <1>8, <2>2, <2>4 DEF Started
  <2>6. Unexcused(exact, rop, rem, call.rnd)
    BY <1>4, <1>5, <2>1, <2>2, <2>3 DEF Unexcused
  <2>7. /\ FromDatum(A0) /\ FromDatum(B0) /\ FromDatum(C0)
        /\ A0 = Expand(CallerMem[call.a]) /\ B0 = Expand(CallerMem[call.b])
        /\ C0 = Expand(CallerMem[call.c])
    BY <1>1, OperandsFacts
  <2>8. API!Promised(call, CallerMem, Compress(r.x), r.tern, r.flags)
    BY <2>2, <2>3, <2>6, <2>7, ComputedIsPromised DEF r
  <2>9. Finished(Compress(r.x), r.tern, k)
    BY <2>4, <2>5, <2>8 DEF Finished
  <2>10. Finished(Compress(Chosen), tern, k)'
    BY <1>1, <1>7, <2>9, SameCall DEF Finished
  <2> QED
    BY <1>1, <2>10 DEF Ahead
<1>11. pc' # "idle"
  BY <1>1
<1> QED
  BY <1>3, <1>9, <1>10, <1>11, StillRunning

LEMMA CompressLink == Inv /\ Link /\ CompressResult => Link'
<1> SUFFICES ASSUME Inv, Link, CompressResult PROVE Link'
  OBVIOUS
<1>1. pc = "compress" /\ mem' = [mem EXCEPT ![act.dest] = Compress(Chosen)] /\ flags' = flags
  BY DEF CompressResult
<1>2. CASE act.op = "MUL" /\ call.op = "FMA"
  <2>1. /\ act' = [call EXCEPT !.op = "ADD", !.a = Temp, !.b = call.c] /\ pc' = "expand"
        /\ call' = call /\ flags0' = flags0 /\ excuse' = excuse
    BY <1>2 DEF CompressResult
  <2>2. PICK f \in SUBSET Flag : Raised(f) /\ (excuse = {} => Ahead(f))
    BY <1>1, Running
  <2>3. InnerAdd'
    BY <1>2, <2>1 DEF InnerAdd
  <2>4. Raised(f)'
    BY <1>1, <2>1, <2>2 DEF Raised
  <2>5. InnerMul /\ act.dest = Temp /\ {call.a, call.b} \subseteq Slots
    BY <1>1, <1>2, WhichRuns, CallFacts
  <2>6. mem'[Temp] = Compress(Chosen) /\ \A s \in Slots : mem'[s] = mem[s]
    BY <1>1, <2>5, FpfdAssumption DEF Inv, TypeOK
  <2>7. A0' = A0 /\ B0' = B0
    BY <2>1, <2>5, <2>6 DEF A0, B0
  <2>8. ASSUME excuse' = {} PROVE Ahead(f)'
    <3>1. Finished(Compress(Chosen), tern, f)
      BY <1>1, <2>1, <2>2, <2>8 DEF Ahead
    <3>2. MulDone(A0, B0, Compress(Chosen), f)
      BY <2>5, <3>1 DEF Finished
    <3>3. Started(f)'
      BY <2>3, <2>6, <2>7, <3>2 DEF Started
    <3> QED
      BY <2>1, <3>3 DEF Ahead
  <2>9. pc' # "idle"
    BY <2>1
  <2> QED
    BY <2>3, <2>4, <2>8, <2>9, StillRunning
<1>3. CASE ~(act.op = "MUL" /\ call.op = "FMA")
  BY <1>3 DEF CompressResult, Link
<1> QED
  BY <1>2, <1>3

LEMMA IdleLink ==
  ASSUME Link, pc = "idle", pc' = "idle", call' = call, excuse' = excuse
  PROVE  Link'
BY DEF Link

LEMMA StutterLink == Link /\ UNCHANGED vars => Link'
<1> SUFFICES ASSUME Link, UNCHANGED vars PROVE Link'
  OBVIOUS
<1>1. /\ mem' = mem /\ call' = call /\ act' = act /\ flags' = flags /\ flags0' = flags0
      /\ excuse' = excuse /\ exact' = exact /\ pc' = pc /\ tern' = tern
      /\ op1' = op1 /\ op2' = op2 /\ op3' = op3 /\ rop' = rop /\ rem1' = rem1 /\ rem2' = rem2
      /\ src' = src
  BY DEF vars, locals, history, caller
<1>2. CASE pc = "idle"
  BY <1>1, <1>2, IdleLink
<1>3. CASE pc # "idle"
  <2>1. PICK f \in SUBSET Flag : Raised(f) /\ (excuse = {} => Ahead(f))
    BY <1>3, Running
  <2>2. (Own \/ InnerMul \/ InnerAdd)'
    BY <1>1, <1>3, Running, SameCall
  <2>3. Raised(f)'
    BY <1>1, <2>1 DEF Raised
  <2>4. Chosen' = Chosen /\ FinalRem(rem1, rem2)' = FinalRem(rem1, rem2)
    BY <1>1 DEF Chosen, FinalRem
  <2>5. Loaded' <=> Loaded
    BY <1>1 DEF Loaded
  <2>6. Ahead(f) => Ahead(f)'
    BY <1>1, <2>4, <2>5, SameCall DEF Ahead
  <2> QED
    BY <1>1, <1>3, <2>1, <2>2, <2>3, <2>6, StillRunning
<1> QED
  BY <1>2, <1>3

LEMMA NextLink == Reach /\ PayloadsFit /\ Inv /\ Link /\ [Next]_vars => Link'
<1> SUFFICES ASSUME Reach, PayloadsFit, Inv, Link, [Next]_vars PROVE Link'
  OBVIOUS
<1>1. Neg \/ Set \/ SetConstant \/ SetUi \/ Query =>
        pc = "idle" /\ pc' = "idle" /\ call' = call /\ excuse' = excuse
  BY DEF Neg, Set, SetConstant, SetUi, Query, Write, history
<1>2. Neg \/ Set \/ SetConstant \/ SetUi \/ Query => Link'
  BY <1>1, IdleLink
<1> QED
  BY <1>2, InvokeLink, ExpandLink, FmaOperateLink, FmaFallbackLink, DispatchLink, OperateLink,
     ScaleLink, RoundResultLink, CompressLink, StutterLink DEF Next, Step

-----------------------------------------------------------------------------
(* Every step is a step of FpfdAPI or leaves its variables alone            *)

\* fpfd32_neg changes the sign of the value, a NaN's included.
LEMMA NegatedIsOpposite ==
  ASSUME PayloadsFit, NEW d \in Datum, Storable(d)
  PROVE  API!Ext(Negated(d)) = API!Opposite(API!Ext(d))
<1> DEFINE x == Expand(d)
           y == [x EXCEPT !.sign = -x.sign]
<1>1. FromDatum(x) /\ x \in Impl /\ x.sign \in {-1, 1} /\ x.mant \in Nat /\ x.exp \in Int
  BY ExpandFromDatum DEF FromDatum, Impl, Sign
<1>2. x.special = "INF" => x.mant = 0
  BY DEF Expand, Datum
<1> HIDE DEF x
<1>3. y = [mant |-> x.mant, exp |-> x.exp, sign |-> -x.sign, special |-> x.special] /\ y \in Impl
  BY <1>1 DEF Impl, Sign
<1>4. Negated(d) = Compress(y)
  BY DEF Negated, x
<1>5. API!Opposite(API!Ext(d)) = Val(y)
  <2>1. API!Ext(d) = [class |-> x.special, sign |-> x.sign, mant |-> x.mant, exp |-> x.exp]
    BY ExtOfDatum DEF Val, x
  <2> QED
    BY <1>3, <2>1 DEF API!Opposite, Val
<1> HIDE DEF y
<1>6. Expand(Compress(y)) = y
  <2>1. CASE x.special = "ZERO"
    <3>1. Compress(y) = [kind |-> "FIN", mant |-> 0, exp |-> 0, sign |-> -x.sign]
      BY <1>3, <2>1 DEF Compress
    <3>2. Expand(Compress(y)) = [mant |-> 0, exp |-> 0, sign |-> -x.sign, special |-> "ZERO"]
      BY <3>1 DEF Expand
    <3> QED
      BY <1>1, <1>3, <2>1, <3>2 DEF FromDatum
  <2>2. CASE x.special = "NUMBER"
    <3>1. Compress(y) = [kind |-> "FIN", mant |-> x.mant, exp |-> x.exp, sign |-> -x.sign]
      BY <1>3, <2>2 DEF Compress
    <3>2. x.mant \in 1..MaxMant
      BY <1>1, <2>2, Format DEF FromDatum, Expanded, InRange
    <3> QED
      BY <1>3, <2>2, <3>1, <3>2 DEF Expand
  <2>3. CASE x.special = "INF"
    <3>1. Compress(y) = [kind |-> "INF", mant |-> 0, exp |-> 0, sign |-> -x.sign]
      BY <1>3, <2>3 DEF Compress
    <3>2. Expand(Compress(y)) = [mant |-> 0, exp |-> 0, sign |-> -x.sign, special |-> "INF"]
      BY <3>1 DEF Expand
    <3> QED
      BY <1>1, <1>2, <1>3, <2>3, <3>2 DEF FromDatum
  <2>4. CASE x.special \in {"QNAN", "SNAN"}
    <3>1. x.mant < Pow10[P-1] /\ x.exp = 0
      BY <1>1, <2>4 DEF FromDatum, NaN
    <3>2. Compress(y) = [kind |-> x.special, mant |-> x.mant, exp |-> 0, sign |-> -x.sign]
      <4>1. y.special = x.special /\ y.mant = x.mant /\ y.sign = -x.sign
        BY <1>3
      <4> QED
        BY <1>3, <2>4, <3>1, <4>1, PayloadKept
    <3>3. Expand(Compress(y)) = [mant |-> x.mant, exp |-> 0, sign |-> -x.sign, special |-> x.special]
      BY <2>4, <3>1, <3>2 DEF Expand
    <3> QED
      BY <1>3, <3>1, <3>3
  <2> QED
    BY <1>1, <2>1, <2>2, <2>3, <2>4 DEF Impl, Special
<1> QED
  BY <1>4, <1>5, <1>6, ExtOfDatum

LEMMA InitStep == Init => API!Init
<1> SUFFICES ASSUME Init PROVE API!Init
  OBVIOUS
<1>1. PICK m \in InitMem : mem = [s \in Slots \cup {Temp} |-> IF s = Temp THEN PosZero ELSE m[s]]
  BY DEF Init
<1>2. m = [s \in Slots |-> m[s]] /\ Temp \notin Slots
  BY <1>1, FpfdAssumption
<1>3. [s \in Slots |-> mem[s]] = [s \in Slots |-> m[s]]
  BY <1>1, <1>2
<1>4. /\ flags = {} /\ ret = 0 /\ pc = "idle" /\ call = NoCall /\ excuse = {}
  BY DEF Init
<1>5. call = API!NoCall
  BY <1>4 DEF API!NoCall, NoCall
<1> QED
  BY <1>1, <1>2, <1>3, <1>4, <1>5 DEF API!Init

LEMMA InvokeStep == Link /\ Invoke => API!Invoke
<1> SUFFICES ASSUME Link, Invoke PROVE API!Invoke
  OBVIOUS
<1>1. /\ pc = "idle" /\ pc' = "expand" /\ call' \in Calls /\ mem' = mem /\ flags' = flags
      /\ flags0' = flags /\ ret' = ret
  BY DEF Invoke
<1>2. call = API!NoCall
  BY <1>1 DEF Link, API!NoCall, NoCall
<1>3. [s \in Slots |-> mem[s]]' = [s \in Slots |-> mem[s]]
  BY <1>1
<1>4. (IF pc = "idle" THEN flags ELSE flags0)' = IF pc = "idle" THEN flags ELSE flags0
  BY <1>1
<1> QED
  BY <1>1, <1>2, <1>3, <1>4 DEF API!Invoke

\* A step inside a call is invisible, or it is where the call asks to be excused.
LEMMA InnerStep ==
  ASSUME Inv, pc # "idle", pc' # "idle", CallerMem' = CallerMem, flags0' = flags0, call' = call,
         ret' = ret, excuse \subseteq excuse'
  PROVE  API!Excuse \/ UNCHANGED API!vars
<1>1. call # API!NoCall
  BY CallFacts DEF API!NoCall, NoCall
<1>2. [s \in Slots |-> mem[s]]' = [s \in Slots |-> mem[s]]
  BY DEF CallerMem
<1>3. (IF pc = "idle" THEN flags ELSE flags0)' = IF pc = "idle" THEN flags ELSE flags0
  OBVIOUS
<1>4. CASE (excuse # {})' = (excuse # {})
  BY <1>2, <1>3, <1>4 DEF API!vars
<1>5. CASE excuse = {} /\ excuse' # {}
  BY <1>1, <1>2, <1>3, <1>5 DEF API!Excuse
<1> QED
  BY <1>4, <1>5

LEMMA RunStep == Inv /\ (ExpandOperands \/ FmaOperate \/ FmaFallback \/ Dispatch \/ Operate \/ Scale \/ RoundResult)
                   => API!Excuse \/ UNCHANGED API!vars
<1> SUFFICES ASSUME Inv, ExpandOperands \/ FmaOperate \/ FmaFallback \/ Dispatch \/ Operate \/ Scale \/ RoundResult
             PROVE  API!Excuse \/ UNCHANGED API!vars
  OBVIOUS
<1>1. pc # "idle" /\ pc' # "idle" /\ excuse \subseteq excuse'
  BY DEF ExpandOperands, FmaOperate, FmaFallback, Dispatch, Operate, Scale, RoundResult, history
<1>2. mem' = mem /\ flags0' = flags0 /\ call' = call /\ ret' = ret
  BY DEF ExpandOperands, FmaOperate, FmaFallback, Dispatch, Operate, Scale, RoundResult, history, caller
<1>3. CallerMem' = CallerMem
  BY <1>2 DEF CallerMem
<1> QED
  BY <1>1, <1>2, <1>3, InnerStep

LEMMA ReturnStep == Inv /\ Link /\ CompressResult => API!Return \/ UNCHANGED API!vars
<1> SUFFICES ASSUME Inv, Link, CompressResult PROVE API!Return \/ UNCHANGED API!vars
  OBVIOUS
<1>1. /\ pc = "compress" /\ mem' = [mem EXCEPT ![act.dest] = Compress(Chosen)] /\ flags' = flags
      /\ mem \in [Slots \cup {Temp} -> Datum] /\ act.dest \in Slots \cup {Temp}
  BY DEF CompressResult, Inv, TypeOK, AtPoint, Act, Places
<1>2. \A s \in Slots : mem'[s] = IF s = act.dest THEN Compress(Chosen) ELSE mem[s]
  BY <1>1
<1>3. CASE act.op = "MUL" /\ call.op = "FMA"
  <2>1. act.dest = Temp
    BY <1>1, <1>3, WhichRuns, CallFacts
  <2>2. [s \in Slots |-> mem[s]]' = [s \in Slots |-> mem[s]]
    BY <1>2, <2>1, FpfdAssumption
  <2>3. /\ pc' = "expand" /\ ret' = ret /\ call' = call /\ flags0' = flags0 /\ excuse' = excuse
    BY <1>3 DEF CompressResult
  <2> QED
    BY <1>1, <2>2, <2>3 DEF API!vars
<1>4. CASE ~(act.op = "MUL" /\ call.op = "FMA")
  <2>1. ret' = tern /\ pc' = "idle" /\ call' = NoCall /\ excuse' = {} /\ tern \in {-1, 0, 1}
    BY <1>4 DEF CompressResult, Inv, TypeOK
  <2>2. ~InnerMul /\ (Own \/ InnerAdd) /\ call # NoCall /\ call.dest \in Slots
    BY <1>1, <1>4, WhichRuns, Running, CallFacts
  <2>3. act.dest = call.dest
    BY <1>1, <2>2, CallFacts DEF Own
  <2>4. PICK f \in SUBSET Flag : Raised(f) /\ (excuse = {} => Ahead(f))
    BY <1>1, Running
  <2>5. excuse = {} => API!Promised(call, CallerMem, mem'[call.dest], ret', f)
    BY <1>1, <1>2, <2>1, <2>2, <2>3, <2>4 DEF Ahead, Finished
  <2>6. \A s \in Slots : [i \in Slots |-> mem[i]]'[s] = mem'[s] /\ [i \in Slots |-> mem[i]][s] = mem[s]
    OBVIOUS
  <2>7. API!OnlyWrites(call.dest)
    BY <1>2, <2>3, <2>6 DEF API!OnlyWrites
  <2>8. flags' = IF call.fp THEN flags0 \cup f ELSE flags0
    BY <1>1, <2>4 DEF Raised
  <2>9. (IF pc = "idle" THEN flags ELSE flags0) = flags0 /\ (IF pc = "idle" THEN flags ELSE flags0)' = flags'
    BY <1>1, <2>1
  <2>10. call # API!NoCall /\ call' = API!NoCall
    BY <2>1, <2>2 DEF API!NoCall, NoCall
  <2>11. excuse # {} \/ API!Promised(call, [i \in Slots |-> mem[i]], [i \in Slots |-> mem[i]]'[call.dest], ret', f)
    BY <2>2, <2>5, <2>6 DEF CallerMem
  <2>12. f \in SUBSET API!Flag
    BY <2>4 DEF API!Flag, Flag
  <2>13. (excuse # {})' = FALSE
    BY <2>1
  <2> QED
    BY <2>1, <2>7, <2>8, <2>9, <2>10, <2>11, <2>12, <2>13 DEF API!Return
<1> QED
  BY <1>3, <1>4

\* What the calls that neither round nor signal have in common.
LEMMA WriteStep ==
  ASSUME Inv, Link, NEW p \in Slots, NEW d, NEW r, Write(p, d, r)
  PROVE  /\ call = API!NoCall /\ API!OnlyWrites(p) /\ ret' = r /\ call' = call
         /\ [i \in Slots |-> mem[i]]'[p] = d
         /\ (IF pc = "idle" THEN flags ELSE flags0)' = (IF pc = "idle" THEN flags ELSE flags0)
         /\ (excuse # {})' = (excuse # {})
<1>1. /\ pc = "idle" /\ pc' = pc /\ mem' = [mem EXCEPT ![p] = d] /\ ret' = r /\ flags' = flags
      /\ call' = call /\ excuse' = excuse
  BY DEF Write, history
<1>2. call = API!NoCall
  BY <1>1 DEF Link, API!NoCall, NoCall
<1>3. mem \in [Slots \cup {Temp} -> Datum]
  BY DEF Inv, TypeOK
<1>4. \A s \in Slots : mem'[s] = IF s = p THEN d ELSE mem[s]
  BY <1>1, <1>3
<1>5. \A s \in Slots : [i \in Slots |-> mem[i]]'[s] = mem'[s] /\ [i \in Slots |-> mem[i]][s] = mem[s]
  OBVIOUS
<1>6. API!OnlyWrites(p)
  BY <1>4, <1>5 DEF API!OnlyWrites
<1> QED
  BY <1>1, <1>2, <1>4, <1>5, <1>6

LEMMA WritesStep == PayloadsFit /\ Inv /\ Link /\ (Neg \/ Set \/ SetConstant \/ SetUi) => API!Assign \/ API!SetUi
<1> SUFFICES ASSUME PayloadsFit, Inv, Link, Neg \/ Set \/ SetConstant \/ SetUi PROVE API!Assign \/ API!SetUi
  OBVIOUS
<1>1. \A s \in Slots : mem[s] \in Datum /\ Storable(mem[s]) /\ [i \in Slots |-> mem[i]][s] = mem[s]
  BY DEF Inv, TypeOK, Places
<1>2. CASE Neg
  <2>1. PICK p \in Slots, s \in Slots : Write(p, Negated(mem[s]), ret)
    BY <1>2 DEF Neg
  <2>2. API!Ext(Negated(mem[s])) = API!Opposite(API!Ext(mem[s]))
    BY <1>1, NegatedIsOpposite
  <2> QED
    BY <1>1, <2>1, <2>2, WriteStep DEF API!Assign
<1>3. CASE Set
  <2>1. PICK p \in Slots, s \in Slots : Write(p, mem[s], ret)
    BY <1>3 DEF Set
  <2> QED
    BY <1>1, <2>1, WriteStep DEF API!Assign
<1>4. CASE SetConstant
  <2>1. PICK p \in Slots, d \in Constants : Write(p, d, ret)
    BY <1>4 DEF SetConstant
  <2> QED
    BY <1>1, <2>1, WriteStep DEF API!Assign
<1>5. CASE SetUi
  <2>1. PICK p \in Slots, m \in {0, 1} : Write(p, Compress(Finite(m, 1)), 0)
    BY <1>5 DEF SetUi
  <2>2. Compress(Finite(m, 1)) \in Constants
    BY DEF Constants
  <2> QED
    BY <2>1, <2>2, WriteStep DEF API!SetUi
<1> QED
  BY <1>2, <1>3, <1>4, <1>5

LEMMA QueryStep == Link /\ Query => API!Query
<1> SUFFICES ASSUME Link, Query PROVE API!Query
  OBVIOUS
<1>1. /\ pc = "idle" /\ pc' = pc /\ mem' = mem /\ flags' = flags /\ call' = call /\ excuse' = excuse
  BY DEF Query, history
<1>2. call = API!NoCall
  BY <1>1 DEF Link, API!NoCall, NoCall
<1>3. PICK s \in Slots, p \in Predicates : ret' = IF Expand(mem[s]).special \in p THEN 1 ELSE 0
  BY DEF Query
<1>4. API!Ext([i \in Slots |-> mem[i]][s]).class = Expand(mem[s]).special
  <2>1. [i \in Slots |-> mem[i]][s] = mem[s]
    OBVIOUS
  <2> QED
    BY <2>1, ExtOfDatum DEF Val
<1>5. p \in {{"QNAN", "SNAN"}, {"INF"}, {"ZERO", "NUMBER"}, {"ZERO"}}
  BY DEF Predicates
<1>6. /\ [i \in Slots |-> mem[i]]' = [i \in Slots |-> mem[i]]
      /\ (IF pc = "idle" THEN flags ELSE flags0)' = (IF pc = "idle" THEN flags ELSE flags0)
      /\ (excuse # {})' = (excuse # {})
  BY <1>1
<1> QED
  BY <1>1, <1>2, <1>3, <1>4, <1>5, <1>6 DEF API!Query

LEMMA StutterStep == UNCHANGED vars => UNCHANGED API!vars
<1> SUFFICES ASSUME UNCHANGED vars PROVE UNCHANGED API!vars
  OBVIOUS
<1>1. /\ pc' = pc /\ mem' = mem /\ flags' = flags /\ flags0' = flags0 /\ call' = call /\ excuse' = excuse
      /\ ret' = ret
  BY DEF vars, history, caller
<1> QED
  BY <1>1 DEF API!vars

\* The core keeps the promise of FpfdAPI: for every library that delivers, every
\* format and every sequence of calls, whatever a call returns is the correctly
\* rounded result with its ternary value and its flags, unless the call asked to
\* be excused, and it writes nothing but its destination (add.c, sub.c, mul.c,
\* div.c, fma.c, round.c, nan.c, set.c).
THEOREM FpfdImplementsAPI ==
  ASSUME LibraryDelivers(Operand), Reach, PayloadsFit
  PROVE  Spec => ImplementsAPI
<1>1. Inv /\ Link /\ [Next]_vars => [API!Next]_(API!vars)
  <2> SUFFICES ASSUME Inv, Link, [Next]_vars PROVE API!Next \/ UNCHANGED API!vars
    OBVIOUS
  <2> QED
    BY PayloadsFit, InvokeStep, RunStep, ReturnStep, WritesStep, QueryStep, StutterStep
       DEF Next, Step, API!Next
<1>2. Inv /\ Link /\ [Next]_vars => Link'
  BY Reach, PayloadsFit, NextLink
<1>3. Init => API!Init /\ Link
  BY InitStep, InitLink
<1>4. Spec => []Inv
  BY LibraryDelivers(Operand), FpfdInductive
<1> QED
  BY <1>1, <1>2, <1>3, <1>4, PTL DEF Spec, ImplementsAPI, API!Spec
=============================================================================
