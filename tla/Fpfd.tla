-------------------------------- MODULE Fpfd --------------------------------
(***************************************************************************)
(* libfpfd: the C core.  A call of fpfd32_add, _sub, _mul, _div or _fma      *)
(* expands its operands, dispatches on their special fields, and either     *)
(* stores an operand or a special value, or runs the encoding library's     *)
(* operation, scales, rounds and compresses.  fpfd32_fma calls fpfd32_mul    *)
(* and fpfd32_add when an operand is not a number.  The encoding library    *)
(* that is linked in is a parameter, as it is in the build.                 *)
(*                                                                         *)
(* The locals of the running function are variables of the model; those     *)
(* that C leaves uninitialised start with any member of Garbage.            *)
(***************************************************************************)
EXTENDS Encoding, LibraryContract

CONSTANTS
  Slots,                \* the caller's variables
  InitMem,              \* what they may hold at first, a set of functions
  Calls,                \* the calls a run may make
  Garbage,              \* contents of an uninitialised fpfd32_impl_t
  MaxCalls              \* bound on the number of calls

Temp == "temp"          \* the fpfd32_t inside fpfd32_fma

\* The exponent field of a finite datum holds only the exponents of the format.
Storable(d) == d.kind = "FIN" => d.exp \in EMin..EMax

ASSUME FpfdAssumption ==
  /\ Temp \notin Slots /\ 0 \in EMin..EMax /\ MaxCalls \in Nat
  /\ InitMem \subseteq [Slots -> {d \in Datum : Storable(d)}]
  /\ Garbage \subseteq Impl
  /\ Calls \subseteq [op : {"ADD", "SUB", "MUL", "DIV", "FMA"}, dest : Slots,
                      a : Slots, b : Slots, c : Slots, rnd : Rnd, fp : BOOLEAN]

VARIABLES
  mem,      \* data in Slots and Temp
  flags,    \* the caller's flags, a set
  ret,      \* value of the last call that returned
  pc,       \* where the running function is, "idle" when there is none
  call,     \* the API call
  act,      \* the function that runs: the call's, or one that fma calls
  op1, op2, op3, rop, rem1, rem2, src, tern,   \* its locals
  calls,    \* number of calls made
  flags0,   \* history: flags when the call began
  exact,    \* history: exact value that the operation should have
  excuse    \* history: why the call need not be rounded correctly

locals  == <<op1, op2, op3, rop, rem1, rem2, src, tern>>
history == <<flags0, exact, excuse>>
caller  == <<call, calls, ret>>
vars == <<mem, flags, pc, act, locals, history, caller>>

NoCall   == [op |-> "NONE"]
NoNumber == [mant |-> 0, exp |-> 0, sign |-> 1, special |-> "ZERO"]
PosZero  == [kind |-> "FIN", mant |-> 0, exp |-> 0, sign |-> 1]
NoValue  == Exact(1, 0, 1, 0)

LocalsDead ==
  /\ op1' = NoNumber /\ op2' = NoNumber /\ op3' = NoNumber /\ rop' = NoNumber
  /\ rem1' = 0 /\ rem2' = 0 /\ src' = "RET" /\ tern' = 0

Init ==
  /\ mem \in {[s \in Slots \cup {Temp} |-> IF s = Temp THEN PosZero ELSE m[s]] : m \in InitMem}
  /\ flags = {} /\ ret = 0 /\ pc = "idle" /\ call = NoCall /\ act = NoCall
  /\ op1 = NoNumber /\ op2 = NoNumber /\ op3 = NoNumber /\ rop = NoNumber
  /\ rem1 = 0 /\ rem2 = 0 /\ src = "RET" /\ tern = 0
  /\ calls = 0 /\ flags0 = {} /\ exact = NoValue /\ excuse = {}

-----------------------------------------------------------------------------
(* Dispatch: which of RET, LHS, RHS and OPERATE, what is in rop for RET, and *)
(* which flags are raised.  g is what rop holds at first.                   *)

Outcome(from, r, raise) == [src |-> from, rop |-> r, raise |-> raise]

Take(g, from)  == Outcome(from, g, {})
Store(g, sp, s) == Outcome("RET", [g EXCEPT !.special = sp, !.sign = s], {})
InvalidOp(g)     == Outcome("RET", [g EXCEPT !.special = "QNAN"], {"INVALID"})

\* fpfd_impl_nanprop: a NaN operand is made quiet and chosen, the left one first.
NaN(x) == x.special \in {"SNAN", "QNAN"}

\* Mutant: a signalling NaN on the right raises nothing.
NanPropLeft(a, b) ==
  [src   |-> IF NaN(a) THEN "LHS" ELSE IF NaN(b) THEN "RHS" ELSE "OPERATE",
   raise |-> IF a.special = "SNAN" THEN {"INVALID"} ELSE {}]

NanProp(a, b) ==
  [src   |-> IF NaN(a) THEN "LHS" ELSE IF NaN(b) THEN "RHS" ELSE "OPERATE",
   raise |-> IF "SNAN" \in {a.special, b.special} THEN {"INVALID"} ELSE {}]

Quieted(x, chosen) == IF chosen THEN [x EXCEPT !.special = "QNAN"] ELSE x

\* fpfd_add_action (sgn = 1) and fpfd_sub_action (sgn = -1).  The right operand
\* of a subtraction is chosen as it is, not negated.
AddAction(sgn, a, b, rnd, g) ==
  LET same == a.sign = sgn * b.sign
  IN  CASE a.special = "ZERO" /\ b.special = "ZERO" ->
             Store(g, "ZERO", IF same THEN a.sign ELSE IF rnd = "RNDD" THEN -1 ELSE 1)
        [] a.special = "NUMBER" /\ b.special = "NUMBER" -> Take(g, "OPERATE")
        [] a.special = "INF" /\ b.special = "INF" -> IF same THEN Take(g, "LHS") ELSE InvalidOp(g)
        [] \/ a.special = "ZERO" /\ b.special \in {"NUMBER", "INF"}
           \/ a.special = "NUMBER" /\ b.special = "INF" -> Take(g, "RHS")
        [] \/ b.special = "ZERO" /\ a.special \in {"NUMBER", "INF"}
           \/ b.special = "NUMBER" /\ a.special = "INF" -> Take(g, "LHS")

\* Mutant: the exclusive or of the two's complement signs without its last term.
SignOfProductXor(a, b) == IF a.sign = b.sign THEN 0 ELSE -2

SignOfProduct(a, b) == IF a.sign = b.sign THEN 1 ELSE -1

MulAction(a, b, g) ==
  LET s == SignOfProduct(a, b)
      specials == {a.special, b.special}
  IN  CASE specials = {"NUMBER"}      -> Take(g, "OPERATE")
        [] specials = {"ZERO", "INF"} -> InvalidOp(g)
        [] "ZERO" \in specials /\ "INF" \notin specials -> Store(g, "ZERO", s)
        [] "INF" \in specials /\ "ZERO" \notin specials -> Store(g, "INF", s)

DivAction(a, b, g) ==
  LET s == SignOfProduct(a, b)
  IN  CASE a.special = b.special ->
             IF a.special = "NUMBER" THEN Take(g, "OPERATE") ELSE InvalidOp(g)
        [] a.special = "NUMBER" /\ b.special = "ZERO" ->
             [Store(g, "INF", s) EXCEPT !.raise = {"DIVBYZERO"}]
        [] a.special = "INF" /\ b.special # "INF" -> Store(g, "INF", s)
        [] \/ a.special = "ZERO" /\ b.special # "ZERO"
           \/ a.special = "NUMBER" /\ b.special = "INF" -> Store(g, "ZERO", s)

Sgn(op) == IF op = "SUB" THEN -1 ELSE 1

SpecialAction(f, a, b, g) ==
  CASE f.op \in {"ADD", "SUB"} -> AddAction(Sgn(f.op), a, b, f.rnd, g)
    [] f.op = "MUL"            -> MulAction(a, b, g)
    [] f.op = "DIV"            -> DivAction(a, b, g)

\* Mutant: the flags are assigned instead of accumulated.
RaiseOnly(f) == flags' = IF call.fp THEN f ELSE flags

\* A null flags pointer is respected everywhere.
Raise(f) == flags' = IF call.fp THEN flags \cup f ELSE flags

-----------------------------------------------------------------------------
(* The steps of a call                                                     *)

Invoke ==
  /\ pc = "idle" /\ calls < MaxCalls
  /\ call' \in Calls
  /\ act' = call'
  /\ pc' = "expand"
  /\ calls' = calls + 1 /\ flags0' = flags
  /\ UNCHANGED <<mem, flags, ret, locals, exact, excuse>>

ExpandOperands ==
  /\ pc = "expand"
  /\ op1' = Expand(mem[act.a]) /\ op2' = Expand(mem[act.b])
  /\ op3' = IF act.op = "FMA" THEN Expand(mem[act.c]) ELSE NoNumber
  /\ pc' = IF act.op = "FMA" THEN "fma" ELSE "dispatch"
  /\ UNCHANGED <<mem, flags, act, rop, rem1, rem2, src, tern, history, caller>>

AllNumbers == {op1.special, op2.special, op3.special} = {"NUMBER"}

FmaOperate ==
  /\ pc = "fma" /\ AllNumbers
  /\ LET p == ImplMul(op1, op2)
         r == ImplAddSub(1, p, op3)
     IN  rop' = r.x /\ rem1' = r.rem
  /\ src' = "OPERATE"
  /\ exact' = ExactSum([op1 EXCEPT !.mant = @ * op2.mant, !.exp = @ + op2.exp,
                                   !.sign = @ * op2.sign], op3)
  /\ pc' = "scale"
  /\ UNCHANGED <<mem, flags, act, op1, op2, op3, rem2, tern, flags0, excuse, caller>>

\* Mutant: fpfd32_fma calls itself.
FmaFallbackAgain ==
  /\ pc = "fma" /\ ~AllNumbers
  /\ act' = [act EXCEPT !.dest = Temp, !.rnd = "RNDZ"]
  /\ pc' = "expand"
  /\ LocalsDead
  /\ UNCHANGED <<mem, flags, history, caller>>

\* fpfd32_mul(temp, a, b, FPFD_RNDZ, flags): a number times a number is rounded
\* on its own here.
FmaFallback ==
  /\ pc = "fma" /\ ~AllNumbers
  /\ act' = [act EXCEPT !.op = "MUL", !.dest = Temp, !.rnd = "RNDZ"]
  /\ pc' = "expand"
  /\ excuse' = IF op1.special = "NUMBER" /\ op2.special = "NUMBER"
               THEN excuse \cup {"product rounded alone"} ELSE excuse
  /\ LocalsDead
  /\ UNCHANGED <<mem, flags, flags0, exact, caller>>

Dispatch ==
  /\ pc = "dispatch"
  /\ \E g \in Garbage :
       LET n == NanProp(op1, op2)
           d == IF n.src = "OPERATE" THEN SpecialAction(act, op1, op2, g) ELSE Take(g, n.src)
       IN  /\ op1' = Quieted(op1, n.src = "LHS")
           /\ op2' = Quieted(op2, n.src = "RHS")
           /\ rop' = d.rop
           /\ src' = d.src
           /\ Raise(n.raise \cup d.raise)
           /\ pc' = IF d.src = "OPERATE" THEN "operate" ELSE "compress"
           /\ excuse' = IF act.op = "SUB" /\ n.src = "OPERATE" /\ d.src = "RHS"
                        THEN excuse \cup {"subtrahend not negated"} ELSE excuse
  /\ tern' = 0
  /\ UNCHANGED <<mem, act, op3, rem1, rem2, flags0, exact, caller>>

Operate ==
  /\ pc = "operate"
  /\ \/ /\ act.op \in {"ADD", "SUB"}
        /\ LET r == ImplAddSub(Sgn(act.op), op1, op2) IN rop' = r.x /\ rem1' = r.rem
        /\ exact' = ExactSum(op1, [op2 EXCEPT !.sign = Sgn(act.op) * @])
     \/ /\ act.op = "MUL"
        /\ rop' = ImplMul(op1, op2) /\ rem1' = 0
        /\ exact' = ExactProduct(op1, op2)
     \/ /\ act.op = "DIV"
        /\ LET r == ImplDiv(op1, op2) IN rop' = r.x /\ rem1' = r.rem
        /\ exact' = ExactQuotient(op1, op2)
  /\ pc' = "scale"
  /\ UNCHANGED <<mem, flags, act, op1, op2, op3, rem2, src, tern, flags0, excuse, caller>>

\* The remainder that is rounded on: fpfd32_mul has only one.
FinalRem(r1, r2) == IF act.op = "MUL" THEN r2 ELSE Combine(r1, r2)

\* Does rem say of x what fpfd_impl.h:89-108 prescribes for the exact value v?
\* A remainder that stands for no digit says nothing, and a number of the other
\* sign is never v truncated.
Honest(v, x, rem) ==
  IF v.n = 0 THEN x.special = "ZERO"
  ELSE /\ x.sign = v.sign
       /\ CASE rem = TotalOverflow  -> Rounded(v, "RNDZ").past /\ x.mant = MaxMant /\ x.exp = EMax
            [] rem = TotalUnderflow -> x.special = "ZERO" /\ Position(v, 0, EMin) = "BELOW"
            [] OTHER -> RemClass(rem) # "OUT" /\ Position(v, x.mant, x.exp) = RemClass(rem)

Scale ==
  /\ pc = "scale"
  /\ LET r == ImplScale(rop)
     IN  /\ rop' = r.x /\ rem2' = r.rem
         /\ excuse' = excuse
              \cup (IF Honest(exact, r.x, FinalRem(rem1, r.rem)) THEN {} ELSE {"remainder"})
              \cup (IF exact.n # 0 /\ r.x.special = "ZERO" THEN {"total underflow"} ELSE {})
  /\ pc' = "round"
  /\ UNCHANGED <<mem, flags, act, op1, op2, op3, rem1, src, tern, flags0, exact, caller>>

RoundResult ==
  /\ pc = "round"
  /\ LET rem == FinalRem(rem1, rem2)
         r == Round(rop, rem, act.rnd)
     IN  /\ rop' = r.x /\ tern' = r.tern
         /\ Raise(r.flags)
         /\ excuse' = IF act.rnd = "RNDNA" /\ rem % 16 \in 5..9
                      THEN excuse \cup {"RNDNA rounds to zero"} ELSE excuse
  /\ src' = "RET"
  /\ pc' = "compress"
  /\ UNCHANGED <<mem, act, op1, op2, op3, rem1, rem2, flags0, exact, caller>>

Chosen == CASE src = "LHS" -> op1 [] src = "RHS" -> op2 [] OTHER -> rop

\* The end of the function: the call returns, or fpfd32_fma goes on with
\* fpfd32_add(dest, temp, c, rnd, flags).
CompressResult ==
  /\ pc = "compress"
  /\ mem' = [mem EXCEPT ![act.dest] = Compress(Chosen)]
  /\ LocalsDead
  /\ exact' = NoValue
  /\ UNCHANGED <<flags, calls>>
  /\ \/ /\ act.op = "MUL" /\ call.op = "FMA"
        /\ act' = [call EXCEPT !.op = "ADD", !.a = Temp, !.b = call.c]
        /\ pc' = "expand"
        /\ UNCHANGED <<ret, call, flags0, excuse>>
     \/ /\ ~(act.op = "MUL" /\ call.op = "FMA")
        /\ ret' = tern
        /\ pc' = "idle" /\ call' = NoCall /\ act' = NoCall
        /\ flags0' = {} /\ excuse' = {}

Step ==
  \/ ExpandOperands \/ FmaOperate \/ FmaFallback \/ Dispatch
  \/ Operate \/ Scale \/ RoundResult \/ CompressResult

-----------------------------------------------------------------------------
(* Calls that neither round nor raise flags                                *)

Finite(m, s) == [mant |-> m, exp |-> 0, sign |-> s, special |-> IF m = 0 THEN "ZERO" ELSE "NUMBER"]

Infinite(g, s) == [g EXCEPT !.special = "INF", !.sign = s]

Negated(d) == LET x == Expand(d) IN Compress([x EXCEPT !.sign = -@])

\* fpfd32_set_zero, _one, _inf and their negative forms; the mantissa and the
\* exponent of an infinity are not initialised.
Constants ==
  LET positive == {Compress(Finite(m, 1)) : m \in {0, 1}}
                    \cup {Compress(Infinite(g, 1)) : g \in Garbage}
  IN  positive \cup {Negated(d) : d \in positive}

Write(dest, d, r) ==
  /\ pc = "idle" /\ calls < MaxCalls
  /\ mem' = [mem EXCEPT ![dest] = d]
  /\ ret' = r
  /\ calls' = calls + 1
  /\ UNCHANGED <<flags, pc, call, act, locals, history>>

Neg == \E dest, s \in Slots : Write(dest, Negated(mem[s]), ret)
Set == \E dest, s \in Slots : Write(dest, mem[s], ret)
SetConstant == \E dest \in Slots, d \in Constants : Write(dest, d, ret)

\* fpfd32_set_ui stores one for every argument that is not zero.
SetUi == \E dest \in Slots, m \in {0, 1} : Write(dest, Compress(Finite(m, 1)), 0)

\* fpfd32_nan_p, fpfd32_inf_p, fpfd32_number_p and fpfd32_zero_p.
Predicates == {{"SNAN", "QNAN"}, {"INF"}, {"ZERO", "NUMBER"}, {"ZERO"}}

Query ==
  /\ pc = "idle" /\ calls < MaxCalls
  /\ \E s \in Slots, p \in Predicates : ret' = IF Expand(mem[s]).special \in p THEN 1 ELSE 0
  /\ calls' = calls + 1
  /\ UNCHANGED <<mem, flags, pc, call, act, locals, history>>

Next == Invoke \/ Step \/ Neg \/ Set \/ SetConstant \/ SetUi \/ Query

\* A call that has begun is executed: nothing in it waits.
Spec == Init /\ [][Next]_vars /\ WF_vars(Step)

-----------------------------------------------------------------------------
(* Properties                                                              *)

TypeOK ==
  /\ mem \in [Slots \cup {Temp} -> Datum]
  /\ flags \subseteq Flag /\ flags0 \subseteq Flag
  /\ ret \in {-1, 0, 1} /\ tern \in {-1, 0, 1}
  /\ pc \in {"idle", "expand", "fma", "dispatch", "operate", "scale", "round", "compress"}
  /\ call \in Calls \cup {NoCall}
  /\ {op1, op2, op3, rop} \subseteq Impl
  /\ rem1 \in Nat /\ rem2 \in Nat
  /\ src \in {"RET", "LHS", "RHS", "OPERATE"}
  /\ calls \in 0..MaxCalls

Arithmetic(x) == x.special = "NUMBER" /\ x.mant \in 1..MaxMant

\* The library's arithmetic only ever sees nonzero numbers that the format can
\* hold, whatever bits the caller passes and whatever an earlier call stored:
\* bsr is undefined on a zero mantissa, div traps on a zero divisor, and the
\* assert(0) of every action table is out of reach (add.c:88, 108, 131, 137).
OperandsAreNumbers == pc = "operate" => Arithmetic(op1) /\ Arithmetic(op2)

\* What is compressed fits the fields of the datum.  fpfd32_impl_compress
\* shifts and ors without masking (compress-x86_64.s:46-62), so a mantissa of
\* too many digits or an exponent out of range would corrupt its neighbours.
Encodable ==
  pc = "compress" /\ Chosen.special = "NUMBER" =>
    Chosen.mant \in 0..MaxMant /\ Chosen.exp \in EMin..EMax

\* No step lowers a flag, and a call without a flags pointer leaves all of
\* them as they are, fpfd32_fma's inner calls included.
FlagsSticky ==
  [][flags \subseteq flags' /\ (pc # "idle" /\ ~call.fp => flags' = flags)]_vars

\* Every call returns; fpfd32_fma's detour through mul and add comes to an end.
Returns == pc # "idle" ~> pc = "idle"

\* The core implements the promise of FpfdAPI, for whatever encoding library:
\* where a remainder is dishonest, or for one of the named reasons, it asks to
\* be excused.
API == INSTANCE FpfdAPI WITH
  mem     <- [s \in Slots |-> mem[s]],
  flags   <- IF pc = "idle" THEN flags ELSE flags0,
  excused <- excuse # {}

ImplementsAPI == API!Spec
=============================================================================
