------------------------------ MODULE FpfdAPI ------------------------------
(***************************************************************************)
(* What the arithmetic of fpfd promises to its caller: a call returns,      *)
(* writes only its destination, and delivers the correctly rounded result   *)
(* with the sign of the rounding error; flags are only ever raised.  The    *)
(* rules for zeros, infinities and NaNs are those of IEEE 754-2008, the     *)
(* standard the sources cite.                                               *)
(*                                                                         *)
(* A call may be excused: then only the frame of the promise is left (the   *)
(* other data, the flags raised before).  Module Fpfd says when it needs    *)
(* the excuse.  FPFD_UNDERFLOW is not promised at all.                      *)
(***************************************************************************)
EXTENDS Encoding

CONSTANTS
  Slots,      \* the caller's variables
  InitMem,    \* what they may hold at first
  Calls,      \* the calls a run may make
  Constants   \* the data that fpfd32_set_* store

VARIABLES mem, flags, call, ret, excused

vars == <<mem, flags, call, ret, excused>>

NoCall == [op |-> "NONE"]

-----------------------------------------------------------------------------
(* Extended values: a datum, or the exact product of two                   *)

Ext(d) ==
  LET x == Expand(d)
  IN  [class |-> x.special, sign |-> x.sign, mant |-> x.mant, exp |-> x.exp]

Opposite(x) == [x EXCEPT !.sign = -@]

IsNaN(x) == x.class \in {"QNAN", "SNAN"}

Times(x, y) ==
  LET classes == {x.class, y.class}
  IN  [class |-> CASE classes = {"ZERO", "INF"}         -> "INVALID"
                   [] classes \subseteq {"INF", "NUMBER"} /\ "INF" \in classes -> "INF"
                   [] classes \subseteq {"ZERO", "NUMBER"} /\ "ZERO" \in classes -> "ZERO"
                   [] classes = {"NUMBER"}              -> "NUMBER"
                   [] OTHER                             -> "QNAN",
       sign |-> x.sign * y.sign, mant |-> x.mant * y.mant, exp |-> x.exp + y.exp]

-----------------------------------------------------------------------------
(* Outcomes: the datum d, the ternary value t and the flags f of a call     *)

Silent(t, f) == t = 0 /\ f \subseteq {"UNDERFLOW"}

IsZeroOf(s, d) == Ext(d).class = "ZERO" /\ d.sign = s
IsInfOf(s, d)  == d.kind = "INF" /\ d.sign = s

\* An invalid operation.  Not promised: that the NaN is quiet.
IsInvalid(d, t, f) == d.kind \in {"QNAN", "SNAN"} /\ t = 0 /\ f = {"INVALID"}

\* One of the NaNs among the operands, made quiet.
PropagatesNaN(operands, d, t, f) ==
  /\ \E x \in operands : IsNaN(x) /\ d = [kind |-> "QNAN", mant |-> x.mant, exp |-> 0, sign |-> x.sign]
  /\ t = 0
  /\ f = IF \E x \in operands : x.class = "SNAN" THEN {"INVALID"} ELSE {}

\* The nonzero exact value v, rounded.
IsRounded(v, rnd, d, t, f) ==
  LET r == Rounded(v, rnd)
  IN  /\ d.sign = r.sign
      /\ IF r.inf THEN d.kind = "INF"
         ELSE d.kind = "FIN" /\ SameMagnitude(d.mant, d.exp, r.mant, r.exp)
      /\ t = -r.order         \* the sign of (exact - result): round.c:53-68
      /\ f \subseteq {"INEXACT", "OVERFLOW", "UNDERFLOW"}
      /\ "OVERFLOW" \in f <=> r.past
      /\ "INEXACT" \in f <=> (t # 0 /\ ~r.past)

\* The sum of two values that are not NaNs.
IsSum(x, y, rnd, d, t, f) ==
  LET v == ExactSum(x, y)
      zeroSign == IF x.sign = y.sign THEN x.sign ELSE IF rnd = "RNDD" THEN -1 ELSE 1
  IN  CASE "INVALID" \in {x.class, y.class} -> IsInvalid(d, t, f)
        [] x.class = "INF" /\ y.class = "INF" ->
             IF x.sign = y.sign THEN IsInfOf(x.sign, d) /\ Silent(t, f)
             ELSE IsInvalid(d, t, f)
        [] x.class = "INF" /\ y.class \in {"ZERO", "NUMBER"} -> IsInfOf(x.sign, d) /\ Silent(t, f)
        [] y.class = "INF" /\ x.class \in {"ZERO", "NUMBER"} -> IsInfOf(y.sign, d) /\ Silent(t, f)
        [] x.class = "ZERO" /\ y.class = "ZERO" -> IsZeroOf(zeroSign, d) /\ Silent(t, f)
        [] "NUMBER" \in {x.class, y.class} /\ {x.class, y.class} \subseteq {"ZERO", "NUMBER"} ->
             IF v.n = 0 THEN IsZeroOf(zeroSign, d) /\ Silent(t, f)
             ELSE IsRounded(v, rnd, d, t, f)

IsProduct(x, y, rnd, d, t, f) ==
  LET p == Times(x, y)
  IN  CASE p.class = "INVALID" -> IsInvalid(d, t, f)
        [] p.class = "INF"     -> IsInfOf(p.sign, d) /\ Silent(t, f)
        [] p.class = "ZERO"    -> IsZeroOf(p.sign, d) /\ Silent(t, f)
        [] p.class = "NUMBER"  -> IsRounded(ExactProduct(x, y), rnd, d, t, f)

IsQuotient(x, y, rnd, d, t, f) ==
  LET s == x.sign * y.sign
  IN  CASE x.class = y.class /\ x.class \in {"ZERO", "INF"} -> IsInvalid(d, t, f)
        [] x.class = "NUMBER" /\ y.class = "ZERO" -> IsInfOf(s, d) /\ t = 0 /\ f = {"DIVBYZERO"}
        [] x.class = "INF" /\ y.class # "INF"   -> IsInfOf(s, d) /\ Silent(t, f)
        [] x.class # "INF" /\ y.class = "INF"   -> IsZeroOf(s, d) /\ Silent(t, f)
        [] x.class = "ZERO" /\ y.class = "NUMBER" -> IsZeroOf(s, d) /\ Silent(t, f)
        [] x.class = "NUMBER" /\ y.class = "NUMBER" ->
             IsRounded(ExactQuotient(x, y), rnd, d, t, f)

Promised(c, m, d, t, f) ==
  LET x == Ext(m[c.a])
      y == Ext(m[c.b])
      z == Ext(m[c.c])
      operands == IF c.op = "FMA" THEN {x, y, z} ELSE {x, y}
  IN  CASE c.op = "FMA" /\ Times(x, y).class = "INVALID" -> IsInvalid(d, t, f)
        [] (\E o \in operands : IsNaN(o)) /\ ~(c.op = "FMA" /\ Times(x, y).class = "INVALID") ->
             PropagatesNaN(operands, d, t, f)
        [] OTHER ->
             CASE c.op = "ADD" -> IsSum(x, y, c.rnd, d, t, f)
               [] c.op = "SUB" -> IsSum(x, Opposite(y), c.rnd, d, t, f)
               [] c.op = "MUL" -> IsProduct(x, y, c.rnd, d, t, f)
               [] c.op = "DIV" -> IsQuotient(x, y, c.rnd, d, t, f)
               [] c.op = "FMA" -> IsSum(Times(x, y), z, c.rnd, d, t, f)

-----------------------------------------------------------------------------
Init ==
  /\ mem \in InitMem
  /\ flags = {} /\ call = NoCall /\ ret = 0 /\ excused = FALSE

Invoke ==
  /\ call = NoCall
  /\ call' \in Calls
  /\ excused' \in BOOLEAN
  /\ UNCHANGED <<mem, flags, ret>>

Excuse ==
  /\ call # NoCall /\ ~excused
  /\ excused' = TRUE
  /\ UNCHANGED <<mem, flags, call, ret>>

OnlyWrites(dest) == \A s \in Slots \ {dest} : mem'[s] = mem[s]

Return ==
  /\ call # NoCall /\ call' = NoCall /\ excused' = FALSE
  /\ OnlyWrites(call.dest)
  /\ ret' \in {-1, 0, 1}
  /\ \E f \in SUBSET Flag :
       /\ flags' = IF call.fp THEN flags \cup f ELSE flags
       /\ excused \/ Promised(call, mem, mem'[call.dest], ret', f)

\* The calls that neither round nor signal: fpfd32_neg, fpfd32_set and the
\* routines that store a constant.
Assign ==
  /\ call = NoCall
  /\ \E dest, src \in Slots :
       /\ OnlyWrites(dest)
       /\ \/ Ext(mem'[dest]) = Opposite(Ext(mem[src]))
          \/ mem'[dest] = mem[src]
          \/ mem'[dest] \in Constants
  /\ UNCHANGED <<flags, call, ret, excused>>

\* fpfd32_set_ui stores a constant and returns zero.
SetUi ==
  /\ call = NoCall
  /\ \E dest \in Slots : OnlyWrites(dest) /\ mem'[dest] \in Constants
  /\ ret' = 0
  /\ UNCHANGED <<flags, call, excused>>

\* The predicates: a NaN, an infinity, a number, a zero.
Query ==
  /\ call = NoCall
  /\ \E s \in Slots : \E classes \in {{"QNAN", "SNAN"}, {"INF"}, {"ZERO", "NUMBER"}, {"ZERO"}} :
       ret' = IF Ext(mem[s]).class \in classes THEN 1 ELSE 0
  /\ UNCHANGED <<mem, flags, call, excused>>

Next == Invoke \/ Excuse \/ Return \/ Assign \/ SetUi \/ Query

Spec == Init /\ [][Next]_vars
=============================================================================
