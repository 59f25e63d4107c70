----------------------------- MODULE MCFpfdDpd -----------------------------
(* Fpfd linked with libfpfd-dpd, on a format of two digits.  Data that only  *)
(* the binary encoding can hold, and payloads that are not canonical, are   *)
(* left out: what a datum expands to is then the same in both encodings.    *)
EXTENDS Fpfd, DpdArith, GccCalls

MCPow10 == [k \in 0..9 |-> 10^k]
MCEMin == -4
MCPayloadMod == 16
MCGarbage == [mant : {7}, exp : {0}, sign : {1}, special : {"NUMBER"}]

Fin(m, e, s) == [kind |-> "FIN", mant |-> m, exp |-> e, sign |-> s]
Inf(s)       == [kind |-> "INF", mant |-> 0, exp |-> 0, sign |-> s]
NaN3         == [kind |-> "SNAN", mant |-> 3, exp |-> 0, sign |-> 1]

MCSlots == {"x", "y", "z"}

\* Exponents that are too far apart in a triple would leave TLC's integers.
Large == {Fin(0, 0, 1), Inf(-1), NaN3, Fin(1, 0, 1), Fin(15, 0, -1), Fin(35, 0, 1), Fin(99, 2, 1),
          Fin(10, 1, -1), Fin(9, 2, 1)}
Small == {Fin(2, -3, -1), Fin(1, -3, 1), Fin(7, -2, 1), Fin(15, -3, 1), Fin(3, -4, 1), Fin(98, -4, -1),
          Fin(50, -4, 1), Fin(10, -4, -1)}
MCMem == [MCSlots -> Large] \cup [MCSlots -> Small]

Binary(op) == [op : {op}, dest : {"x"}, a : {"x"}, b : {"y"}, c : {"x"}, rnd : Rnd, fp : {TRUE}]
MCCalls == UNION {Binary(op) : op \in {"ADD", "SUB", "MUL", "DIV"}}
             \cup [op : {"FMA"}, dest : {"x", "z"}, a : {"x"}, b : {"y"}, c : {"z"}, rnd : Rnd, fp : {TRUE}]
             \cup DpdOverrides("x", "y", "z")

-----------------------------------------------------------------------------
\* Only a division needs the excuse that a remainder was dishonest: addition,
\* subtraction, multiplication and the fused multiply-add of libfpfd-dpd are
\* rounded correctly up to the reasons that lie in libfpfd itself.
OnlyDivisionIsDishonest == "remainder" \in excuse => act.op = "DIV"
=============================================================================
