------------------------------- MODULE MCFpfd -------------------------------
(* Fpfd linked with libfpfd-bid, on a format of two digits.                 *)
EXTENDS FpfdClaims, BidArith, GccCalls

MCPow10 == [k \in 0..9 |-> 10^k]
MCPow2 == [b \in 0..24 |-> 2^b]
MCEMin == -4
MCPayloadMod == 16

Fin(m, e, s) == [kind |-> "FIN", mant |-> m, exp |-> e, sign |-> s]
Inf(s)       == [kind |-> "INF", mant |-> 0, exp |-> 0, sign |-> s]

\* The last payload is not canonical: it stands for zero.
NaNs == {[kind |-> "QNAN", mant |-> 3, exp |-> 0, sign |-> 1],
         [kind |-> "SNAN", mant |-> 12, exp |-> 0, sign |-> -1]}

\* 100 is a significand that the encoding can hold but the format cannot; a
\* zero may have any exponent.
Specials == {Fin(0, 0, 1), Fin(0, 2, -1), Fin(100, 1, 1), Inf(1), Inf(-1)} \cup NaNs

\* 512 has the signalling bit set.
MCGarbage == [mant : {7, 512}, exp : {0}, sign : Sign, special : {"NUMBER"}]

CallsOf(ops, dests, as, bs, cs, rnds, fps) ==
  [op : ops, dest : dests, a : as, b : bs, c : cs, rnd : rnds, fp : fps]

-----------------------------------------------------------------------------
(* One call: a binary operation on every pair of a rich set of data, a       *)
(* product of such a pair plus zero, and a fused multiply-add on every       *)
(* triple of two smaller sets: exponents that are too far apart in a triple *)
(* would leave TLC's integers.                                              *)
OneSlots == {"x", "y", "z"}
PairData ==
  Specials \cup [kind : {"FIN"}, mant : {1, 15, 50, 98, 99}, exp : {-4, -2, 0, 3}, sign : Sign]
           \cup {Fin(10, -1, -1), Fin(7, -4, -1), Fin(9, 2, 1)}
FmaLarge == Specials \cup {Fin(1, 0, 1), Fin(15, 0, -1), Fin(35, 0, 1), Fin(99, 2, 1)}
FmaSmall == {Fin(2, -3, -1), Fin(1, -3, 1), Fin(7, -2, 1), Fin(15, -3, 1), Fin(3, -4, 1), Fin(98, -4, -1)}
OneMem ==
  {[s \in OneSlots |-> IF s = "x" THEN d ELSE IF s = "y" THEN e ELSE Fin(0, 0, 1)] : d, e \in PairData}
    \cup [OneSlots -> FmaLarge] \cup [OneSlots -> FmaSmall]
OneCalls ==
  CallsOf({"ADD", "SUB", "MUL", "DIV"}, {"x", "y"}, {"x"}, {"y"}, {"x"}, Rnd, {TRUE})
    \cup CallsOf({"FMA"}, {"x", "z"}, {"x"}, {"y"}, {"z"}, Rnd, {TRUE})
    \cup BidOverrides("x", "y", "z")
=============================================================================
