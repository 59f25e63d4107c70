----------------------------- MODULE MCFpfdSeq -----------------------------
(***************************************************************************)
(* Sequences of calls of Fpfd linked with libfpfd-bid, with every aliasing   *)
(* of two variables.  The format has one digit: so small that TLC can        *)
(* evaluate the hypotheses of FpfdProofs on every triple of operands.       *)
(***************************************************************************)
EXTENDS FpfdProofs, BidArith

MCPow10 == [k \in 0..9 |-> 10^k]
MCPow2 == [b \in 0..17 |-> 2^b]
MCEMin == -1

\* 128 has the signalling bit set.
MCGarbage == [mant : {3, 128}, exp : {0}, sign : Sign, special : {"NUMBER"}]

Fin(m, e, s) == [kind |-> "FIN", mant |-> m, exp |-> e, sign |-> s]

SeqSlots == {"x", "y"}
SeqData == {Fin(0, 0, 1), Fin(7, 1, 1), Fin(3, -1, -1)}
SeqMem == [SeqSlots -> SeqData]

CallsOf(ops, dests, as, bs, cs, rnds, fps) ==
  [op : ops, dest : dests, a : as, b : bs, c : cs, rnd : rnds, fp : fps]

SeqCalls == CallsOf({"ADD", "SUB", "MUL", "DIV"}, SeqSlots, SeqSlots, SeqSlots, {"y"},
                    {"RNDN", "RNDD"}, {TRUE})
              \cup CallsOf({"SUB", "DIV"}, SeqSlots, SeqSlots, SeqSlots, {"y"}, {"RNDN"}, {FALSE})
              \cup CallsOf({"FMA"}, SeqSlots, {"x"}, {"y"}, SeqSlots, {"RNDN"}, BOOLEAN)

\* The hypotheses can be met, and together.
ASSUME SeqHypotheses == LibraryDelivers(Operand) /\ Reach /\ PayloadsFit
=============================================================================
