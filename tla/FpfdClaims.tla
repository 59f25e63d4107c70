----------------------------- MODULE FpfdClaims -----------------------------
(***************************************************************************)
(* What a comment of the repository says of a call, where the code does     *)
(* something else: a run refutes it.                                        *)
(***************************************************************************)
EXTENDS Fpfd

Returning == pc = "compress" /\ ~(act.op = "MUL" /\ call.op = "FMA")

\* A call that computed the nonzero value exact, from an honest remainder.
Computed == Returning /\ exact.n # 0 /\ "remainder" \notin excuse

\* exact lies in the middle between two numbers of the format.
Tie ==
  LET z == Rounded(exact, "RNDZ")
  IN  ~z.past /\ Position(exact, z.mant, z.exp) = "TIE"

ResultIs(z) == rop.special = "NUMBER" /\ SameMagnitude(rop.mant, rop.exp, z.mant, z.exp)

\* fpfd.h:31, "FPFD_RNDNA - Round-to-nearset, ties away from zero".
TiesAwayFromZero ==
  Computed /\ act.rnd = "RNDNA" /\ Tie =>
    ~ResultIs(Rounded(exact, "RNDZ"))
=============================================================================
