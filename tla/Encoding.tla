------------------------------ MODULE Encoding ------------------------------
(***************************************************************************)
(* The 32-bit interchange format of libfpfd-bid on x86_64, and the routines *)
(* fpfd32_impl_expand and fpfd32_impl_compress between it and the expanded  *)
(* form.  The fields of a datum are kept apart; what matters here is which  *)
(* data expand to which special value, and which bits of an expanded number *)
(* reach the datum: a NaN gets the whole mantissa word, and bit 25 of it    *)
(* (32 times PayloadMod, 2^20 in the code) is the signalling bit.           *)
(***************************************************************************)
EXTENDS Rounding

CONSTANT PayloadMod     \* modulus of the payload field of a NaN

ASSUME EncodingAssumption == PayloadMod \in Nat \ {0}

Datum == [kind : {"FIN", "INF", "QNAN", "SNAN"}, mant : Nat, exp : Int, sign : Sign]

\* Mutant: a significand beyond the largest one is taken for a number.
ExpandAnySignificand(d) ==
  [mant |-> d.mant, exp |-> d.exp, sign |-> d.sign,
   special |-> IF d.kind # "FIN" THEN d.kind ELSE IF d.mant = 0 THEN "ZERO" ELSE "NUMBER"]

\* Significands and payloads beyond the largest one stand for zero.
Expand(d) ==
  CASE d.kind = "FIN" /\ d.mant \in 1..MaxMant ->
         [mant |-> d.mant, exp |-> d.exp, sign |-> d.sign, special |-> "NUMBER"]
    [] d.kind = "FIN" /\ d.mant \notin 1..MaxMant ->
         [mant |-> 0, exp |-> 0, sign |-> d.sign, special |-> "ZERO"]
    [] d.kind = "INF" ->
         [mant |-> 0, exp |-> 0, sign |-> d.sign, special |-> "INF"]
    [] d.kind \in {"QNAN", "SNAN"} ->
         [mant |-> IF d.mant < Pow10[P-1] THEN d.mant ELSE 0,
          exp |-> 0, sign |-> d.sign, special |-> d.kind]

SignallingBit(mant) == (mant \div (32 * PayloadMod)) % 2 = 1

\* A zero loses its exponent; a number whose mantissa became zero keeps it.
Compress(x) ==
  CASE x.special = "ZERO"   -> [kind |-> "FIN", mant |-> 0, exp |-> 0, sign |-> x.sign]
    [] x.special = "NUMBER" -> [kind |-> "FIN", mant |-> x.mant, exp |-> x.exp, sign |-> x.sign]
    [] x.special = "INF"    -> [kind |-> "INF", mant |-> 0, exp |-> 0, sign |-> x.sign]
    [] x.special \in {"QNAN", "SNAN"} ->
         [kind |-> IF SignallingBit(x.mant) THEN "SNAN" ELSE x.special,
          mant |-> x.mant % PayloadMod, exp |-> 0, sign |-> x.sign]
=============================================================================
