---------------------------- MODULE BidFormats ----------------------------
(***************************************************************************)
(* Expansion and compression in libfpfd-bid on x86_64, all three widths.    *)
(* The three routines of a file are one routine with the constants of its   *)
(* format, up to the deviations that are written out here.                  *)
(***************************************************************************)
EXTENDS Interchange

\* The 128-bit routine shifts its high quad by 50, as the 64-bit one does, where
\* its combination field begins at 46.
BidCombAt(f) == IF f.w = 128 THEN 64 + 50 ELSE f.t

\* The 64-bit routine stores the special field of a quiet NaN at the offset of
\* the exponent, and then the exponent over it.
SpecialStored(special, f) == ~(f.w = 64 /\ special = "QNAN")

BidExpand(w, f, old) ==
  LET sign    == IF f.w - 1 \in w THEN -1 ELSE 1
      comb    == Field(w, BidCombAt(f), f.comb)
      first6  == First6(comb, f)
      kind    == Kind(first6)
      small   == w \cap (0..(f.t + 2))
      large   == (w \cap (0..f.t)) \cup {f.t + 3}
      payload == w \cap (0..(f.t - 1))
      zero    == Expanded({}, 0, sign, "ZERO")
  IN  CASE ~LargeLayout(first6) ->
             IF small = {} THEN zero
             ELSE Expanded(small, Num(Field(comb, 3, f.comb - 3)) - f.bias, sign, "NUMBER")
        [] kind = "FIN" /\ LargeLayout(first6) ->
             IF ~Below(large, f.significands) THEN zero
             ELSE Expanded(large, Num(Field(comb, 1, f.comb - 3)) - f.bias, sign, "NUMBER")
        [] kind = "INF" -> Expanded({}, 0, sign, "INF")
        [] kind \in {"QNAN", "SNAN"} ->
             Expanded(IF Below(payload, f.payloads) THEN payload ELSE {}, 0, sign,
                      IF SpecialStored(kind, f) THEN kind ELSE old.special)

\* Mutant: the exponent of a large significand goes where that of a small one does.
BidCompressOneLayout(x, f) ==
  LET e == Shl(BitsOf(x.exp + f.bias, 30), f.t + 3)
  IN  SignBit(x.sign, f) \cup
      CASE x.special = "ZERO" -> {f.w - 3, f.w - 4, f.w - 7, f.w - 9}
        [] x.special = "INF"  -> Marker("INF", f)
        [] x.special \in {"QNAN", "SNAN"} -> Marker(x.special, f) \cup x.mant
        [] x.special = "NUMBER" ->
             IF f.t + 3 \in x.mant THEN (x.mant \cap (0..f.t)) \cup e \cup {f.w - 2, f.w - 3}
             ELSE x.mant \cup e

\* 0x3280... is a zero of exponent 0, 6 or 288.
BidCompress(x, f) ==
  LET e == BitsOf(x.exp + f.bias, 30)
  IN  SignBit(x.sign, f) \cup
      CASE x.special = "ZERO" -> {f.w - 3, f.w - 4, f.w - 7, f.w - 9}
        [] x.special = "INF"  -> Marker("INF", f)
        [] x.special \in {"QNAN", "SNAN"} -> Marker(x.special, f) \cup x.mant
        [] x.special = "NUMBER" ->
             IF f.t + 3 \in x.mant
             THEN (x.mant \cap (0..f.t)) \cup Shl(e, f.t + 1) \cup {f.w - 2, f.w - 3}
             ELSE x.mant \cup Shl(e, f.t + 3)
=============================================================================
