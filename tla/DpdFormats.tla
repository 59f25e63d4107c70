---------------------------- MODULE DpdFormats ----------------------------
(***************************************************************************)
(* Expansion and compression in libfpfd-dpd on x86_64, all three widths.    *)
(* The expanded mantissa is binary-coded decimal: twelve bits for each      *)
(* declet, which the tables convert, and the leading digit above them.      *)
(***************************************************************************)
EXTENDS Interchange, BcdDigits

Declets(f)  == f.t \div 10
TailBits(f) == f.comb - 5   \* the exponent bits below the leading digit

\* Table lookups: fpfd_dpd2bcd and fpfd_bcd2dpd.
ToBcd(declet) ==
  LET s == Dpd2Bcd([i \in 0..9 |-> 9 - i \in declet]) IN {11 - i : i \in {j \in 0..11 : s[j]}}
ToDpd(group) ==
  LET s == Bcd2Dpd([i \in 0..11 |-> 11 - i \in group]) IN {9 - i : i \in {j \in 0..9 : s[j]}}

-----------------------------------------------------------------------------
(* Expansion.  The 64- and 128-bit routines store the sign at the offset    *)
(* that it has in the structure of 32 bits, where the mantissa is written   *)
(* later on, and shift the third declet in a register of 32 bits.  The      *)
(* 128-bit one takes the declets from the seventh on two bits too high,     *)
(* ors the ninth in twice and the tenth not at all, shifts a small leading  *)
(* digit the wrong way, and stores the special field of an infinity in the  *)
(* mantissa.                                                               *)

SignExpanded(w, f, old) ==
  IF f.w = 32 THEN (IF f.w - 1 \in w THEN -1 ELSE 1) ELSE old.sign

Used(f)          == (0..(Declets(f) - 1)) \ (IF f.w = 128 THEN {9} ELSE {})
DecletAt(f, i)   == IF f.w = 128 /\ i >= 6 THEN 10 * i + 2 ELSE 10 * i
Kept(f, i)       == IF f.w > 32 /\ i = 2 THEN 0..31 ELSE 0..(12 * i + 11)
SmallDigitAt(f) == IF f.w = 128 THEN 148 ELSE 12 * Declets(f)

\* The trailing exponent bits are masked one bit too wide in the wider formats:
\* the last bit of the leading digit is or'ed in.
TailMasked(f) == IF f.w = 32 THEN TailBits(f) ELSE TailBits(f) + 1

DpdExpand(w, f, old) ==
  LET sign   == SignExpanded(w, f, old)
      comb   == Field(w, f.t, f.comb)
      first6 == First6(comb, f)
      kind   == Kind(first6)
      tail   == UNION {Shl(ToBcd(Field(w, DecletAt(f, i), 10)), 12 * i) \cap Kept(f, i) : i \in Used(f)}
      small  == tail \cup Shl(Field(comb, TailBits(f), 3), SmallDigitAt(f))
      large  == tail \cup Shl({3} \cup Field(comb, TailBits(f), 1), 12 * Declets(f))
      exp(low, high) == Num(low \cup Shl(high, TailBits(f))) - f.bias
  IN  CASE ~LargeLayout(first6) ->
             IF small = {} THEN Expanded({}, 0, sign, "ZERO")
             ELSE Expanded(small, exp(Field(comb, 0, TailMasked(f)), Field(comb, f.comb - 2, 2)),
                           sign, "NUMBER")
        [] kind = "FIN" /\ LargeLayout(first6) ->
             Expanded(large, exp(Field(comb, 0, TailBits(f)), Field(comb, TailBits(f) + 1, 2)), sign, "NUMBER")
        [] kind = "INF" ->
             IF f.w = 128 THEN Expanded({8 * 24 + 2}, 0, sign, old.special)
             ELSE Expanded({}, 0, sign, "INF")
        [] kind \in {"QNAN", "SNAN"} -> Expanded(tail, 0, sign, kind)

-----------------------------------------------------------------------------
(* Compression.  The 128-bit routine looks the seventh group of digits up    *)
(* twice, which leaves the higher ones one declet late, shifts the tenth    *)
(* in a register of 32 bits, takes the digit below the leading one for it,  *)
(* and adds the bias of 64 bits.                                            *)

Group(f, i)   == IF f.w = 128 /\ i >= 7 THEN i - 1 ELSE i
Fits(f, i)    == IF f.w = 128 /\ i = 9 THEN 0..(64 + 31) ELSE 0..(10 * i + 9)
LeadFrom(f)   == IF f.w = 128 THEN 128 ELSE 12 * Declets(f)
BiasAdded(f)  == IF f.w = 128 THEN 398 ELSE f.bias

\* 0x2250... is a zero of exponent 0, 6 or 288.
DpdCompress(x, f) ==
  LET tail == UNION {Shl(ToDpd(Field(x.mant, 12 * Group(f, i), 12)), 10 * i) \cap Fits(f, i)
                     : i \in 0..(Declets(f) - 1)}
      lead == Field(x.mant, LeadFrom(f), 4)
      e    == BitsOf((x.exp + BiasAdded(f)) % 2^(TailBits(f) + 2), TailBits(f) + 2)
      low  == Shl(e \cap (0..(TailBits(f) - 1)), f.t)
      high == Field(e, TailBits(f), 2)
      digit(d) == Shl(d, f.t + TailBits(f))
  IN  SignBit(x.sign, f) \cup
      CASE x.special = "ZERO" -> {f.w - 3, f.w - 7, f.w - 10, f.w - 12}
        [] x.special = "INF"  -> Marker("INF", f)
        [] x.special \in {"QNAN", "SNAN"} -> Marker(x.special, f) \cup tail \cup digit(lead)
        [] x.special = "NUMBER" ->
             IF 3 \in lead
             THEN tail \cup digit(lead \ {3}) \cup low \cup Shl(high, f.w - 5) \cup {f.w - 2, f.w - 3}
             ELSE tail \cup digit(lead) \cup low \cup Shl(high, f.w - 3)
=============================================================================
