---------------------------- MODULE X86Formats ----------------------------
(***************************************************************************)
(* Expansion and compression of 32-bit data in the two libraries on x86     *)
(* (32-bit registers).  They differ from the routines on x86_64 in what     *)
(* they do with an infinity, with a NaN and with the second declet.         *)
(***************************************************************************)
EXTENDS BidFormats, DpdFormats

\* The expanded infinity keeps the trailing significand.
KeepTail(x, tail) == IF x.special = "INF" THEN [x EXCEPT !.mant = tail] ELSE x

BidX86Expand(w, f, old) == KeepTail(BidExpand(w, f, old), w \cap (0..(f.t - 1)))

BidX86Compress(x, f) == BidCompress(x, f)

\* Both declets, as the table converts them.
BcdTail(w, f) == UNION {Shl(ToBcd(Field(w, 10 * i, 10)), 12 * i) : i \in 0..(Declets(f) - 1)}

DpdX86Expand(w, f, old) == KeepTail(DpdExpand(w, f, old), BcdTail(w, f))

\* A number's mantissa is shifted left before the second group of digits is
\* masked, where a NaN's is shifted right: the group is always zero.
SecondGroup(x) == IF x.special = "NUMBER" THEN {} ELSE Field(x.mant, 12, 12)

\* Only a number has a leading digit.
LeadingDigit(x, f) == IF x.special = "NUMBER" THEN Field(x.mant, 12 * Declets(f), 4) ELSE {}

\* What DpdCompress does with these digits.
DpdX86Compress(x, f) ==
  LET taken == Field(x.mant, 0, 12) \cup Shl(SecondGroup(x), 12) \cup Shl(LeadingDigit(x, f), 24)
  IN  DpdCompress([x EXCEPT !.mant = taken], f)
=============================================================================
