---------------------------- MODULE Interchange ----------------------------
(***************************************************************************)
(* The interchange formats of 32, 64 and 128 bits, for both encoding        *)
(* libraries.  A word, or a structure's array of words, is the set of the   *)
(* numbers of its bits that are one; a shift moves the set and a mask       *)
(* intersects it.                                                          *)
(***************************************************************************)
EXTENDS Integers, Sequences, FiniteSets
LOCAL INSTANCE FiniteSetsExt

\* The bits low, low + 1, ... of w, shifted down.
Field(w, low, width) == {i - low : i \in w \cap (low..(low + width - 1))}

Shl(w, k) == {i + k : i \in w}

BitsOf(n, width) == {i \in 0..(width - 1) : (n \div 2^i) % 2 = 1}
Num(w) == FoldSet(LAMBDA i, n : n + 2^i, 0, w)

\* The bits of a constant given by its hexadecimal digits.
Hex(digits) == UNION {Shl(BitsOf(digits[k], 4), 4 * (Len(digits) - k)) : k \in 1..Len(digits)}

Below(a, b) ==
  LET differ == (a \ b) \cup (b \ a)
  IN  differ # {} /\ Max(differ) \in b

-----------------------------------------------------------------------------
(* A format: the width w, the bits t of the trailing significand and the    *)
(* bits comb of the combination field above them, the bias of the exponent, *)
(* and ten to the power of the digits of a significand and of a payload.    *)

Format(w) ==
  CASE w = 32 ->
         [w |-> 32, t |-> 20, comb |-> 11, bias |-> 101,
          significands |-> Hex(<<9, 8, 9, 6, 8, 0>>), payloads |-> Hex(<<15, 4, 2, 4, 0>>)]
    [] w = 64 ->
         [w |-> 64, t |-> 50, comb |-> 13, bias |-> 398,
          significands |-> Hex(<<2, 3, 8, 6, 15, 2, 6, 15, 12, 1, 0, 0, 0, 0>>),
          payloads |-> Hex(<<3, 8, 13, 7, 14, 10, 4, 12, 6, 8, 0, 0, 0>>)]
    [] w = 128 ->
         [w |-> 128, t |-> 110, comb |-> 17, bias |-> 6176,
          significands |-> Hex(<<1, 14, 13, 0, 9, 11, 14, 10, 13, 8, 7, 12, 0>>
                                 \o <<3, 7, 8, 13, 8, 14, 6, 4, 0, 0, 0, 0, 0, 0, 0, 0>>),
          payloads |-> Hex(<<3, 1, 4, 13, 12, 6, 4, 4, 8, 13, 9, 3>>
                             \o <<3, 8, 12, 1, 5, 11, 0, 10, 0, 0, 0, 0, 0, 0, 0, 0>>)]

\* The first six bits of a combination field tell the special values from the
\* numbers, and the first two tell the two layouts of a number apart.
First6(comb, f) == Field(comb, f.comb - 6, 6)

\* Mutant: every NaN is quiet.
KindOfFive(first6) ==
  CASE first6 \ {0} = 1..5 -> "QNAN"
    [] first6 \ {0} = 2..5 -> "INF"
    [] OTHER               -> "FIN"

Kind(first6) ==
  CASE first6 = 0..5         -> "SNAN"
    [] first6 = 1..5         -> "QNAN"
    [] first6 \ {0} = 2..5   -> "INF"
    [] OTHER                 -> "FIN"

LargeLayout(first6) == {4, 5} \subseteq first6

\* The expanded form, fpfd32_impl_t and its wider sisters.
Expanded(mant, exp, sign, special) ==
  [mant |-> mant, exp |-> exp, sign |-> sign, special |-> special]

\* (1 - sign) shifted to the two highest bits.
SignBit(sign, f) == IF sign = -1 THEN {f.w - 1} ELSE {}

\* The leading bits of an infinity and of the two NaNs.
Marker(special, f) ==
  CASE special = "INF"  -> (f.w - 5)..(f.w - 2)
    [] special = "QNAN" -> (f.w - 6)..(f.w - 2)
    [] special = "SNAN" -> (f.w - 7)..(f.w - 2)
=============================================================================
