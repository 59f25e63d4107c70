----------------------------- MODULE Encodings -----------------------------
(***************************************************************************)
(* The interchange encodings as a caller meets them.  First the generators  *)
(* print the tables; then a caller of one of the libraries expands a datum, *)
(* compresses what it has, or, as the benchmarks do (random.c), draws       *)
(* random data until one is a nonzero number.  The structure that expansion *)
(* writes is not initialised: it holds what the last call left there.       *)
(***************************************************************************)
EXTENDS DigitTables, X86Formats

CONSTANTS
  Widths,           \* of the formats
  Data(_, _),       \* library and format -> the data that a caller has
  Draws(_, _),      \* library and format -> the data that the generator draws
  Left              \* what an earlier call may have left in the structure

\* The libraries on x86_64, and those on x86, which have one format.  The
\* benchmarks' random data need all three, so they link with the former only.
Wide   == {"bid", "dpd"}
Narrow == {"bid_x86", "dpd_x86"}

FormatsOf(l) == IF l \in Narrow THEN Widths \cap {32} ELSE Widths

VARIABLES
  stage,            \* what has been done
  lib, width,       \* the library and the format in use
  datum, impl,      \* the interchange datum and the expanded form
  meaning           \* history: what the caller's datum stands for

encoding == <<stage, lib, width, datum, impl, meaning>>

f == Format(width)

Expand ==
  CASE lib = "bid"     -> BidExpand(datum, f, impl)
    [] lib = "dpd"     -> DpdExpand(datum, f, impl)
    [] lib = "bid_x86" -> BidX86Expand(datum, f, impl)
    [] lib = "dpd_x86" -> DpdX86Expand(datum, f, impl)

Compress ==
  CASE lib = "bid"     -> BidCompress(impl, f)
    [] lib = "dpd"     -> DpdCompress(impl, f)
    [] lib = "bid_x86" -> BidX86Compress(impl, f)
    [] lib = "dpd_x86" -> DpdX86Compress(impl, f)

-----------------------------------------------------------------------------
(* The reference: the encodings of IEEE 754-2008, 3.5.2, where the bits      *)
(* below the sign are G0, G1, ..., and k bits of the exponent trail          *)

Large(w, g) == Num(Field(w, g.w - 6, 5)) >= 24

Special(w, g) ==
  LET n == Num(Field(w, g.w - 6, 5))
  IN  CASE n = 31 -> IF g.w - 7 \in w THEN "SNAN" ELSE "QNAN"
        [] n = 30 -> "INF"
        [] OTHER  -> "NUMBER"

Means(sign, special, exp, mant) ==
  IF special = "NUMBER" /\ mant = {} THEN Expanded({}, 0, sign, "ZERO")
  ELSE Expanded(IF special = "INF" THEN {} ELSE mant, IF special = "NUMBER" THEN exp ELSE 0,
                sign, special)

BidMeaning(w, g) ==
  LET k     == g.comb - 5
      large == Large(w, g)
      exp   == Num(Field(w, IF large THEN g.w - 5 - k ELSE g.w - 3 - k, k + 2)) - g.bias
      mant  == CASE Special(w, g) # "NUMBER" -> Field(w, 0, g.t)
                 [] Special(w, g) = "NUMBER" /\ large -> Field(w, 0, g.t + 1) \cup {g.t + 3}
                 [] OTHER -> Field(w, 0, g.t + 3)
      bound == IF Special(w, g) = "NUMBER" THEN g.significands ELSE g.payloads
  IN  Means(IF g.w - 1 \in w THEN -1 ELSE 1, Special(w, g), exp, IF Below(mant, bound) THEN mant ELSE {})

DpdMeaning(w, g) ==
  LET k     == g.comb - 5
      large == Large(w, g)
      exp   == Num(Field(w, IF large THEN g.w - 5 ELSE g.w - 3, 2)) * 2^k + Num(Field(w, g.t, k)) - g.bias
      digit == IF large THEN {3} \cup Field(w, g.w - 6, 1) ELSE Field(w, g.w - 6, 3)
      tail  == UNION {Shl(BitsOf(BcdOf(DecletDigits(Num(Field(w, 10 * i, 10)))), 12), 12 * i)
                      : i \in 0..(g.t \div 10 - 1)}
  IN  Means(IF g.w - 1 \in w THEN -1 ELSE 1, Special(w, g), exp,
            IF Special(w, g) = "NUMBER" THEN tail \cup Shl(digit, 12 * (g.t \div 10)) ELSE tail)

Meaning(l, w, g) == IF l \in {"bid", "bid_x86"} THEN BidMeaning(w, g) ELSE DpdMeaning(w, g)

-----------------------------------------------------------------------------
EncodingInit ==
  /\ Init
  /\ stage = "building"
  /\ lib = "none" /\ width = 0 /\ datum = {}
  /\ impl = Expanded({}, 0, 1, "ZERO") /\ meaning = impl

Build == Next /\ UNCHANGED encoding

Built == table = "dpd2bcd" /\ lhs = 1024

\* A caller has a datum, and a structure with something in it ...
GiveDatum ==
  /\ stage = "building" /\ Built
  /\ lib' \in Wide \cup Narrow /\ width' \in FormatsOf(lib')
  /\ datum' \in Data(lib', Format(width'))
  /\ impl' \in Left
  /\ meaning' = Meaning(lib', datum', Format(width'))
  /\ stage' = "datum"
  /\ UNCHANGED vars

\* ... or an expanded number, scaled to the format.
GiveImpl ==
  /\ stage = "building" /\ Built
  /\ lib' \in Wide \cup Narrow /\ width' \in FormatsOf(lib')
  /\ \E d \in Data(lib', Format(width')) : meaning' = Meaning(lib', d, Format(width'))
  /\ impl' = meaning' /\ datum' = {}
  /\ stage' = "expanded"
  /\ UNCHANGED vars

ExpandDatum ==
  /\ stage = "datum"
  /\ impl' = Expand
  /\ stage' = "expanded"
  /\ UNCHANGED <<vars, lib, width, datum, meaning>>

CompressImpl ==
  /\ stage = "expanded"
  /\ datum' = Compress
  /\ stage' = "compressed"
  /\ UNCHANGED <<vars, lib, width, impl, meaning>>

\* fpfd32_random and its sisters, in a structure that a number was left in.
GiveSeed ==
  /\ stage = "building" /\ Built
  /\ lib' \in Wide /\ width' \in Widths
  /\ datum' = {} /\ impl' \in Left /\ meaning' = impl'
  /\ stage' = "drawing"
  /\ UNCHANGED vars

\* Mutant: a draw that is not a number is kept.
DrawOnce ==
  /\ stage = "drawing"
  /\ datum' \in Draws(lib, f)
  /\ \E e \in {0, CASE width = 32 -> 6 [] width = 64 -> 15 [] width = 128 -> 33} :
       LET x == IF lib = "bid" THEN BidExpand(datum', f, impl) ELSE DpdExpand(datum', f, impl)
       IN  impl' = [x EXCEPT !.exp = e, !.sign = 1]
  /\ meaning' = Meaning(lib, datum', f)
  /\ stage' = "drawn"
  /\ UNCHANGED <<vars, lib, width>>

Draw ==
  /\ stage = "drawing"
  /\ datum' \in Draws(lib, f)
  /\ \E e \in {0, CASE width = 32 -> 6 [] width = 64 -> 15 [] width = 128 -> 33} :
       LET x == IF lib = "bid" THEN BidExpand(datum', f, impl) ELSE DpdExpand(datum', f, impl)
       IN  impl' = [x EXCEPT !.exp = e, !.sign = 1]
  /\ meaning' = Meaning(lib, datum', f)
  /\ stage' = IF impl'.special = "NUMBER" THEN "drawn" ELSE "drawing"
  /\ UNCHANGED <<vars, lib, width>>

StoreDraw ==
  /\ stage = "drawn"
  /\ datum' = Compress
  /\ stage' = "random"
  /\ UNCHANGED <<vars, lib, width, impl, meaning>>

EncodingNext ==
  \/ Build \/ GiveDatum \/ GiveImpl \/ GiveSeed
  \/ ExpandDatum \/ CompressImpl \/ Draw \/ StoreDraw

EncodingSpec == EncodingInit /\ [][EncodingNext]_<<vars, encoding>>

-----------------------------------------------------------------------------
(* Properties.  What the routines of 64 and 128 bits get wrong is written    *)
(* out field by field.                                                      *)

\* 128-bit data have a zero where the significand of the small layout is zero;
\* every other combination field is misread, but a small significand is kept.
BidMisread(w, g, m) ==
  CASE g.w = 64 /\ m.special = "QNAN" -> {"special"}
    [] g.w = 128 /\ m.special = "ZERO" /\ Field(w, 0, g.t + 3) = {} -> {}
    [] g.w = 128 /\ m.special = "NUMBER" -> {"exp"}
    [] g.w = 128 /\ m.special # "NUMBER" /\ ~(m.special = "ZERO" /\ Field(w, 0, g.t + 3) = {}) ->
         {"mant", "exp", "special"}
    [] OTHER -> {}

\* The top digit of the third declet is lost; of 128 bits, only what has nothing
\* above its first six declets is read.
DigitLost(g, m) == g.w > 32 /\ Field(m.mant, 32, 4) # {}
HighPart(w, g)  == g.w = 128 /\ (Field(w, 60, 52) # {} \/ (~Large(w, g) /\ Field(w, g.w - 6, 3) # {}))

DpdMisread(w, g, m) ==
  LET finite == m.special \in {"NUMBER", "ZERO"}
      declet(i) == Num(Field(w, 10 * i, 10))
  IN  (IF g.w > 32 THEN {"sign"} ELSE {})
      \cup (IF g.w > 32 /\ finite /\ ~Large(w, g) /\ g.w - 6 \in w THEN {"exp"} ELSE {})
      \cup (IF (\E i \in 0..(g.t \div 10 - 1) : WrongMiddle(declet(i))) \/ DigitLost(g, m)
            THEN {"mant"} ELSE {})
      \cup (IF finite /\ ~Large(w, g) /\ DigitLost(g, m) /\ m.mant \subseteq 32..35
            THEN {"exp", "special"} ELSE {})
      \cup (IF HighPart(w, g) THEN {"mant"} ELSE {})
      \cup (IF HighPart(w, g) /\ finite THEN {"exp", "special"} ELSE {})
      \cup (IF g.w = 128 /\ m.special = "INF" THEN {"mant", "special"} ELSE {})

\* Of an infinity the routines on x86 hand on the trailing significand.
InfinityMisread(l, m) == IF l \in Narrow /\ m.special = "INF" THEN {"mant"} ELSE {}

Misread(w) ==
  InfinityMisread(lib, meaning) \cup
    IF lib \in {"bid", "bid_x86"} THEN BidMisread(w, f, meaning) ELSE DpdMisread(w, f, meaning)

\* Whatever bits a datum has and whatever the structure held before, expansion
\* delivers the sign, the kind, the exponent and the significand that the
\* standard gives them; non-canonical data are zeros.
ExpandedRight ==
  stage = "expanded" =>
    \A field \in {"mant", "exp", "sign", "special"} :
      impl[field] = meaning[field] \/ field \in Misread(datum)

\* Compression stores a datum that stands for the number it was given, with no
\* bit of one field in another.  The 128-bit routine of libfpfd-dpd is right
\* for zeros and infinities only; that on x86 loses the second declet of a number.
CompressedRight ==
  stage = "compressed" /\ impl = meaning =>
    \/ Meaning(lib, datum, f) = meaning
    \/ lib = "dpd" /\ width = 128 /\ meaning.special \in {"NUMBER", "SNAN", "QNAN"}
    \/ lib = "dpd_x86" /\ meaning.special = "NUMBER" /\ Field(meaning.mant, 12, 12) # {}

\* The random data of the benchmarks are nonnegative numbers with the exponent
\* that was drawn; none is a special value.
RandomIsNumber ==
  stage = "random" =>
    LET m == Meaning(lib, datum, f)
    IN  /\ m.sign = 1
        /\ \/ m.special = "NUMBER" /\ m.exp = impl.exp
           \/ lib = "dpd" /\ width = 128
           \/ lib = "bid" /\ width = 64 /\ meaning.special = "QNAN"
           \/ lib = "bid" /\ width = 128 /\ ~Below(impl.mant, f.significands)

-----------------------------------------------------------------------------
(* What a comment says and the code does not do                             *)

\* libfpfd-dpd/x86_64/expand-x86_64.s:133, "Map the sign bit from (1, 0) to
\* (-1, +1)".
SignMapped == stage = "expanded" => impl.sign = meaning.sign
=============================================================================
