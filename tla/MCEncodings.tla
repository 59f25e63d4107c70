---------------------------- MODULE MCEncodings ----------------------------
(* Data for the interchange formats: every combination of the six bits that *)
(* tell the kind of a datum, exponents and significands at their borders.   *)
EXTENDS Encodings

MCLeft == {Expanded({}, 0, 1, "NUMBER"), Expanded({}, 0, -1, "INF")}

Combs(g) ==
  LET rest == g.comb - 6
  IN  {Shl(first, rest) \cup low :
         first \in SUBSET (0..5), low \in {{}, {0}, {rest - 1}, 0..(rest - 1)}}

\* Next to the largest significand and payload; 10^n ends with zeros.
BidTails(g) ==
  LET last == 0..(g.t - 1)
      less(n) == LET low == CHOOSE i \in n : \A j \in n : i <= j
                 IN  (n \ {low}) \cup (0..(low - 1))
  IN  {{}, {0}, last} \cup {n \cap last : n \in {g.significands, less(g.significands)}}
        \cup {g.payloads, less(g.payloads)}

\* A digit in one declet, a declet of every kind, and the one that is decoded
\* wrongly.
DpdTails(g) ==
  LET n == g.t \div 10
  IN  {{}, 0..(g.t - 1), {9, 3, 2, 1}, UNION {Shl(BitsOf(91 * i + 9, 10), 10 * i) : i \in 0..(n - 1)}}
        \cup {{10 * i} : i \in 0..(n - 1)}

\* Every kind with two significands; some kinds with every significand.
MCData(l, g) ==
  LET tails == IF l \in {"bid", "bid_x86"} THEN BidTails(g) ELSE DpdTails(g)
      some  == {{}, 0..(g.comb - 1), 0..(g.comb - 3), (g.comb - 5)..(g.comb - 1), {g.comb - 1, g.comb - 2, g.comb - 4}}
      sign  == {{}, {g.w - 1}}
  IN  {s \cup Shl(c, g.t) \cup t : s \in sign, c \in Combs(g), t \in {{}, 0..(g.t - 1)}}
        \cup {s \cup Shl(c, g.t) \cup t : s \in sign, c \in some, t \in tails}

\* A zero, a quiet NaN, an infinity, small and large significands.
MCDraws(l, g) ==
  {Shl(c, g.t) \cup t :
     c \in {{}, (g.comb - 5)..(g.comb - 1), {g.comb - 2, g.comb - 3, g.comb - 4, g.comb - 1}, {1},
            {g.comb - 1, g.comb - 2, g.comb - 6}, 0..(g.comb - 6)},
     t \in {{}, {0}, 0..(g.t - 1)}} \cup {{g.w - 1, 0}}
=============================================================================
