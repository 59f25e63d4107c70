---------------------------- MODULE MCDpdDivLoop ----------------------------
(* DpdDivLoop on a format of three digits, so that an estimate from the     *)
(* leading two of the divisor can be too large, and a register of eight.    *)
EXTENDS DpdDivLoop

MCPow10 == [k \in 0..9 |-> 10^k]
MCEMin == -4

\* Dividends of every length and divisors whose third digit matters more and
\* less; among them are equal products, exhausted divisions (595 / 119) and
\* rests that the low half of a register does not show (7, 9).
MCPairs ==
  ((1..25) \cup {99, 100, 101, 119, 209, 238, 333, 499, 500, 501, 595, 714, 833, 909, 950, 989, 990, 998, 999})
    \X ((1..12) \cup {17, 19, 25, 64, 99, 100, 101, 109, 119, 128, 149, 179, 189, 190, 199, 209, 299, 333,
                      495, 512, 599, 769, 899, 909, 989, 990, 991, 999})
=============================================================================
