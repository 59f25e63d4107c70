------------------------------ MODULE MCBidCall ------------------------------
(* BidCall on a format of three digits, the fewest with which scale can shift *)
(* two of them out of a subnormal number and keep one, and a 24-bit register. *)
EXTENDS BidCall

MCPow10 == [k \in 0..9 |-> 10^k]
MCPow2 == [b \in 0..24 |-> 2^b]
MCEMin == -10
MCEMax == -4

Num(ms, es) == [mant : ms, exp : es, sign : {1}, special : {"NUMBER"}]

\* Short and long mantissas, powers of ten and their neighbours, ties.
Mants == {1, 2, 5, 6, 9, 10, 11, 15, 45, 50, 64, 95, 99, 100, 101, 250, 500, 501, 750, 995, 999}

Sums == Num(Mants, {-10, -7, -4}) \X Num(Mants, -10..-4)

\* Products of two mantissas, as fpfd32_fma passes them.  Six of them have a
\* rest behind a digit 0 or 5 that is zero in the ten low bits of a register, as
\* others have in 32 bits at full width.
Products == {a * b : a \in {1, 64, 350, 999}, b \in {5, 41, 100, 429, 976}}
              \cup {9900, 40768, 69488, 265512, 502048, 808192, 847952}

Fmas == Num(Products, {-17, -16, -15, -14, -13, -12, -10, -7, -5})
          \X Num({1, 2, 5, 9, 50, 100, 101, 501, 999}, -10..-4)

\* A product far below the smallest number: the reclaimed digit takes the sum
\* out of the register.
Wrapping == Num({2425}, {2 * MCEMin + 1}) \X Num({1}, {MCEMin})

\* The larger operand, in units of the last digit of the reference sum, takes no
\* more than half of what an integer of TLC holds.
Holds(a, b) ==
  LET k == a.exp - MaxOf(b.exp, Horizon(a) - 1) IN k <= 0 \/ a.mant <= 2^30 \div MCPow10[k]

MCOperands == {p \in Sums \cup Fmas \cup Wrapping : Holds(p[1], p[2]) /\ Holds(p[2], p[1])}
=============================================================================
