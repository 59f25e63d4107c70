------------------------------ MODULE MCDpdCall ------------------------------
(* DpdCall on a format of two digits and a register of six.                 *)
EXTENDS DpdCall

MCPow10 == [k \in 0..9 |-> 10^k]
MCEMin == -4

Num(ms, es, ss) == [mant : ms, exp : es, sign : ss, special : {"NUMBER"}]

Mants == {1, 2, 5, 9, 10, 11, 25, 45, 49, 50, 51, 75, 90, 98, 99}
Products == {100, 5000, 7350, 9801} \cup {a * b : a \in {5, 25, 64, 99}, b \in {7, 41, 50}}

\* The exponents take the operands from the same place to more than a register
\* apart, on both sides, and the sum through every exit of scale.
MCOperands ==
  (Num(Mants, {-4, -1, 3}, {1}) \X Num(Mants, -4..3, {1}))
    \cup (Num(Products, {-7, -6, -4, -1, 1, 3}, {1}) \X Num({1, 5, 10, 49, 50, 51, 99}, -4..3, {1}))
    \cup (Num({1, 99, 100, 5000}, {-9, 9}, {1}) \X Num({1, 50, 99}, {-4, -3, 3}, {1}))
=============================================================================
