---------------------------- MODULE MCBidDivLoop ----------------------------
(* BidDivLoop on a narrow format: two digits, a 24-bit register.           *)
EXTENDS BidDivLoop

MCPow10 == [k \in 0..9 |-> 10^k]
MCPow2 == [b \in 0..24 |-> 2^b]
MCEMin == -4
MCMantissas == 1..99
=============================================================================
