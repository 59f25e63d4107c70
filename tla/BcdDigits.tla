----------------------------- MODULE BcdDigits -----------------------------
(***************************************************************************)
(* Digits as libfpfd-dpd keeps them: in binary-coded decimal, four bits to  *)
(* a digit, and densely packed, ten bits to three.  The tables that the     *)
(* assembly looks products, quotients and declets up in are operators here; *)
(* module DigitTables is the program that writes them.                      *)
(***************************************************************************)
EXTENDS Integers

\* The BCD byte of a number below 100.
Bcd(n) == 16 * (n \div 10) + (n % 10)

\* Is every digit of the byte one?
IsBcd(byte) == byte % 16 <= 9 /\ byte \div 16 <= 9

\* fpfd_bcdmul and fpfd_bcddiv, on numbers below 100.
TableProduct(a, b)  == a * b
TableQuotient(a, b) == IF b = 0 THEN 0 ELSE a \div b

-----------------------------------------------------------------------------
(* Declets.  s is a function from bit numbers to BOOLEAN; bit 0 is the most  *)
(* significant one, as in the generator.                                    *)

\* Mutant: the third digit is forgotten.
AnyLargeOfTwo(s) == s[0] \/ s[4]
AnyLarge(s)      == s[0] \/ s[4] \/ s[8]

Bcd2Dpd(s) == [i \in 0..9 |->
  CASE i = 0 -> s[1] \/ (s[0] /\ s[9])  \/ (s[0] /\ s[5] /\ s[8])
    [] i = 1 -> s[2] \/ (s[0] /\ s[10]) \/ (s[0] /\ s[6] /\ s[8])
    [] i = 2 -> s[3]
    [] i = 3 -> (s[5] /\ ~(s[0] /\ s[8])) \/ (~s[0] /\ s[4] /\ s[9]) \/ (s[4] /\ s[8])
    [] i = 4 -> s[6] \/ (~s[0] /\ s[4] /\ s[10]) \/ (s[0] /\ s[8])
    [] i = 5 -> s[7]
    [] i = 6 -> AnyLarge(s)
    [] i = 7 -> s[0] \/ (s[4] /\ s[8]) \/ (~s[4] /\ s[9])
    [] i = 8 -> s[4] \/ (s[0] /\ s[8]) \/ (~s[0] /\ s[10])
    [] i = 9 -> s[11]]

\* Does the first digit stand in the first three bits?  Mutant: the case of two
\* large digits after it is forgotten.
SmallFirstShort(s) == ~(s[6] /\ s[7])
SmallFirst(s)      == ~(s[6] /\ s[7]) \/ (s[3] /\ ~s[4] /\ s[8])

Dpd2Bcd(s) == [i \in 0..11 |->
  CASE i = 0  -> s[6] /\ s[7] /\ (~s[3] \/ s[4] \/ ~s[8])
    [] i = 1  -> s[0] /\ SmallFirst(s)
    [] i = 2  -> s[1] /\ SmallFirst(s)
    [] i = 3  -> s[2]
    [] i = 4  -> s[6] /\ s[8] /\ (~s[7] \/ ~s[4] \/ s[3])
    [] i = 5  -> \/ s[3] /\ ~(s[6] /\ s[8])
                 \/ s[0] /\ ~s[3] /\ s[4] /\ s[6] /\ s[7] /\ s[8]
    [] i = 6  -> (s[4] /\ ~(s[6] /\ s[8])) \/ (s[0] /\ ~s[3] /\ s[4] /\ s[7])
    [] i = 7  -> s[5]
    [] i = 8  -> s[6] /\ ((~s[7] /\ ~s[8]) \/ (s[7] /\ s[8] /\ (s[3] \/ s[4])))
    [] i = 9  -> \/ ~s[6] /\ s[7]
                 \/ s[3] /\ s[6] /\ ~s[7] /\ s[8]
                 \/ s[0] /\ s[7] /\ (~s[8] \/ (~s[3] /\ ~s[4]))
    [] i = 10 -> \/ ~s[6] /\ s[8]
                 \/ s[4] /\ ~s[7] /\ s[8]
                 \/ s[1] /\ s[6] /\ s[7] /\ (~s[8] \/ (~s[3] /\ ~s[4]))
    [] i = 11 -> s[9]]
=============================================================================
