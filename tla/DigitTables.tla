---------------------------- MODULE DigitTables ----------------------------
(***************************************************************************)
(* The programs that write the tables of libfpfd-dpd when it is built:      *)
(* multable.c and divtable.c, which count decimally while they enumerate    *)
(* bytes, and dpdtable.c, which converts bit by bit.  One step prints one   *)
(* entry.  A number printed as 0x%u is the BCD word of its digits.          *)
(***************************************************************************)
EXTENDS BcdDigits

VARIABLES
  table,            \* the table that is printed
  lhs, rhs,         \* the indices of the loops; declets have only lhs
  lhs_dec, rhs_dec, \* the numbers that lhs and rhs stand for
  entry             \* the last line: its index and the value at it

vars == <<table, lhs, rhs, lhs_dec, rhs_dec, entry>>

Nothing == [table |-> "none", lhs |-> 0, rhs |-> 0, value |-> 0]

Init ==
  /\ table \in {"bcdmul", "bcddiv", "bcd2dpd", "dpd2bcd"}
  /\ lhs = 0 /\ rhs = 0 /\ lhs_dec = 0 /\ rhs_dec = 0
  /\ entry = Nothing

\* The BCD word of a number below 10000.
BcdWord(n) == 256 * Bcd(n \div 100) + Bcd(n % 100)

\* The bits of n, the most significant one first, and the number they make.
Bits(n, width)    == [i \in 0..(width - 1) |-> (n \div 2^(width - 1 - i)) % 2 = 1]
Number(s, width)  == LET f[i \in 0..width] == IF i = 0 THEN 0
                                              ELSE 2 * f[i-1] + (IF s[i-1] THEN 1 ELSE 0)
                     IN  f[width]

Printed(value) == entry' = [table |-> table, lhs |-> lhs, rhs |-> rhs, value |-> value]

Last == 153     \* 0x99

\* Mutant: the columns are not counted from zero again.
EmitDigitsNoReset ==
  /\ table \in {"bcdmul", "bcddiv"} /\ lhs <= Last
  /\ LET both == IsBcd(lhs) /\ IsBcd(rhs)
     IN  /\ Printed(IF ~both THEN 0
                    ELSE BcdWord(IF table = "bcdmul" THEN lhs_dec * rhs_dec
                                 ELSE TableQuotient(lhs_dec, rhs_dec)))
         /\ rhs' = (rhs + 1) % 256
         /\ lhs' = IF rhs = 255 THEN lhs + 1 ELSE lhs
         /\ lhs_dec' = IF rhs = 255 /\ IsBcd(lhs) THEN lhs_dec + 1 ELSE lhs_dec
         /\ rhs_dec' = IF both THEN (rhs_dec + 1) % 101 ELSE rhs_dec
  /\ UNCHANGED table

EmitDigits ==
  /\ table \in {"bcdmul", "bcddiv"} /\ lhs <= Last
  /\ LET both == IsBcd(lhs) /\ IsBcd(rhs)
     IN  /\ Printed(IF ~both THEN 0
                    ELSE BcdWord(IF table = "bcdmul" THEN lhs_dec * rhs_dec
                                 ELSE TableQuotient(lhs_dec, rhs_dec)))
         /\ rhs' = (rhs + 1) % 256
         /\ lhs' = IF rhs = 255 THEN lhs + 1 ELSE lhs
         /\ lhs_dec' = IF rhs = 255 /\ IsBcd(lhs) THEN lhs_dec + 1 ELSE lhs_dec
         /\ rhs_dec' = IF rhs = 255 /\ IsBcd(lhs) THEN 0
                       ELSE IF both THEN rhs_dec + 1 ELSE rhs_dec
  /\ UNCHANGED table

EmitDeclet ==
  /\ \/ /\ table = "bcd2dpd" /\ lhs <= 2457      \* 0x999
        /\ Printed(Number(Bcd2Dpd(Bits(lhs, 12)), 10))
     \/ /\ table = "dpd2bcd" /\ lhs <= 1023      \* 0x3FF
        /\ Printed(Number(Dpd2Bcd(Bits(lhs, 10)), 12))
  /\ lhs' = lhs + 1
  /\ UNCHANGED <<table, rhs, lhs_dec, rhs_dec>>

Next == EmitDigits \/ EmitDeclet

Spec == Init /\ [][Next]_vars

-----------------------------------------------------------------------------
(* The reference: table 3.3 of IEEE 754-2008, which numbers the bits of a   *)
(* declet as the generator does                                            *)

Octal(s, i)   == 4 * s[i] + 2 * s[i+1] + s[i+2]
Two(s, i, j)  == 4 * s[i] + 2 * s[j]

DecletDigits(n) ==
  LET s == [i \in 0..9 |-> (n \div 2^(9 - i)) % 2]
      small1 == Octal(s, 0)   small2 == Octal(s, 3)   small3 == Octal(s, 7)
      large1 == 8 + s[2]      large2 == 8 + s[5]      large3 == 8 + s[9]
      key == <<s[6], s[7], s[8]>>
      sub == <<s[3], s[4]>>
  IN  CASE s[6] = 0         -> <<small1, small2, small3>>
        [] key = <<1, 0, 0>> -> <<small1, small2, large3>>
        [] key = <<1, 0, 1>> -> <<small1, large2, Two(s, 3, 4) + s[9]>>
        [] key = <<1, 1, 0>> -> <<large1, small2, Two(s, 0, 1) + s[9]>>
        [] key = <<1, 1, 1>> ->
             CASE sub = <<0, 0>> -> <<large1, large2, Two(s, 0, 1) + s[9]>>
               [] sub = <<0, 1>> -> <<large1, Two(s, 0, 1) + s[5], large3>>
               [] sub = <<1, 0>> -> <<small1, large2, large3>>
               [] sub = <<1, 1>> -> <<large1, large2, large3>>

\* The BCD word 0xabc of three digits.
BcdOf(d) == 256 * d[1] + 16 * d[2] + d[3]

-----------------------------------------------------------------------------
\* The entry of two BCD bytes is the BCD word of the product or the quotient of
\* the numbers they stand for, although the generator counts instead of
\* converting; every other entry is zero.
DigitsRight ==
  entry.table \in {"bcdmul", "bcddiv"} =>
    IF IsBcd(entry.lhs) /\ IsBcd(entry.rhs)
    THEN LET a == 10 * (entry.lhs \div 16) + (entry.lhs % 16)
             b == 10 * (entry.rhs \div 16) + (entry.rhs % 16)
         IN  entry.value = BcdWord(IF entry.table = "bcdmul" THEN TableProduct(a, b)
                                   ELSE TableQuotient(a, b))
    ELSE entry.value = 0

\* Three digits are encoded as a declet that stands for them.
DecletEncoded ==
  (entry.table = "bcd2dpd" /\ \A k \in {1, 16, 256} : (entry.lhs \div k) % 16 <= 9) =>
    BcdOf(DecletDigits(entry.value)) = entry.lhs

\* A declet that stands for 8 or 9, one of 2 to 5, 8 or 9: the second bit of the
\* middle digit is copied from the wrong one (dpdtable.c:68).
WrongMiddle(n) ==
  /\ (n \div 2) % 8 = 7 /\ (n \div 32) % 4 = 1
  /\ (n \div 512) % 2 # (n \div 256) % 2

\* A declet, canonical or not, is decoded to the digits that it stands for.
DecletDecoded ==
  entry.table = "dpd2bcd" =>
    entry.value = BcdOf(DecletDigits(entry.lhs)) \/ WrongMiddle(entry.lhs)

-----------------------------------------------------------------------------
(* What a comment says and the code does not do                             *)

\* expand-x86_64.s:38, "Convert the trailing significand digits from DPD to BCD",
\* with the table: 828 becomes 808.
DecletsConverted == entry.table = "dpd2bcd" => entry.value = BcdOf(DecletDigits(entry.lhs))
=============================================================================
