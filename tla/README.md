# A TLA+ model of FPFD

FPFD is a C library for decimal32 arithmetic: a portable core in C
(`libfpfd`) over an encoding library in assembly, of which there are two
(`libfpfd-bid`, binary integer significands, and `libfpfd-dpd`, densely packed
decimal), each for x86_64 and x86.  The project beside this README models the
core, both libraries on x86_64, the encodings on x86, the programs that generate
tables for the second library, and the benchmark programs; checks the models
with TLC on narrow formats; and proves theorems about them with TLAPS for every format.

The library is sequential, keeps no state of its own between calls, allocates
nothing and does no I/O.  What makes it hard is arithmetic in fixed registers,
two truncations that have to round like one, tables of constants written or
generated by hand-made formulas, exits for every border of the exponent range,
fields of three formats that one has to cut out of words of 64 bits, and calls
that alias their operands or call each other.  The benchmarks do allocate and
do I/O, and every external call of theirs may fail.

## Inventory

| Part | State | Operations | What makes it correct |
|---|---|---|---|
| Arithmetic calls: `libfpfd/{add,sub,mul,div,fma,nan}.c` | locals `op1`, `op2`, `rop`, `rem1`, `rem2`; the caller's `dest` and `*flags` | expand, propagate NaNs, dispatch on special values, operate, scale, round, compress; `fpfd32_fma` calls `_mul` and `_add` | the result is rounded once and correctly; only `dest` and `flags` change; the library only sees nonzero numbers |
| Rounding: `libfpfd/round.c`, `impl_inc`, `impl_odd` | the number, two remainders | merge two remainders, choose an action by mode, increment, raise flags, ternary value | no double rounding, no carry lost |
| Assignment, sign, predicates: `set.c`, `neg.c`, `pred.c` | none | constants, copy, negate, classify | |
| BID `addsub`, `scale` | two 64-bit mantissas aligned to 19 digits | align, divide by a power of ten, add or subtract, first digit of the rest; to 7 digits, to the exponent range | truncated, in the format, honest remainder |
| BID `div`, `mul` | quotient in a 64-bit register, remainder | hardware division, loop by 7 digits | exact, terminates, `divl` does not fault |
| DPD `addsub`, `scale` | two registers of 16 BCD digits | shift by nibbles, decimal add and subtract | as above |
| DPD `mul`, `div` | BCD registers, tables of products and quotients | multiply by pairs of digits; estimate two digits, multiply out, correct by decrements | the estimate is corrected to the digits, the loop ends |
| Encoding, both libraries, 32, 64 and 128 bits: `expand`, `compress` | the bytes of a datum, the fields of the structure | datum to expanded number and back | sign, kind, exponent and significand of the standard; non-canonical data are zeros |
| Table generators: `multable.c`, `divtable.c`, `dpdtable.c` | loop counters, decimal counters | print one entry | every entry is what its index asks for |
| `gcc.c` (both) | none | overrides of gcc's `_Decimal32` routines | a call of the core |
| Random data: `bench/random.c` | an uninitialised structure, the datum | draw until a nonzero number comes out, store it | what is stored is a number |
| Benchmarks: `bench/*.c` | operands of a trial, a hash table of growing lists, files | draw, measure, record, write | the lists have room, a file has every trial, a failure has a reason |
| x86 variants | register pairs | the same operations, some of them unfinished | as above |
| tests, build files, manual | | | |

The encoding library is chosen when linking; the core calls it through the
prototypes at the end of `fpfd_impl.h`.  The contract between the two is the
comment at `fpfd_impl.h:88-112`: a remainder is a digit, 0 for exact, 1 to 4 and
6 to 9 for the two sides of one half, 5 for a tie, 10 for an overflow, with bits
for "subnormalised" (0x10) and "unchanged" (0x20).

## Modules

| Module | Models | State and actions |
|---|---|---|
| `Decimal` | types of `fpfd.h`, `fpfd_impl.h`; the *reference*: exact values as rationals, `Position` of a value between two representable ones, correctly `Rounded` results | operators |
| `Rounding` | `round.c`, `inc-x86_64.s`, `odd-x86_64.s` | operators `Round`, `Combine` (round2), `Inc` |
| `Encoding` | the 32-bit BID routines at the level of fields, as `Fpfd` uses them | operators on data whose fields are kept apart |
| `Library` | what both libraries hand back: numbers, digits of a rest, the two ends of the range | operators |
| `LibraryContract` | the four routines of the library as `fpfd_impl.h` declares them, CONSTANT operators; what the core relies on (`LibraryDelivers`) | operators |
| `BidArith`, `DpdArith` | `addsub`, `mul`, `div`, `scale` of each library; wrap-around, the one wrong table entry and the short reciprocal of BID; estimates, equal products and exhausted divisions of DPD | operators on expanded numbers |
| `SumCall` | `impl_addsub` then `impl_scale`, as the calls run them; the exact sum they are compared with | `AddSub`, `ScaleSum` |
| `BidCall`, `DpdCall` | `SumCall` with the code of each library, its exceptions and properties | |
| `BidDivLoop` | `libfpfd-bid/x86_64/div-x86_64.s`, an instruction group at a time | `Divide`, `Lengthen` (one turn of `.Ldivloop`), `Digit` |
| `DpdDivLoop` | `libfpfd-dpd/x86_64/div-x86_64.s`, likewise | `AlignOperands`, `FirstEstimate`, `Ones`, `Multiply`, `FixEstimate`, `Subtract`, `LastDigit` |
| `BcdDigits` | the tables as the assembly uses them: products and quotients of two digits, declets | operators |
| `DigitTables` | the generators of the tables; the reference is table 3.3 of IEEE 754-2008 | `EmitDigits`, `EmitDeclet` |
| `Interchange`, `BidFormats`, `DpdFormats` | `expand` and `compress` of the three widths, bit by bit | operators on sets of bit numbers |
| `X86Formats` | `expand` and `compress` of 32 bits on x86, as differences to x86_64 | operators on sets of bit numbers |
| `Encodings` | `DigitTables`, then a caller that expands and compresses data, or the random data of `bench/random.c`; the reference is section 3.5.2 of IEEE 754-2008 | `Build`, `GiveDatum`, `GiveImpl`, `GiveSeed`, `ExpandDatum`, `CompressImpl`, `Draw`, `StoreDraw` |
| `Fpfd` | the C core, one action per step of a call; the library is that of `LibraryContract` | `Invoke`, `ExpandOperands`, `Dispatch`, `Operate`, `Scale`, `RoundResult`, `CompressResult`, `FmaOperate`, `FmaFallback`; `Set`, `SetConstant`, `SetUi`, `Neg`, `Query` |
| `GccCalls` | the calls that the two `gcc.c` make | operators |
| `FpfdAPI` | the promise to the caller: an abstract specification in which a call is one step | `Invoke`, `Return`, `Assign`, `SetUi`, `Query`, `Excuse` |
| `FpfdClaims` | a statement of a comment that the core does not keep | |
| `Bench` | the benchmark programs and `htable.c`, `x.c` | `Start`, `Prepare`, `RecordTicks`, `NextLoop`, `WriteTicks`, `CannotOpen`, `NotRecorded`, `Finish` |
| `MC...` | instances for TLC | |
| `RoundingProofs` | `round2`, `Round` and `Inc`; before them the laws of the table of powers of ten, of `Digits`, of division and of the digit that stands for a rest, which all proofs use | theorems, lemmas |
| `SumCallProofs` | exact sums on a grid below the register, for both libraries | lemmas |
| `BidCallProofs`, `DpdCallProofs`, `BidDivLoopProofs`, `DpdDivLoopProofs`, `FpfdProofs`, `BenchProofs` | theorems about the module of that name | invariants, theorems |

`Rounding` and `Library` extend `Decimal`, `Encoding` extends `Rounding`,
`BidArith` and `DpdArith` extend `Library`; `Fpfd` and `SumCall` extend `LibraryContract`; `SumCall` composes a library with
`Rounding`; `MCFpfd` links `Fpfd` with `BidArith` (`ImplAddSub <- BidAddSub` and
so on), on one digit in `MCFpfdSeq`, and `MCFpfdDpd` with `DpdArith`, as the linker does.  `Encodings`
composes the generators with the routines that look up what they print.

How `Fpfd` corresponds to the code: `mem` holds the data that the caller's
pointers refer to and the `temp` of `fpfd32_fma`; `dest` may be any of them, so
aliasing is part of the model.  `act` is the running function and `call` the one
that the user called; they differ inside the detour of `fpfd32_fma`.
`ExpandOperands` to `CompressResult` are the lines of the functions in their
order.  The five functions have one skeleton, so they share the actions; where
they differ (the sign handed to `addsub`, the action table, the single
remainder of `fpfd32_mul`) the action says so.  Locals that C leaves
uninitialised take any value of `Garbage`; a null `flags` pointer is a call
with `fp = FALSE`.

`DpdArith` states a BCD register as the number it stands for, and the additions
with 0x666... and the corrections after them as decimal additions; a shift by
4k bits is a multiplication or division by 10^k.  Where a register can hold
something that is not BCD (the correction of an estimate from zero), the model
keeps the modulus that the code has there.

In `Interchange` a word is the set of the numbers of its bits that are one.  The
three routines of a file differ in constants (`Format`), and in what looks like
slips; each slip is an operator with a comment (`BidCombAt`, `DecletAt`, `Kept`,
...).  `impl` keeps what the last call left in a field that a routine does not
store.

`Bench` measures nothing: a tick count is named by the trial it comes from.  The
body of each loop is a sequence of statements with the locals they write and
read and the key they are recorded under; `step` is the position in it.

Each mutant of a definition that stands in the modules ("Mutant:" in its
comment) is used only to show that a property can fail.

## What the runs check

The runs with arithmetic use a format of P = 2 digits with exponents -4..3
(P = 3 and -10..-4 in `bid_call`, P = 1 in `sequences`).  For BID, a register of 24 bits holds D = 7 digits, in place of 7 digits, -101..90,
64 bits and 19 digits.  The proportions are those of the code: `2P < D`, a
product fits in a register, and `10^D < Word < 2 * 10^D`, so that two aligned
mantissas can carry out of the register.  For DPD, D = 2P + 2 as 16 = 2*7 + 2.
Every exponent difference from 0 to beyond D and every exit of `scale`
(overflow, normal, subnormal, partial and total underflow) occurs.  `bid_call` has
three digits because the BID `scale` treats a subnormal by one digit otherwise than one by
more, and P - 1 is the most it can be; in this run one and two digits are shifted
out, with something lost before and without.  The DPD `scale` normalises and shifts in
one cut, however many digits that takes, so two digits suffice in `dpd_call` (three would
take its register of 2P + 2 digits out of TLC's integers).  The division of DPD uses P = 3 and D = 8, because with two
digits an estimate is never too large.

| Run | Question | Bounds |
|---|---|---|
| `div_loop` | Does the division loop of BID end, without a divide error, with an exact quotient and an honest digit, and is it what `BidDiv` computes in one step? | all pairs of mantissas 1..99 |
| `bid_call` | Do the two remainders of BID `addsub` and `scale`, each alone and combined by `round2`, tell the truth about the exact sum? | 21 mantissas (short, long, powers of ten, ties), three against seven exponents, both signs; 27 unrounded products up to 974 * 999 with exponents down to seven below the format; one far below it |
| `one_call` | Does one call implement `FpfdAPI`, are its locals of their types, and is what it stores within its field? | every pair of 50 data (signed zeros, non-canonical significand, infinities, both kinds of NaN), four operations, five modes, `dest` aliased with either operand; `fpfd32_fma` on triples of two sets; the overrides of gcc |
| `sequences` | Do results, flags and leftovers of one call harm the next? Does every call return? | two calls on two variables, all aliasings, with and without flags, any mixture with the other routines; one digit, exponents -1..1, three data; D = 5, a register of 17 bits. On this format TLC first evaluates the hypotheses of `FpfdProofs` on all triples of operands |
| `dpd_call` | The question of `bid_call` for DPD, and is what overflows large? | 15 mantissas, 16 products, three or six against eight exponents |
| `dpd_div` | How good are the estimates of DPD, how long does a correction take, what does an equality do, is the digit honest, does it end? | 44 dividends by 40 divisors of three digits |
| `dpd_calls` | Does the core linked with DPD keep `FpfdAPI`, and what does it need excuses for? | triples of two sets, five calls, five modes, overrides |
| `encodings` | Are all entries of the tables right, and does every datum of three widths (one on x86) mean to both libraries what it means to the standard? | all table entries; every leading six bits of a combination field, exponents and significands at their borders |
| `bench` | Do the lists have room, the files every trial, and a failure a reason? | up to nine trials (a list grows four times), 40 table entries, four programs |

The properties:

* `QuotientExact`, `RemainderExact`, `NoDivideError`, `MatchesBidDiv`,
  `Terminates` (`BidDivLoop`).
* `AddSubHonest`, `CombinedHonest`, `ZeroIsZero`, `InFormat`,
  `NoCarryAfterDivision` (`BidCall`); the first three and `OverflowIsLarge`
  (`DpdCall`), without an exception: the DPD sums are right everywhere.
* `EstimateNotTooSmall` (what the comment at `div-x86_64.s:66-67` promises),
  `FewFixes`, `DivisionExact`, `DigitHonest`, `MatchesDpdDiv`, `Terminates`
  (`DpdDivLoop`).
* `OperandsAreNumbers` (no `bsr` of zero, no `divl` by zero, no `assert(0)`),
  `Encodable` (compress does not mask), `FlagsSticky`, `Returns`,
  and the refinement `ImplementsAPI` (`Fpfd`); `OnlyDivisionIsDishonest`
  (`MCFpfdDpd`).
* `DigitsRight`, `DecletEncoded`, `DecletDecoded`, `ExpandedRight`,
  `CompressedRight`, `RandomIsNumber` (`Encodings`).
* `SoundLists`, `FreshOperands`, `FilesComplete`, `FailsOnlyWhen` (`Bench`).

**Exceptions.**  The code does not keep its contract everywhere.  Instead of
weakening a property to what holds, each case is a named predicate, as narrow
as the path in the code.  In `BidCall`: `WrongExponent` (`addsub-x86_64.s:388`),
`Reclaims` (212-220), `TooFar` (268-270), `ShortReciprocal` (446),
`LowHalfZero` (119, 241), `ScaleDrops` (`scale-x86_64.s:146-147, 191-211`).
`CombinedHonest` needs only three of them: the run and `BidCombinedHonest` show
that the other errors never reach the rounded result.  `ScaleDrops` is the loss of
the rest of scale's own normalisation, with nothing from `addsub`, behind a digit
0 or 5 that is shifted out alone or is the first of all digits; when two to P - 1
digits are shifted out (lines 148-176) the rest is merged, and that is checked
without an exception.  `ZeroIsZero` needs the first
two.  In `DpdDivLoop`: `equal` (a product that
equals what is left is decreased all the same), `LowHalfZero` (line 239) and
`Exhausted`.  In `Encodings`: `Misread` names for each datum the fields that come
out wrong, and no others may.  In `Fpfd` a call asks for an excuse, with a
reason that is part of the state: "remainder" (the combined remainder is
dishonest about the exact value kept in the history variable `exact`), "total
underflow", "RNDNA rounds to zero", "subtrahend not negated", "product rounded
alone".  An excused call must still return, write only `dest` and only raise
flags.

**Half.**  `Half` is the modulus of the low half of a BID register, which
`addsub` compares.  Ten bits in `bid_call` make `LowHalfZero` (a 0 or 5 that is not
made sticky) reachable for products, as 32 bits do at full width, and not for
plain operands, which would need another factor 2^20 at full width.  The DPD register has no such constant:
its low half is `10^(D/2)`.

**FewFixes.**  Forty is the bound at every precision: 90 turns out to be 50 when
a divisor that starts with 19 is looked up as 1.  `DpdFewFixes` proves it.

**Ternary values and flags.**  `FpfdAPI` promises what the code consistently
does where documentation is vague: the ternary value is the sign of
(exact - result); `FPFD_OVERFLOW` is raised when the exponent is too large
before rounding, not when rounding carries into an infinity; `FPFD_INEXACT` is
not raised together with it; `FPFD_UNDERFLOW` means nothing (see below) and is
not promised; ties in `FPFD_RNDN` go to even.

**Deadlock.**  Deadlock checking is off: a call sequence, a single call, a
division, a table and a benchmark all end, and the user need not make another
call (MaxCalls bounds them).

**Fairness.**  `Spec` of `Fpfd` has weak fairness of `Step`, and `BidDivLoop` and
`DpdDivLoop` of `Next`: code that has been called runs on, and nothing in it
waits for anything.  The caller's actions are not fair.

### Disagreements

Runs named `claim_*` check one statement of the repository each and fail:

| Claim | Code |
|---|---|
| `TiesAwayFromZero`: "ties away from zero" (`fpfd.h:31`) | no `break` after `case FPFD_RNDNA` (`round.c:149`), the mode truncates |
| `DecletsConverted`: "Convert the trailing significand digits from DPD to BCD" (`libfpfd-dpd/x86_64/expand-x86_64.s:38`) | one bit of the table is copied from the wrong one (`dpdtable.c:68`): 828 becomes 808 |
| `SignMapped`: "Map the sign bit from (1, 0) to (-1, +1)" (`libfpfd-dpd/x86_64/expand-x86_64.s:133`) | the sign of 64 and 128 bits is taken from the low half of the datum and stored where the mantissa is written later |

The first one and these are excused or left unpromised by `FpfdAPI`, or are exceptions of `BidCall`:

* `round.c:100`: `rem | 0x10` is always true, so every finite result raises
  `FPFD_UNDERFLOW` ("Non-zero underflow", `fpfd.h:46`).
* `mul.c:88`: the mantissa of an invalid result is uninitialised and is or-ed
  into the datum (`compress-x86_64.s:73-77`), which may make "a quiet NaN"
  (`fpfd_impl.h:38`) a signalling one.
* `sub.c:103`, `sub.c:84`: x - inf is inf, 0 - x is x.
* `fma.c:44`: a*b + 0 is rounded toward zero in every mode, with ternary
  value 0.
* `libfpfd-bid/x86_64/addsub-x86_64.s:216-219`: a reclaimed digit adds the whole
  complement of the rest and reports "exact": 1 - 1.5e-18 gives 1.05; the sum may
  also leave the register.
* `fpfd.h:30` says that `FPFD_RNDN` rounds ties toward zero; they go to even
  (`round.c:143`).
* `fpfd.texi:46` likens the ternary value to MPFR's; its sign is the opposite.
* an infinity made by `impl_inc` raises no `FPFD_OVERFLOW`
  (`inc-x86_64.s:43`), an overflow no `FPFD_INEXACT` (`round.c:99`).
* total underflow is reported as exact, and unsigned (`round.c:94`), although
  `fpfd_impl.h:102-105` says that 10 | 0x10 is converted to flags and a ternary value.
* `addsub-x86_64.s:164` says that a carry without division never happens; it
  does, and is handled well enough (`BidArith!AddMant`).
* `addsub` can return any 32 bits, 10 among them, as its remainder (268-270);
  the run `bid_call` shows that `scale` always drops it.

DPD division (`libfpfd-dpd/x86_64/div-x86_64.s`):

* a product equal to what is left is decreased once more (`jb` at 189), so an
  exact quotient is returned as the next smaller one with a rest of 9...
* when nothing is left and digits are missing (10/25), the estimate is zero, and
  the correction decreases a product of zero until it has wrapped around to zero:
  10^15 * 16 / gcd turns (`Exhausted`, excluded from `Terminates`).
* whether something follows the last digit is asked of the low 32 bits (239).

The routines of 64 and 128 bits, which only the benchmarks call:

* BID 64 `expand`: the special field of a quiet NaN is stored at the offset of
  the exponent (194).
* BID 128 `expand`: the combination field is cut out at bit 50 of the high word,
  where it begins at 46 (231).
* DPD 64 and 128 `expand`: the sign (129, 246); the exponent is masked one bit
  too wide (178, 349); the third declet loses its first digit in a 32-bit shift
  (157, 278).
* DPD 128 `expand`: the declets from the seventh on are read two bits too high
  (288-291), the ninth is or-ed in twice and the tenth not at all (318), a small
  leading digit is shifted the wrong way (335), the kind of an infinity is
  stored in the mantissa (426).
* DPD 128 `compress`: the seventh declet is stored again as the eighth (285), the
  tenth is shifted in 32 bits (303), the leading digit is the one below it (309),
  the bias is that of 64 bits (323).
* the constants for zero in the wider formats have exponent 6 and 288.
* `random.c:87`: because of the first of these, `fpfd64_random` may accept a
  quiet NaN as the number of an earlier turn.

On x86: `libfpfd-dpd/x86/compress-x86.s:48` shifts the mantissa left where it
takes the second three digits, so that they are stored as zeros in every number;
the NaNs do it right (108).  An infinity is expanded with its trailing bits as
the mantissa, which nothing reads.

Benchmarks: the 32-bit program asks for `mulq` and `divq`, which it never
measures, and exits (`x86/bench-x86.c:79`); `bench-fpfd.c` and `bench-gcc.c` do
not check `fopen`; `impl_inc.c:33` measures repeated increments of one number.

## What is proved

The theorems hold for every precision, exponent range, table of powers of ten
and register width that satisfies the `ASSUME`s of the modules, which TLC
evaluates on the instances.  Further hypotheses are named below; each is true of
the real widths, and where an instance does not meet one it is said there.

`RoundingProofs`: the table `Pow10` is described by a recurrence, so its laws
(`PowerSum`, `PowerOrder`, `PowerFactor`) are proved by induction.  The
library's induction theorems cannot be instantiated here; instead a law is turned
into the set of the numbers that obey it, and `SetInduction` (from the least
element of a set of naturals) shows that the set is all of them.
`DigitsMeaning` says that the `CHOOSE` of `Digits` finds the one length there
is; `Fraction`, the place of a rest in a unit, is what `Position` and
`DroppedDigit` are both reduced to (`FirstDigitClass`).

The theorems are about operators: `CombineIsHonest` (if n/d was truncated to m
with an honest digit, and m to a multiple of k with another, then the digit
that `round2` makes of both is honest about n/d: there is no double rounding),
`RoundIsCorrect` (from an honest digit, `Round` increments exactly when the
reference `RoundsUp` says so, in all modes but RNDNA), `RndnaTruncates` (the
missing `break`, for every number and digit), `IncIsOneUnit`; and together,
`RoundIsRounded` and `OverflowIsRounded`: the number, the ternary value and the
flags that `Round` returns are those of the correctly rounded exact value.

`BidDivLoopProofs`, from `DivAssumption` (a quotient of P-1 digits lengthened by
P fits in the register; ten times a divisor fits in its low half).  The
invariant `IInv` adds to the properties that inside the loop `q < 10^(P-1)`:
without this bound the product `q * 10^P` could wrap, and `QuotientExact` would
not be inductive.  From it: `DivTypeOK`, `DivQuotientExact`,
`DivRemainderExact`, `DivNoDivideError`; and `DivMatches`, that the loop computes
the operator `BidDiv` of the other models, which needs that `DivRounds` is the
number of turns.

`DpdDivLoopProofs`, under `Followed` (the bound on the decrements that are
followed is below the period of the register, so that a division with nothing
left is not followed through a whole period).  The invariant `DivInv`
says of each point of the loop what is found so far (`quotient * b + rest =
dividend`, with `rest = b` from the first equality on), that an estimate is at
least the two digits sought and at most forty more (`Right`, shown from
the leading digits of the operands), that `fixes` counts what has been taken off it, and that the
loop has done `n` steps of the recursion `Turns` (`Reached`, by which `DpdDivMatches`
follows).  From it: `DpdEstimateNotTooSmall`, `DpdFewFixes`, `DpdDivisionExact`,
`DpdDigitHonest`, `DpdDivMatches`.

`SumCallProofs`: an exact sum is infinite in principle, since the operands may
be any distance apart; the reference replaces what lies more than two digits
below the register by a single 1.  So everything happens on a grid three places
below the register (`OnGrid`).  `SmallCut` shows, for each of the ways in which
the smaller operand can lie (to the left, to the right by a few digits, by many,
out of reach), what quotient and rest are on that grid; `AlignedTotal` puts the two
operands together, and `SumOrder` chooses the larger.  `GridPosition` reads off the
place of a number, `WholeGrid` and `BelowGrid` are the two places that need no
remainder.

`DpdCallProofs`: `AddTruncates` and `SubTruncates` go through the carry, the
borrow and the change of sign.  `Begun` describes what `addsub` then returned,
`ScaleOutcome` what `scale` makes of it at each border of the exponent range, with
`CombineClass` of `RoundingProofs` for the two remainders.  The invariant
`SumInv` says that the variables hold what these lemmas are about.  From it:
`DpdAddSubHonest`, `DpdCombinedHonest`, `DpdZeroIsZero`, `DpdOverflowIsLarge`.

`DpdMulExact` is about the multiplication by table: a recursion over the pairs
of digits, which `Recursion` of `RoundingProofs` shows to have a value, adds up to
the product (`AddShiftedProduct`, by induction on the pairs).
`DpdLibraryDelivers` proves of libfpfd-dpd what the core relies on
(`LibraryDelivers`), for every precision: `TurnsType` follows the division loop,
its decreased estimates included, as far as the bound on the quotient; `CutFits` and
`ScaleFits` go through the branches of `scale`.

`BidCallProofs`: the same for libfpfd-bid, where less is true.  `AlignResult`
says that the two tables bring an operand to the left end of a register, except
for the wrong entry; `QuotientCut` and `FirstDigitSees`, what the tables of
reciprocals make of the smaller one; `AddOutcome` and `SubOutcome` go through the
carry without a division, the borrow, the short reciprocal, the operand out of
reach and the comparison of 32 bits.  They do not all leave an honest remainder,
so what `scale` gets is described twice.  `Truthful` is the contract, and holds
outside of `Excused`.  `Handed` is weaker and holds always, unless the exponent is
wrong or a digit is reclaimed: either the remainder is zero exactly when nothing
was cut off, or it is zero although something was, and then the digits of the sum
that `scale` will cut off are not all zeros (`Buried`); and a sum that lost
something has digits to spare.  That is enough for `CutDigits`, that the combined
remainder is honest, because a tie or an exact number is already broken by the
digits that `scale` drops.  `CutTwice` takes the two cuts of a subnormal together: what
the normalisation left is merged into the digit (`SubnormalRight`), or changes
nothing because the digit is neither 0 nor 5 or because `addsub` left something too; else
it is `ScaleDrops`.  `UnderflowRight` is the same when nothing of the number is left.
That `Handed` suffices is why `CombinedHonest` needs three exceptions
where `AddSubHonest` needs five, and the reason was not obvious: the proof
depends on at most one operand being a product (`Tails`).  The invariants are
`CallInv` (registers and format, for any sum, wrong ones included) and `SumInv`.
From them: `BidInFormat`, `BidNoCarryAfterDivision`, `BidAddSubHonest`,
`BidCombinedHonest`, `BidZeroIsZero`.

`BidLibraryDelivers` is again what the core needs: it proves of
libfpfd-bid the contract `LibraryDelivers`, which the theorems of `FpfdProofs`
assume, for every format with `Room`.  `ProductHands` and `QuotientShort` (a division
takes at most two turns, and its quotient has at most 2P digits) bound what `mul`
and `div` hand over, `SumRemainder` goes through the branches of `addsub`, and
`ScaleFits` through those of `scale`.  So the core linked with either library
keeps the promise of `FpfdAPI` wherever `Reach` and `PayloadsFit` hold, with an
excuse exactly where `FpfdAPI` allows one.

The hypotheses of the sums: `Linked` (the library linked in is this one);
`AddendPairs` (operands are nonzero numbers of up to 2P digits, the right one not
below the smallest exponent, as the core passes them) and, for BID, `ShortRight`
(the right one has at most P digits); `Room` (a register has two digits more than a
product, and the table of powers which the *reference* uses reaches two places
beyond the register; the code's does not have to; in `bid_call`, where a third digit
is worth more than a spare one, a register has only one digit more than a product, so
that run shows a case that the theorems leave out); for BID, `HalfSees` (what the
low half of a register is compared with is not a multiple of 2^32 when it is
`10^(D-1)` or comes from a number of the format: 10^18 has the factor 2 only
eighteen times, and j * 10^12 at most fifteen times).  `DpdOverflowIsLarge` asks for
a table of four places more than a register, because `Rounded` counts the digits of
the sum before it is truncated.  The real widths meet this with a longer table; the
instance of `dpd_call`, where numbers must stay below 2^31, does not: its table ends at
three.

The proofs corrected the model once.  `ZeroIsZero` of `BidCall` excused only the
wrong exponent; the attempt to prove it led to the sum that a reclaimed digit takes
out of the register, of which what is left is small enough to become a zero.
`Wrapping` in `MCBidCall` is such a pair of operands.

`FpfdProofs`: `FpfdFlagsSticky` holds whatever the encoding library does.
`FpfdInductive` and its corollaries `FpfdTypeOK`, `FpfdOperandsAreNumbers`,
`FpfdEncodable` are stated under `LibraryDelivers`, the part of the library's
contract that the core relies on: from nonzero numbers of the format, an
operation followed by `scale` gives a zero or a number of the format, of P digits
or of the smallest exponent (nothing is said of its value).  The invariant
`Inv` says of each point of a call which locals are numbers of the format, and
that the caller's data and `temp` stay storable; this is why the second inner
call of `fpfd32_fma` may expand what the first one compressed.

`FpfdImplementsAPI` is the refinement: every step of `Fpfd` is a step of
`FpfdAPI` or a stutter, for every number of calls, every aliasing and every
library that delivers.  Two more hypotheses are needed.  `Reach`: the table of
powers of ten is long enough for every sum that `fpfd32_fma` may form; only the
*reference* looks that far, so the real widths meet it with a longer table, and a
table of nine entries, which is what TLC's integers allow, meets it only for a
format as small as that of `sequences`.  `PayloadsFit`: a payload that
`fpfd32_impl_expand` lets through fits its field (10^6 below 2^20 in the code),
so that a NaN which is chosen comes out with the payload of the operand.

The argument has three layers.  Without states: `NanOutcome`, `SumOutcome`,
`ProductOutcome` and `QuotientOutcome` say that the action tables deliver what
IEEE 754-2008 says of special operands; `ComputedIsPromised`, that a call whose
combined remainder is honest and rounded by `fpfd_round` delivers the exact value
correctly rounded (here the two theorems of `RoundingProofs` are used); and
`InnerProduct`, `InnerSum`, that what `fpfd32_fma` computes by `fpfd32_mul` into
`temp` followed by `fpfd32_add` is what was promised of the fused operation,
unless the product was rounded on its own.  With states: the invariant `Link`
says at each point what the call has settled already: that the operands are still
those of the caller (the destination may be one of them), which of the two inner
calls runs, what `temp` holds between them, which flags have been raised so far, and
what exact value the operation stands for.  It is needed because the promise
speaks of the data at the return of the call and of all flags together, and both
are produced by several steps.  Last, each action preserves `Link` (`...Link`) and
maps to a step of the abstract specification (`...Step`).

The proof corrected the model twice.  An excuse was due where a remainder is
dishonest, and `Honest` did not look at the sign of the number, nor did it
refuse a remainder that stands for no digit at all; a library with such a result
would have gone without an excuse.

The hypotheses can be met together: before `sequences` starts, TLC evaluates all
three for libfpfd-bid on every pair and triple of operands of a format of one
digit (the `ASSUME` of `MCFpfdSeq`).

`BenchProofs`, for any number of trials, any table size and any choice of
programs.  `BenchSoundLists`: no list is written behind its end, none has a hole,
and the divisor of the mean is the number of measurements; the invariant `IInv`
adds the types of the counters.  `BenchFreshOperands` is about the bodies of the
loops (`Fresh`).  `BenchFilesComplete` and `BenchFailsOnlyWhen` come from `CInv`,
which says where in the program each result is recorded (`PlaceOf`) and
from that how many measurements its list must have at each point (`Count`): a
program that reaches its end has recorded every key that it names, except the one
of the 32-bit program.

Only model-checked: liveness (`Terminates`, `Returns`: fairness is beyond the
prover); `OnlyDivisionIsDishonest`, which
is about a whole call; and the tables and encodings, which have no parameter: the run
goes through every entry, so a proof would add nothing.

## What is not modelled

* The arithmetic on x86.  `libfpfd-bid/x86/addsub-x86.s` stops after two bit
  scans and stores registers that nothing has written, and `mul` and `div` of
  `libfpfd-dpd/x86` compute a sign and an exponent only: neither library can
  serve the core yet.  The DPD `addsub` is written out, but a reader finds that
  it shifts one half of the operand twice and the other not at all (136, 247)
  and counts shifts beyond 32 that the processor reduces (316, 326, 346, 356), so
  its registers do not stay decimal.
* 64-bit arithmetic: `fpfd64_impl_mul` of BID, a product in two registers that
  only a benchmark calls.  (`libfpfd/set.c:48-52` has a second definition of it,
  with an empty body.)
* The branches of `addsub` after a carry or borrow that follows a division:
  `NoCarryAfterDivision` shows them unreachable on the instance, and
  `BidNoCarryAfterDivision` for every register.
  `.Lspecial6` to `.Lspecial9` of `scale` follow a `ret` and have no label
  referenced from reachable code.
* The tables of powers, reciprocals and exponents of the BID `addsub` are
  modelled by the formulas that their entries follow, and reciprocal multiplications as the
  integer divisions that they compute, but for the one entry of each kind that
  is wrong (`BadBsr`, the reciprocal of 10^18).  The entries of the source agree
  with the formulas one by one, and the reciprocals are exact below 10^19, which bounds
  every operand; this was computed outside of the model, and no run would see
  another entry go wrong.
* The test for a null `flags` pointer, which the code has at each place that
  raises one, is one operator (`Raise`).
* The correction of a DPD division with nothing left (`div-x86_64.s:207`): it is
  outside of `Terminates` as `Exhausted`, because it takes up to 10^15 * 16 turns.
* In the encodings run the numbers and NaNs of 128-bit DPD are outside of
  `CompressedRight`: too many of their bits come from the wrong place to name each.
* The `.size` and `.align` lines that the generators print (the sizes do not
  match the tables), and the text of the files that the benchmarks write.
* The random generator: a draw is any datum of the instance.
* `fpfd_encoding`, tests, build files.
* Functions declared in `fpfd.h` that no file defines (comparisons,
  `fpfd32_set_si`, `fpfd32_copysign`).
* Pointers to invalid memory, and a `rnd` outside its enumeration.

## Plan

Done: the core (`Fpfd`, `FpfdAPI`), the arithmetic of both libraries on x86_64
and their division loops, the encodings and tables, the benchmarks, and the
proofs above.  Next:

1. The arithmetic on x86, when it is finished.
