------------------------------- MODULE Bench -------------------------------
(***************************************************************************)
(* The benchmark programs.  Each runs its loops one after the other: a      *)
(* trial of a loop draws operands, measures one or more expressions, and    *)
(* records each measurement under a key in a hash table of growing lists.   *)
(* Then it writes one file per key.  A measurement is named by its trial.   *)
(* hsearch, malloc, fopen, fclose and the timer are external: each may      *)
(* refuse.                                                                  *)
(***************************************************************************)
EXTENDS Naturals, Sequences, FiniteSets

CONSTANTS
  Programs,   \* of "fpfd", "gcc", "x86", "x86_64"
  MaxTrials,  \* bound on the trials asked for
  TableSize,  \* entries that hcreate(40) makes room for
  Unset       \* contents of a cell that was allocated and not written

ASSUME BenchAssumption ==
  Programs \subseteq {"fpfd", "gcc", "x86", "x86_64"} /\ MaxTrials \in Nat /\ TableSize \in Nat /\ Unset \notin Nat

VARIABLES
  program, status,
  trials,          \* the argument; any number when sscanf reads none
  loop, i, step,   \* position in the benchmarks: loop, trial, statement
  drawn,           \* locals written in this trial
  table,           \* key -> list of measurements
  next, files,     \* position in the results, and what has been written
  refused          \* history: an external call has refused

position == <<loop, i, step, drawn>>
vars == <<program, status, trials, position, table, next, files, refused>>

-----------------------------------------------------------------------------
(* The body of a trial: statements with the locals they write and read, and *)
(* the key under which their time is recorded                               *)

NoKey == <<"none", 0>>

Statement(writes, reads)    == [writes |-> writes, reads |-> reads, key |-> NoKey]
Measure(key, writes, reads) == [writes |-> writes, reads |-> reads, key |-> key]

Impl(v)    == <<"impl", v>>
Impls(vs)  == {Impl(v) : v \in vs}
Local(v)   == <<"fp", v>>
Locals(vs) == {Local(v) : v \in vs}

Random(vs)   == Statement(Locals(vs), {})
Expanded(vs) == <<Random(vs), Statement(Impls(vs), Locals(vs))>>

ImplExpand(w)   == <<Random({"fp"}), Measure(<<"impl_expand", w>>, {Impl("fp")}, {Local("fp")})>>
ImplCompress(w) == Expanded({"fp"}) \o <<Measure(<<"impl_compress", w>>, {Local("fp")}, {Impl("fp")})>>
ImplInc         == Expanded({"fp"}) \o <<Measure(<<"impl_inc", 32>>, {Impl("fp")}, {Impl("fp")})>>

Sides == {"lhs", "rhs"}

OfImpls(op, w) == Measure(<<op, w>>, {Impl("result")}, Impls(Sides))
ImplMul(w)     == Expanded(Sides) \o <<OfImpls("impl_mul", w)>>
ImplDiv        == Expanded(Sides) \o <<OfImpls("impl_div", 32)>>

\* Mutant: only the addition is recorded.
ImplAddOnly == Expanded(Sides) \o <<OfImpls("impl_add", 32)>>
ImplAddSub  == Expanded(Sides) \o <<OfImpls("impl_add", 32), OfImpls("impl_sub", 32)>>

\* The product is copied back before each scaling.
ImplScale ==
  Expanded(Sides) \o
    <<Statement({Impl("result")}, Impls(Sides)), Statement({Impl("backup")}, {Impl("result")}),
      Measure(<<"impl_scale", 32>>, {Impl("result")}, {Impl("backup")})>>

Call(op, w, operands) == Measure(<<op, w>>, {Local("result")}, Locals(operands))
Binary(op, w)         == <<Random(Sides), Call(op, w, Sides)>>

FpfdAdd == Binary("add", 32)
FpfdSub == Binary("sub", 32)
FpfdMul == Binary("mul", 32)
FpfdDiv == Binary("div", 32)

\* Mutant: the third operand is not drawn.
FmaOfTwo == <<Random({"a", "b"}), Call("fma", 32, {"a", "b", "c"})>>
Fma      == <<Random({"a", "b", "c"}), Call("fma", 32, {"a", "b", "c"})>>

\* The instructions of a processor; nothing is drawn.
Instructions(keys) == [k \in DOMAIN keys |-> Measure(keys[k], {}, {})]

Mul86    == <<<<"mul", 8>>, <<"mul", 16>>, <<"mul", 32>>>>
Div86    == <<<<"div", 8>>, <<"div", 16>>, <<"div", 32>>>>
Mul86_64 == <<<<"mul", 8>>, <<"mul", 16>>, <<"mul", 32>>, <<"mul", 64>>>>
Div86_64 == <<<<"div", 8>>, <<"div", 16>>, <<"div", 32>>, <<"div", 64>>>>
Empty    == <<<<"uncertainty", 0>>>>

Widths == <<32, 64, 128>>
ForAllWidths(Body(_)) == [k \in 1..3 |-> Body(Widths[k])]

GccAdd(w) == Binary("add", w)
GccSub(w) == Binary("sub", w)
GccMul(w) == Binary("mul", w)
GccDiv(w) == Binary("div", w)

FpfdLoops ==
  ForAllWidths(ImplExpand) \o
  <<ImplAddSub, ImplMul(32), ImplMul(64), ImplDiv, ImplInc, ImplScale>> \o
  ForAllWidths(ImplCompress) \o <<FpfdAdd, FpfdSub, FpfdMul, FpfdDiv, Fma>>

GccLoops ==
  ForAllWidths(GccAdd) \o ForAllWidths(GccSub) \o ForAllWidths(GccMul) \o ForAllWidths(GccDiv)

X86Loops    == <<Instructions(Mul86), Instructions(Div86), Instructions(Empty)>>
X86_64Loops == <<Instructions(Mul86_64), Instructions(Div86_64), Instructions(Empty)>>

Loops(p) ==
  CASE p = "fpfd" -> FpfdLoops [] p = "gcc" -> GccLoops
    [] p = "x86" -> X86Loops [] p = "x86_64" -> X86_64Loops

-----------------------------------------------------------------------------
(* The files, in the order in which they are written                        *)

Each(op) == [k \in 1..3 |-> <<op, Widths[k]>>]
Plain(ops) == [k \in DOMAIN ops |-> <<ops[k], 32>>]

FpfdResults ==
  Each("impl_expand") \o Plain(<<"impl_add", "impl_sub", "impl_mul">>) \o
  <<<<"impl_mul", 64>>>> \o Plain(<<"impl_div", "impl_scale", "impl_inc">>) \o
  Each("impl_compress") \o Plain(<<"add", "sub", "mul", "div", "fma">>)

\* The same operations for __dpd_ and for __bid_; a build has one of them.
GccResults == Each("add") \o Each("sub") \o Each("mul") \o Each("div")

\* The 32-bit program asks for the 64-bit instructions as well.
X86Results    == Mul86_64 \o Div86_64 \o Empty
X86_64Results == Mul86_64 \o Div86_64 \o Empty

Results(p) ==
  CASE p = "fpfd" -> FpfdResults [] p = "gcc" -> GccResults
    [] p = "x86" -> X86Results [] p = "x86_64" -> X86_64Results

\* xfopen and xfclose, or fopen and fclose.
ChecksFiles(p) == p \in {"x86", "x86_64"}

-----------------------------------------------------------------------------
(* Lists of measurements                                                   *)

NewList == [trials |-> 0, size |-> 0, capacity |-> 1, list |-> [j \in 0..0 |-> Unset]]

ListOf(key) == IF key \in DOMAIN table THEN table[key] ELSE NewList

\* Mutant: the list grows one measurement too late.
FullLate(l) == l.size > l.capacity

Full(l) == l.size = l.capacity

Grown(l) ==
  [trials |-> l.trials, size |-> l.size, capacity |-> 2 * l.capacity,
   list |-> [j \in 0..(2 * l.capacity - 1) |-> IF j < l.capacity THEN l.list[j] ELSE Unset]]

Stored(l, tick) ==
  [trials |-> l.trials + 1, size |-> l.size + 1, capacity |-> l.capacity,
   list |-> [l.list EXCEPT ![l.size] = tick]]

Saved(l, tick) == Stored(IF Full(l) THEN Grown(l) ELSE l, tick)

\* What save_ticks asks for: memory, and a place in the table for a new key.
Asks(key)    == key \in DOMAIN table => Full(table[key])
NoPlace(key) == key \notin DOMAIN table /\ Cardinality(DOMAIN table) >= TableSize

\* Mutant: every cell that was allocated is written.
ReportCapacity(l) == [rows |-> [j \in 0..(l.capacity - 1) |-> l.list[j]], over |-> l.trials]

\* One row per measurement, and the number by which mean_ticks and
\* stddev_ticks divide.
Report(l) == [rows |-> [j \in 0..(l.size - 1) |-> l.list[j]], over |-> l.trials]

-----------------------------------------------------------------------------
Init ==
  /\ program \in Programs /\ status = "starting"
  /\ trials = 0 /\ loop = 1 /\ i = 0 /\ step = 1 /\ drawn = {}
  /\ table = [k \in {} |-> NewList] /\ next = 1 /\ files = [k \in {} |-> Report(NewList)]
  /\ refused = FALSE

\* exit(EXIT_FAILURE) because of an external call.
Refuse == status' = "failure" /\ refused' = TRUE

\* main up to the benchmarks: the number of arguments, the number of trials,
\* the timer and the table.  A wrong number of arguments counts as a refusal.
Start ==
  /\ status = "starting"
  /\ UNCHANGED <<program, position, table, next, files>>
  /\ \/ Refuse /\ UNCHANGED trials
     \/ /\ trials' \in 0..MaxTrials
        /\ status' = "running" /\ UNCHANGED refused

Measuring == status = "running" /\ loop <= Len(Loops(program))

Body    == Loops(program)[loop]
Current == Body[step]

\* The next trial starts once the last statement is done.
Advance ==
  IF step = Len(Body)
  THEN i' = i + 1 /\ step' = 1 /\ drawn' = {} /\ UNCHANGED loop
  ELSE step' = step + 1 /\ drawn' = drawn \cup Current.writes /\ UNCHANGED <<loop, i>>

\* A statement that is not measured.
Prepare ==
  /\ Measuring /\ i < trials /\ Current.key = NoKey
  /\ Advance
  /\ UNCHANGED <<program, status, trials, table, next, files, refused>>

\* record_ticks after the measurement.
RecordTicks ==
  /\ Measuring /\ i < trials /\ Current.key # NoKey
  /\ UNCHANGED <<program, trials, next, files>>
  /\ \/ /\ Asks(Current.key)
        /\ Refuse
        /\ UNCHANGED <<position, table>>
     \/ /\ ~NoPlace(Current.key)
        /\ table' = [k \in DOMAIN table \cup {Current.key} |->
                       IF k = Current.key THEN Saved(ListOf(k), i) ELSE table[k]]
        /\ Advance
        /\ UNCHANGED <<status, refused>>

NextLoop ==
  /\ Measuring /\ i >= trials
  /\ loop' = loop + 1 /\ i' = 0
  /\ UNCHANGED <<program, status, trials, step, drawn, table, next, files, refused>>

Writing == status = "running" /\ loop > Len(Loops(program)) /\ next <= Len(Results(program))

Named == Results(program)[next]

OpenFile(report) ==
  files' = [k \in DOMAIN files \cup {Named} |-> IF k = Named THEN report ELSE files[k]]

WriteTicks ==
  /\ Writing /\ Named \in DOMAIN table
  /\ UNCHANGED <<program, trials, position, table>>
  /\ \/ /\ OpenFile(Report(table[Named]))
        /\ next' = next + 1 /\ UNCHANGED <<status, refused>>
     \/ /\ ChecksFiles(program)                \* xfclose
        /\ OpenFile(Report(table[Named]))
        /\ Refuse /\ UNCHANGED next

\* fprintf and fclose get the null pointer that fopen returned.
CannotOpen ==
  /\ Writing
  /\ status' = IF ChecksFiles(program) \/ Named \notin DOMAIN table THEN "failure" ELSE "crashed"
  /\ refused' = TRUE
  /\ UNCHANGED <<program, trials, position, table, next, files>>

\* xhsearch finds nothing; the file stays empty.
NotRecorded ==
  /\ Writing /\ Named \notin DOMAIN table
  /\ OpenFile(Report(NewList))
  /\ status' = "failure"
  /\ UNCHANGED <<program, trials, position, table, next, refused>>

Finish ==
  /\ status = "running" /\ loop > Len(Loops(program)) /\ next > Len(Results(program))
  /\ status' = "success"
  /\ UNCHANGED <<program, trials, position, table, next, files, refused>>

Next ==
  \/ Start \/ Prepare \/ RecordTicks \/ NextLoop
  \/ WriteTicks \/ CannotOpen \/ NotRecorded \/ Finish

BenchSpec == Init /\ [][Next]_vars

-----------------------------------------------------------------------------
(* Properties                                                              *)

\* Every list has room for its measurements, which fill it without a hole, is
\* at most twice as long as it must be, and counts as many trials as it has
\* measurements: the mean divides by the one and sums over the other
\* (htable.c:105-122).
SoundList(l) ==
  /\ l.size \in Nat /\ l.capacity \in Nat /\ l.trials = l.size
  /\ 1 <= l.size /\ l.size <= l.capacity
  /\ l.capacity = 1 \/ l.capacity <= 2 * (l.size - 1)
  /\ l.list \in [0..(l.capacity - 1) -> Nat \cup {Unset}]
  /\ \A j \in 0..(l.capacity - 1) : l.list[j] \in Nat <=> j < l.size

SoundLists == \A k \in DOMAIN table : SoundList(table[k])

\* A trial measures operands that were drawn in it, not the ones of an earlier
\* trial or none; and since the timer runs an expression many times, it does
\* not overwrite its operands: impl_scale.c keeps a copy for this,
\* impl_inc.c:33 does not.
FreshOperands ==
  Measuring /\ i < trials =>
    /\ Current.reads \subseteq drawn
    /\ Current.key \in {NoKey, <<"impl_inc", 32>>} \/ Current.writes \cap Current.reads = {}

\* A file that is not empty has the measurement of every trial, in order; after
\* a success every key that was recorded has its file.
FilesComplete ==
  /\ \A k \in DOMAIN files \cap DOMAIN table :
       files[k] = [rows |-> [j \in 0..(trials - 1) |-> j], over |-> trials]
  /\ status = "success" => DOMAIN files = DOMAIN table

\* A program that was refused nothing fails only when it was asked for no
\* trials, or when it is the 32-bit one, which never measures mulq
\* (x86/bench-x86.c:79-81 and mul-x86.c); and it crashes only when it was
\* refused a file that it does not check for.
FailsOnlyWhen ==
  /\ status = "failure" /\ ~refused => trials = 0 \/ (program = "x86" /\ Named = <<"mul", 64>>)
  /\ status = "crashed" => refused /\ ~ChecksFiles(program)
=============================================================================
