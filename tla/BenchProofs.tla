---------------------------- MODULE BenchProofs ----------------------------
(***************************************************************************)
(* Theorems about the benchmark programs, for every number of trials and    *)
(* every size of the table.  Lists, whatever is measured: BenchSoundLists.  *)
(* Then the order of what is measured: a place in a program (loop, trial,   *)
(* statement) determines how long each list is and what is in it (CInv),    *)
(* since each result has one statement that records it (WellFormed, shown   *)
(* program by program).                                                     *)
(***************************************************************************)
EXTENDS Bench, TLAPS

\* A list with room for another measurement.
HasRoom(l) ==
  /\ l.size \in Nat /\ l.capacity \in Nat /\ l.trials = l.size /\ l.size < l.capacity
  /\ l.capacity = 1 \/ l.capacity <= 2 * l.size
  /\ l.list \in [0..(l.capacity - 1) -> Nat \cup {Unset}]
  /\ \A j \in 0..(l.capacity - 1) : l.list[j] \in Nat <=> j < l.size

LEMMA NewHasRoom == HasRoom(NewList)
BY BenchAssumption DEF HasRoom, NewList

\* A full list is doubled before the cell after the last one is written
\* (htable.c:95-102).
LEMMA GrownHasRoom ==
  ASSUME NEW l, SoundList(l)
  PROVE  HasRoom(IF Full(l) THEN Grown(l) ELSE l)
<1>1. CASE ~Full(l)
  BY <1>1 DEF HasRoom, SoundList, Full
<1>2. CASE Full(l)
  <2>1. l.capacity \in Nat /\ l.capacity >= 1 /\ l.size = l.capacity /\ l.trials = l.size
    BY <1>2 DEF SoundList, Full
  <2>2. \A j \in 0..(l.capacity - 1) : l.list[j] \in Nat
    BY <2>1 DEF SoundList
  <2>3. Grown(l).list \in [0..(2 * l.capacity - 1) -> Nat \cup {Unset}]
    BY <2>1, <2>2 DEF Grown
  <2>4. \A j \in 0..(2 * l.capacity - 1) : Grown(l).list[j] \in Nat <=> j < l.size
    BY <2>1, <2>2, BenchAssumption DEF Grown
  <2>5. HasRoom(Grown(l))
    BY <2>1, <2>3, <2>4 DEF HasRoom, Grown
  <2> QED BY <2>5, <1>2
<1> QED BY <1>1, <1>2

LEMMA StoredIsSound ==
  ASSUME NEW l, NEW tick \in Nat, HasRoom(l)
  PROVE  SoundList(Stored(l, tick))
<1>1. l.size \in 0..(l.capacity - 1)
  BY DEF HasRoom
<1>2. Stored(l, tick).list \in [0..(l.capacity - 1) -> Nat \cup {Unset}]
  BY <1>1 DEF HasRoom, Stored
<1>3. \A j \in 0..(l.capacity - 1) : Stored(l, tick).list[j] \in Nat <=> j < l.size + 1
  BY <1>1 DEF HasRoom, Stored
<1> QED
  BY <1>1, <1>2, <1>3 DEF HasRoom, SoundList, Stored

-----------------------------------------------------------------------------
IInv ==
  /\ i \in Nat
  /\ \A k \in DOMAIN table : SoundList(table[k])

\* After any number of trials, of any program and whatever is refused, the
\* lists are sound: no measurement is written past the end of its list, and
\* the divisor of its mean is the number of its measurements (htable.c:68-103).
THEOREM BenchSoundLists == BenchSpec => []SoundLists
<1>1. Init => IInv
  BY DEF Init, IInv
<1>2. IInv /\ [Next]_vars => IInv'
  <2> SUFFICES ASSUME IInv, [Next]_vars PROVE IInv'
    OBVIOUS
  <2> USE DEF IInv
  <2>1. CASE Start
    BY <2>1 DEF Start, position
  <2>2. CASE Prepare
    BY <2>2 DEF Prepare, Advance
  <2>3. CASE RecordTicks
    <3>1. CASE Refuse /\ UNCHANGED <<position, table>>
      BY <3>1 DEF position
    <3>2. CASE /\ table' = [k \in DOMAIN table \cup {Current.key} |->
                              IF k = Current.key THEN Saved(ListOf(k), i) ELSE table[k]]
               /\ Advance
      <4>1. i' \in Nat
        BY <3>2 DEF Advance
      <4>2. \A k : HasRoom(IF Full(ListOf(k)) THEN Grown(ListOf(k)) ELSE ListOf(k))
        <5> TAKE k
        <5>1. CASE k \in DOMAIN table
          BY <5>1, GrownHasRoom DEF ListOf
        <5>2. CASE k \notin DOMAIN table
          <6>1. ~Full(NewList)
            BY DEF Full, NewList
          <6> QED BY <5>2, <6>1, NewHasRoom DEF ListOf
        <5> QED BY <5>1, <5>2
      <4>3. \A k : SoundList(Saved(ListOf(k), i))
        BY <4>2, StoredIsSound DEF Saved
      <4> QED BY <3>2, <4>1, <4>3
    <3> QED BY <2>3, <3>1, <3>2 DEF RecordTicks
  <2>4. CASE NextLoop
    BY <2>4 DEF NextLoop
  <2>5. CASE WriteTicks
    BY <2>5 DEF WriteTicks, position
  <2>6. CASE CannotOpen
    BY <2>6 DEF CannotOpen, position
  <2>7. CASE NotRecorded
    BY <2>7 DEF NotRecorded, position
  <2>8. CASE Finish
    BY <2>8 DEF Finish, position
  <2>9. CASE UNCHANGED vars
    BY <2>9 DEF vars, position
  <2> QED BY <2>1, <2>2, <2>3, <2>4, <2>5, <2>6, <2>7, <2>8, <2>9 DEF Next
<1>3. IInv => SoundLists
  BY DEF IInv, SoundLists
<1> QED BY <1>1, <1>2, <1>3, PTL DEF BenchSpec

-----------------------------------------------------------------------------
(* The bodies of the loops                                                 *)

\* What a statement reads was written before it in the same trial, and a
\* measured statement but one leaves what it reads alone.
Fresh(body) ==
  /\ Len(body) \in Nat \ {0}
  /\ \A s \in 1..Len(body) :
       /\ \A v \in body[s].reads : \E t \in 1..(s - 1) : v \in body[t].writes
       /\ body[s].key \in {NoKey, <<"impl_inc", 32>>} \/ body[s].writes \cap body[s].reads = {}

\* A body of n statements of which the last one is measured.
MeasuresLast(body, n, key) ==
  /\ Fresh(body) /\ Len(body) = n
  /\ \A s \in 1..n : body[s].key = IF s = n THEN key ELSE NoKey

LEMMA TwoStatements ==
  ASSUME NEW vs, NEW op, NEW w, NEW writes, op # "none",
         writes \cap Locals(vs) = {} \/ <<op, w>> = <<"impl_inc", 32>>
  PROVE  MeasuresLast(<<Random(vs), Measure(<<op, w>>, writes, Locals(vs))>>, 2, <<op, w>>)
<1> DEFINE b == <<Random(vs), Measure(<<op, w>>, writes, Locals(vs))>>
<1>1. Len(b) = 2 /\ b[1] = Random(vs) /\ b[2] = Measure(<<op, w>>, writes, Locals(vs))
  OBVIOUS
<1>2. b[1].key = NoKey /\ b[1].reads = {} /\ b[1].writes = Locals(vs)
  BY <1>1 DEF Random, Statement
<1>3. b[2].key = <<op, w>> /\ b[2].reads = Locals(vs) /\ b[2].writes = writes
  BY <1>1 DEF Measure
<1> HIDE DEF b
<1>4. MeasuresLast(b, 2, <<op, w>>)
  BY <1>1, <1>2, <1>3 DEF MeasuresLast, Fresh
<1> QED
  BY <1>4 DEF b

\* Draw operands, expand them, measure something on the expanded ones.
LEMMA ThreeStatements ==
  ASSUME NEW vs, NEW op, NEW w, NEW writes,
         writes \cap Impls(vs) = {} \/ <<op, w>> = <<"impl_inc", 32>>
  PROVE  MeasuresLast(Expanded(vs) \o <<Measure(<<op, w>>, writes, Impls(vs))>>, 3, <<op, w>>)
<1> DEFINE e == Expanded(vs)
           m == <<Measure(<<op, w>>, writes, Impls(vs))>>
           b == e \o m
<1>1. /\ e = [k \in 1..2 |-> e[k]] /\ e[1] = Random(vs) /\ e[2] = Statement(Impls(vs), Locals(vs))
      /\ m = [k \in 1..1 |-> m[k]] /\ m[1] = Measure(<<op, w>>, writes, Impls(vs))
  BY DEF Expanded
<1> HIDE DEF e, m
<1>2. b = [k \in 1..3 |-> IF k <= 2 THEN e[k] ELSE m[k - 2]]
  BY <1>1
<1>3. /\ Len(b) = 3 /\ b[1] = Random(vs) /\ b[2] = Statement(Impls(vs), Locals(vs))
      /\ b[3] = Measure(<<op, w>>, writes, Impls(vs))
  BY <1>1, <1>2
<1>4. /\ b[1].key = NoKey /\ b[1].reads = {} /\ b[1].writes = Locals(vs)
      /\ b[2].key = NoKey /\ b[2].reads = Locals(vs) /\ b[2].writes = Impls(vs)
      /\ b[3].key = <<op, w>> /\ b[3].reads = Impls(vs) /\ b[3].writes = writes
  BY <1>3 DEF Random, Statement, Measure
<1> HIDE DEF b
<1>5. MeasuresLast(b, 3, <<op, w>>)
  BY <1>3, <1>4 DEF MeasuresLast, Fresh
<1> QED
  BY <1>5 DEF b, e, m

\* The locals of different names and kinds are different.
LEMMA LocalsDiffer ==
  /\ {Local("result")} \cap Locals(Sides) = {}
  /\ {Local("result")} \cap Locals({"a", "b", "c"}) = {}
  /\ {Impl("fp")} \cap Locals({"fp"}) = {} /\ {Local("fp")} \cap Impls({"fp"}) = {}
  /\ {Impl("result")} \cap Impls(Sides) = {} /\ {Impl("result")} \cap {Impl("backup")} = {}
BY DEF Local, Locals, Impl, Impls, Sides

LEMMA ShortBodies ==
  ASSUME NEW w
  PROVE  /\ MeasuresLast(ImplExpand(w), 2, <<"impl_expand", w>>)
         /\ MeasuresLast(ImplCompress(w), 3, <<"impl_compress", w>>)
         /\ MeasuresLast(ImplMul(w), 3, <<"impl_mul", w>>)
         /\ MeasuresLast(ImplDiv, 3, <<"impl_div", 32>>)
         /\ MeasuresLast(ImplInc, 3, <<"impl_inc", 32>>)
         /\ MeasuresLast(Fma, 2, <<"fma", 32>>)
         /\ \A op \in {"add", "sub", "mul", "div"} : MeasuresLast(Binary(op, w), 2, <<op, w>>)
<1>1. Locals({"fp"}) = {Local("fp")} /\ Impls({"fp"}) = {Impl("fp")}
  BY DEF Locals, Impls
<1>2. MeasuresLast(ImplExpand(w), 2, <<"impl_expand", w>>)
  BY <1>1, TwoStatements, LocalsDiffer DEF ImplExpand
<1>3. MeasuresLast(ImplCompress(w), 3, <<"impl_compress", w>>)
  BY <1>1, ThreeStatements, LocalsDiffer DEF ImplCompress
<1>4. MeasuresLast(ImplMul(w), 3, <<"impl_mul", w>>) /\ MeasuresLast(ImplDiv, 3, <<"impl_div", 32>>)
  BY ThreeStatements, LocalsDiffer DEF ImplMul, ImplDiv, OfImpls
<1>5. MeasuresLast(ImplInc, 3, <<"impl_inc", 32>>)
  BY <1>1, ThreeStatements DEF ImplInc
<1>6. MeasuresLast(Fma, 2, <<"fma", 32>>)
  BY TwoStatements, LocalsDiffer DEF Fma, Call
<1>7. \A op \in {"add", "sub", "mul", "div"} : MeasuresLast(Binary(op, w), 2, <<op, w>>)
  BY TwoStatements, LocalsDiffer DEF Binary, Call
<1> QED
  BY <1>2, <1>3, <1>4, <1>5, <1>6, <1>7

LEMMA AddSubBody ==
  /\ Fresh(ImplAddSub) /\ Len(ImplAddSub) = 4
  /\ \A s \in 1..4 : ImplAddSub[s].key = IF s = 3 THEN <<"impl_add", 32>>
                                          ELSE IF s = 4 THEN <<"impl_sub", 32>> ELSE NoKey
<1> DEFINE e == Expanded(Sides)
           m == <<OfImpls("impl_add", 32), OfImpls("impl_sub", 32)>>
           b == e \o m
<1>1. /\ e = [k \in 1..2 |-> e[k]] /\ e[1] = Random(Sides) /\ e[2] = Statement(Impls(Sides), Locals(Sides))
      /\ m = [k \in 1..2 |-> m[k]] /\ m[1] = OfImpls("impl_add", 32) /\ m[2] = OfImpls("impl_sub", 32)
  BY DEF Expanded
<1> HIDE DEF e, m
<1>2. b = [k \in 1..4 |-> IF k <= 2 THEN e[k] ELSE m[k - 2]]
  BY <1>1
<1>3. /\ Len(b) = 4 /\ b[1] = Random(Sides) /\ b[2] = Statement(Impls(Sides), Locals(Sides))
      /\ b[3] = OfImpls("impl_add", 32) /\ b[4] = OfImpls("impl_sub", 32)
  BY <1>1, <1>2
<1>4. /\ b[1].key = NoKey /\ b[1].reads = {} /\ b[1].writes = Locals(Sides)
      /\ b[2].key = NoKey /\ b[2].reads = Locals(Sides) /\ b[2].writes = Impls(Sides)
      /\ \A s \in {3, 4} : b[s].reads = Impls(Sides) /\ b[s].writes = {Impl("result")}
      /\ b[3].key = <<"impl_add", 32>> /\ b[4].key = <<"impl_sub", 32>>
  BY <1>3 DEF Random, Statement, Measure, OfImpls
<1>5. b = ImplAddSub
  BY DEF ImplAddSub, e, m
<1> HIDE DEF b
<1>6. Fresh(b)
  BY <1>3, <1>4, LocalsDiffer DEF Fresh
<1> QED
  BY <1>3, <1>4, <1>5, <1>6

LEMMA ScaleBody == MeasuresLast(ImplScale, 5, <<"impl_scale", 32>>)
<1> DEFINE e == Expanded(Sides)
           m == <<Statement({Impl("result")}, Impls(Sides)), Statement({Impl("backup")}, {Impl("result")}),
                  Measure(<<"impl_scale", 32>>, {Impl("result")}, {Impl("backup")})>>
           b == e \o m
<1>1. /\ e = [k \in 1..2 |-> e[k]] /\ e[1] = Random(Sides) /\ e[2] = Statement(Impls(Sides), Locals(Sides))
      /\ m = [k \in 1..3 |-> m[k]] /\ m[1] = Statement({Impl("result")}, Impls(Sides))
      /\ m[2] = Statement({Impl("backup")}, {Impl("result")})
      /\ m[3] = Measure(<<"impl_scale", 32>>, {Impl("result")}, {Impl("backup")})
  BY DEF Expanded
<1> HIDE DEF e, m
<1>2. b = [k \in 1..5 |-> IF k <= 2 THEN e[k] ELSE m[k - 2]]
  BY <1>1
<1>3. /\ Len(b) = 5 /\ b[1] = Random(Sides) /\ b[2] = Statement(Impls(Sides), Locals(Sides))
      /\ b[3] = Statement({Impl("result")}, Impls(Sides))
      /\ b[4] = Statement({Impl("backup")}, {Impl("result")})
      /\ b[5] = Measure(<<"impl_scale", 32>>, {Impl("result")}, {Impl("backup")})
  BY <1>1, <1>2
<1>4. /\ b[1].key = NoKey /\ b[1].reads = {} /\ b[1].writes = Locals(Sides)
      /\ b[2].key = NoKey /\ b[2].reads = Locals(Sides) /\ b[2].writes = Impls(Sides)
      /\ b[3].key = NoKey /\ b[3].reads = Impls(Sides) /\ b[3].writes = {Impl("result")}
      /\ b[4].key = NoKey /\ b[4].reads = {Impl("result")} /\ b[4].writes = {Impl("backup")}
      /\ b[5].key = <<"impl_scale", 32>> /\ b[5].reads = {Impl("backup")} /\ b[5].writes = {Impl("result")}
  BY <1>3 DEF Random, Statement, Measure
<1>5. b = ImplScale
  BY DEF ImplScale, e, m
<1> HIDE DEF b
<1>6. Fresh(b)
  <2>1. /\ \A v \in b[2].reads : v \in b[1].writes
        /\ \A v \in b[3].reads : v \in b[2].writes
        /\ \A v \in b[4].reads : v \in b[3].writes
        /\ \A v \in b[5].reads : v \in b[4].writes
        /\ b[5].writes \cap b[5].reads = {}
    BY <1>4, LocalsDiffer
  <2>2. \A s \in 1..5 : \A v \in b[s].reads : \E t \in 1..(s - 1) : v \in b[t].writes
    BY <1>4, <2>1
  <2>3. \A s \in 1..5 : b[s].key \in {NoKey, <<"impl_inc", 32>>} \/ b[s].writes \cap b[s].reads = {}
    <3>1. \A s \in 1..4 : b[s].key = NoKey
      BY <1>4
    <3>2. b[5].writes \cap b[5].reads = {}
      BY <2>1
    <3>3. \A s \in 1..5 : s \in 1..4 \/ s = 5
      OBVIOUS
    <3> QED BY <3>1, <3>2, <3>3
  <2> QED
    BY <1>3, <2>2, <2>3 DEF Fresh
<1>7. \A s \in 1..5 : b[s].key = IF s = 5 THEN <<"impl_scale", 32>> ELSE NoKey
  BY <1>4
<1> QED
  BY <1>3, <1>5, <1>6, <1>7 DEF MeasuresLast

LEMMA InstructionBody ==
  ASSUME NEW keys, NEW n \in Nat \ {0}, keys = [k \in 1..n |-> keys[k]]
  PROVE  /\ Fresh(Instructions(keys)) /\ Len(Instructions(keys)) = n
         /\ \A s \in 1..n : Instructions(keys)[s].key = keys[s]
<1> DEFINE b == Instructions(keys)
<1>1. DOMAIN keys = 1..n
  OBVIOUS
<1>2. b = [k \in 1..n |-> Measure(keys[k], {}, {})]
  BY <1>1 DEF Instructions
<1> HIDE DEF b
<1>3. Len(b) = n /\ \A s \in 1..n : b[s].key = keys[s] /\ b[s].reads = {} /\ b[s].writes = {}
  <2>1. Len(b) = n
    BY <1>2
  <2>2. \A s \in 1..n : b[s] = Measure(keys[s], {}, {})
    BY <1>2
  <2> QED BY <2>1, <2>2 DEF Measure
<1>4. Fresh(b)
  BY <1>3 DEF Fresh
<1> QED
  BY <1>3, <1>4 DEF b

-----------------------------------------------------------------------------
(* The programs                                                            *)

LEMMA FpfdProgram ==
  /\ FpfdLoops = [k \in 1..17 |-> FpfdLoops[k]]
  /\ FpfdLoops[1] = ImplExpand(32) /\ FpfdLoops[2] = ImplExpand(64) /\ FpfdLoops[3] = ImplExpand(128)
  /\ FpfdLoops[4] = ImplAddSub /\ FpfdLoops[5] = ImplMul(32) /\ FpfdLoops[6] = ImplMul(64)
  /\ FpfdLoops[7] = ImplDiv /\ FpfdLoops[8] = ImplInc /\ FpfdLoops[9] = ImplScale
  /\ FpfdLoops[10] = ImplCompress(32) /\ FpfdLoops[11] = ImplCompress(64) /\ FpfdLoops[12] = ImplCompress(128)
  /\ FpfdLoops[13] = FpfdAdd /\ FpfdLoops[14] = FpfdSub /\ FpfdLoops[15] = FpfdMul
  /\ FpfdLoops[16] = FpfdDiv /\ FpfdLoops[17] = Fma
<1> DEFINE a == ForAllWidths(ImplExpand)
           b == <<ImplAddSub, ImplMul(32), ImplMul(64), ImplDiv, ImplInc, ImplScale>>
           c == ForAllWidths(ImplCompress)
           d == <<FpfdAdd, FpfdSub, FpfdMul, FpfdDiv, Fma>>
           ab == a \o b
           abc == ab \o c
<1>1. /\ a = [k \in 1..3 |-> a[k]] /\ b = [k \in 1..6 |-> b[k]]
      /\ c = [k \in 1..3 |-> c[k]] /\ d = [k \in 1..5 |-> d[k]]
  BY DEF ForAllWidths
<1>2. /\ a[1] = ImplExpand(32) /\ a[2] = ImplExpand(64) /\ a[3] = ImplExpand(128)
      /\ c[1] = ImplCompress(32) /\ c[2] = ImplCompress(64) /\ c[3] = ImplCompress(128)
  BY DEF ForAllWidths, Widths
<1>3. /\ b[1] = ImplAddSub /\ b[2] = ImplMul(32) /\ b[3] = ImplMul(64)
      /\ b[4] = ImplDiv /\ b[5] = ImplInc /\ b[6] = ImplScale
      /\ d[1] = FpfdAdd /\ d[2] = FpfdSub /\ d[3] = FpfdMul /\ d[4] = FpfdDiv /\ d[5] = Fma
  OBVIOUS
<1>4. FpfdLoops = abc \o d
  BY DEF FpfdLoops
<1> HIDE DEF a, b, c, d
<1>5. ab = [k \in 1..9 |-> IF k <= 3 THEN a[k] ELSE b[k - 3]]
  BY <1>1
<1> HIDE DEF ab
<1>6. abc = [k \in 1..12 |-> IF k <= 9 THEN ab[k] ELSE c[k - 9]]
  BY <1>1, <1>5
<1> HIDE DEF abc
<1>7. FpfdLoops = [k \in 1..17 |-> IF k <= 12 THEN abc[k] ELSE d[k - 12]]
  BY <1>1, <1>4, <1>6
<1>8. \A k \in 1..12 : FpfdLoops[k] = abc[k]
  BY <1>7
<1>9. /\ FpfdLoops[13] = d[1] /\ FpfdLoops[14] = d[2] /\ FpfdLoops[15] = d[3]
      /\ FpfdLoops[16] = d[4] /\ FpfdLoops[17] = d[5]
  BY <1>7
<1>10. /\ abc[1] = a[1] /\ abc[2] = a[2] /\ abc[3] = a[3]
       /\ abc[4] = b[1] /\ abc[5] = b[2] /\ abc[6] = b[3] /\ abc[7] = b[4] /\ abc[8] = b[5] /\ abc[9] = b[6]
       /\ abc[10] = c[1] /\ abc[11] = c[2] /\ abc[12] = c[3]
  BY <1>5, <1>6
<1>11. FpfdLoops = [k \in 1..17 |-> FpfdLoops[k]]
  BY <1>7
<1> QED
  BY <1>2, <1>3, <1>8, <1>9, <1>10, <1>11

LEMMA GccProgram ==
  /\ GccLoops = [k \in 1..12 |-> GccLoops[k]]
  /\ GccLoops[1] = Binary("add", 32) /\ GccLoops[2] = Binary("add", 64) /\ GccLoops[3] = Binary("add", 128)
  /\ GccLoops[4] = Binary("sub", 32) /\ GccLoops[5] = Binary("sub", 64) /\ GccLoops[6] = Binary("sub", 128)
  /\ GccLoops[7] = Binary("mul", 32) /\ GccLoops[8] = Binary("mul", 64) /\ GccLoops[9] = Binary("mul", 128)
  /\ GccLoops[10] = Binary("div", 32) /\ GccLoops[11] = Binary("div", 64) /\ GccLoops[12] = Binary("div", 128)
<1> DEFINE a == ForAllWidths(GccAdd)
           b == ForAllWidths(GccSub)
           c == ForAllWidths(GccMul)
           d == ForAllWidths(GccDiv)
           ab == a \o b
           abc == ab \o c
<1>1. /\ a = [k \in 1..3 |-> a[k]] /\ b = [k \in 1..3 |-> b[k]]
      /\ c = [k \in 1..3 |-> c[k]] /\ d = [k \in 1..3 |-> d[k]]
  BY DEF ForAllWidths
<1>2. /\ a[1] = Binary("add", 32) /\ a[2] = Binary("add", 64) /\ a[3] = Binary("add", 128)
      /\ b[1] = Binary("sub", 32) /\ b[2] = Binary("sub", 64) /\ b[3] = Binary("sub", 128)
      /\ c[1] = Binary("mul", 32) /\ c[2] = Binary("mul", 64) /\ c[3] = Binary("mul", 128)
      /\ d[1] = Binary("div", 32) /\ d[2] = Binary("div", 64) /\ d[3] = Binary("div", 128)
  BY DEF ForAllWidths, GccAdd, GccSub, GccMul, GccDiv, Widths
<1>3. GccLoops = abc \o d
  BY DEF GccLoops
<1> HIDE DEF a, b, c, d
<1>4. ab = [k \in 1..6 |-> IF k <= 3 THEN a[k] ELSE b[k - 3]]
  BY <1>1
<1> HIDE DEF ab
<1>5. abc = [k \in 1..9 |-> IF k <= 6 THEN ab[k] ELSE c[k - 6]]
  BY <1>1, <1>4
<1> HIDE DEF abc
<1>6. GccLoops = [k \in 1..12 |-> IF k <= 9 THEN abc[k] ELSE d[k - 9]]
  BY <1>1, <1>3, <1>5
<1>7. \A k \in 1..9 : GccLoops[k] = abc[k]
  BY <1>6
<1>8. GccLoops[10] = d[1] /\ GccLoops[11] = d[2] /\ GccLoops[12] = d[3]
  BY <1>6
<1>9. /\ abc[1] = a[1] /\ abc[2] = a[2] /\ abc[3] = a[3] /\ abc[4] = b[1] /\ abc[5] = b[2]
      /\ abc[6] = b[3] /\ abc[7] = c[1] /\ abc[8] = c[2] /\ abc[9] = c[3]
  BY <1>4, <1>5
<1>10. GccLoops = [k \in 1..12 |-> GccLoops[k]]
  BY <1>6
<1> QED
  BY <1>2, <1>7, <1>8, <1>9, <1>10

-----------------------------------------------------------------------------
(* The results, one by one                                                 *)

LEMMA FpfdResultList ==
  /\ FpfdResults = [k \in 1..18 |-> FpfdResults[k]]
  /\ FpfdResults[1] = <<"impl_expand", 32>> /\ FpfdResults[2] = <<"impl_expand", 64>> /\ FpfdResults[3] = <<"impl_expand", 128>>
  /\ FpfdResults[4] = <<"impl_add", 32>> /\ FpfdResults[5] = <<"impl_sub", 32>> /\ FpfdResults[6] = <<"impl_mul", 32>>
  /\ FpfdResults[7] = <<"impl_mul", 64>> /\ FpfdResults[8] = <<"impl_div", 32>> /\ FpfdResults[9] = <<"impl_scale", 32>>
  /\ FpfdResults[10] = <<"impl_inc", 32>> /\ FpfdResults[11] = <<"impl_compress", 32>> /\ FpfdResults[12] = <<"impl_compress", 64>>
  /\ FpfdResults[13] = <<"impl_compress", 128>> /\ FpfdResults[14] = <<"add", 32>> /\ FpfdResults[15] = <<"sub", 32>>
  /\ FpfdResults[16] = <<"mul", 32>> /\ FpfdResults[17] = <<"div", 32>> /\ FpfdResults[18] = <<"fma", 32>>
<1> DEFINE a == Each("impl_expand")
           b == Plain(<<"impl_add", "impl_sub", "impl_mul">>)
           c == <<<<"impl_mul", 64>>>>
           d == Plain(<<"impl_div", "impl_scale", "impl_inc">>)
           e == Each("impl_compress")
           f == Plain(<<"add", "sub", "mul", "div", "fma">>)
           ab == a \o b
           abc == ab \o c
           abcd == abc \o d
           abcde == abcd \o e
<1>1. /\ a = [k \in 1..3 |-> a[k]] /\ b = [k \in 1..3 |-> b[k]]
      /\ c = [k \in 1..1 |-> c[k]] /\ d = [k \in 1..3 |-> d[k]]
      /\ e = [k \in 1..3 |-> e[k]] /\ f = [k \in 1..5 |-> f[k]]
  BY DEF Each, Plain
<1>2.
      /\ a[1] = <<"impl_expand", 32>> /\ a[2] = <<"impl_expand", 64>> /\ a[3] = <<"impl_expand", 128>>
      /\ e[1] = <<"impl_compress", 32>> /\ e[2] = <<"impl_compress", 64>> /\ e[3] = <<"impl_compress", 128>>
  BY DEF Each, Widths
<1>3.
      /\ b[1] = <<"impl_add", 32>> /\ b[2] = <<"impl_sub", 32>> /\ b[3] = <<"impl_mul", 32>>
      /\ c[1] = <<"impl_mul", 64>>
      /\ d[1] = <<"impl_div", 32>> /\ d[2] = <<"impl_scale", 32>> /\ d[3] = <<"impl_inc", 32>>
      /\ f[1] = <<"add", 32>> /\ f[2] = <<"sub", 32>> /\ f[3] = <<"mul", 32>>
      /\ f[4] = <<"div", 32>> /\ f[5] = <<"fma", 32>>
  BY DEF Plain
<1>4. FpfdResults = abcde \o f
  BY DEF FpfdResults
<1> HIDE DEF a, b, c, d, e, f
<1>5. ab = [k \in 1..6 |-> IF k <= 3 THEN a[k] ELSE b[k - 3]]
  BY <1>1
<1> HIDE DEF ab
<1>6. abc = [k \in 1..7 |-> IF k <= 6 THEN ab[k] ELSE c[k - 6]]
  BY <1>1, <1>5
<1> HIDE DEF abc
<1>7. abcd = [k \in 1..10 |-> IF k <= 7 THEN abc[k] ELSE d[k - 7]]
  BY <1>1, <1>6
<1> HIDE DEF abcd
<1>8. abcde = [k \in 1..13 |-> IF k <= 10 THEN abcd[k] ELSE e[k - 10]]
  BY <1>1, <1>7
<1> HIDE DEF abcde
<1>9. FpfdResults = [k \in 1..18 |-> IF k <= 13 THEN abcde[k] ELSE f[k - 13]]
  BY <1>1, <1>4, <1>8
<1>10. /\ abc[1] = a[1] /\ abc[2] = a[2] /\ abc[3] = a[3] /\ abc[4] = b[1] /\ abc[5] = b[2]
       /\ abc[6] = b[3] /\ abc[7] = c[1]
  BY <1>5, <1>6
<1>11. /\ \A k \in 1..7 : abcde[k] = abc[k]
       /\ abcde[8] = d[1] /\ abcde[9] = d[2] /\ abcde[10] = d[3]
       /\ abcde[11] = e[1] /\ abcde[12] = e[2] /\ abcde[13] = e[3]
  BY <1>7, <1>8
<1>12. /\ \A k \in 1..13 : FpfdResults[k] = abcde[k]
       /\ FpfdResults[14] = f[1] /\ FpfdResults[15] = f[2] /\ FpfdResults[16] = f[3]
       /\ FpfdResults[17] = f[4] /\ FpfdResults[18] = f[5]
  BY <1>9
<1>13. FpfdResults = [k \in 1..18 |-> FpfdResults[k]]
  BY <1>9
<1> QED
  BY <1>2, <1>3, <1>10, <1>11, <1>12, <1>13

LEMMA GccResultList ==
  /\ GccResults = [k \in 1..12 |-> GccResults[k]]
  /\ GccResults[1] = <<"add", 32>> /\ GccResults[2] = <<"add", 64>> /\ GccResults[3] = <<"add", 128>>
  /\ GccResults[4] = <<"sub", 32>> /\ GccResults[5] = <<"sub", 64>> /\ GccResults[6] = <<"sub", 128>>
  /\ GccResults[7] = <<"mul", 32>> /\ GccResults[8] = <<"mul", 64>> /\ GccResults[9] = <<"mul", 128>>
  /\ GccResults[10] = <<"div", 32>> /\ GccResults[11] = <<"div", 64>> /\ GccResults[12] = <<"div", 128>>
<1> DEFINE a == Each("add")
           b == Each("sub")
           c == Each("mul")
           d == Each("div")
           ab == a \o b
           abc == ab \o c
<1>1. /\ a = [k \in 1..3 |-> a[k]] /\ b = [k \in 1..3 |-> b[k]]
      /\ c = [k \in 1..3 |-> c[k]] /\ d = [k \in 1..3 |-> d[k]]
  BY DEF Each
<1>2.
      /\ a[1] = <<"add", 32>> /\ a[2] = <<"add", 64>> /\ a[3] = <<"add", 128>>
      /\ b[1] = <<"sub", 32>> /\ b[2] = <<"sub", 64>> /\ b[3] = <<"sub", 128>>
      /\ c[1] = <<"mul", 32>> /\ c[2] = <<"mul", 64>> /\ c[3] = <<"mul", 128>>
      /\ d[1] = <<"div", 32>> /\ d[2] = <<"div", 64>> /\ d[3] = <<"div", 128>>
  BY DEF Each, Widths
<1>3. GccResults = abc \o d
  BY DEF GccResults
<1> HIDE DEF a, b, c, d
<1>4. ab = [k \in 1..6 |-> IF k <= 3 THEN a[k] ELSE b[k - 3]]
  BY <1>1
<1> HIDE DEF ab
<1>5. abc = [k \in 1..9 |-> IF k <= 6 THEN ab[k] ELSE c[k - 6]]
  BY <1>1, <1>4
<1> HIDE DEF abc
<1>6. GccResults = [k \in 1..12 |-> IF k <= 9 THEN abc[k] ELSE d[k - 9]]
  BY <1>1, <1>3, <1>5
<1>7. \A k \in 1..9 : GccResults[k] = abc[k]
  BY <1>6
<1>8. GccResults[10] = d[1] /\ GccResults[11] = d[2] /\ GccResults[12] = d[3]
  BY <1>6
<1>9. /\ abc[1] = a[1] /\ abc[2] = a[2] /\ abc[3] = a[3] /\ abc[4] = b[1] /\ abc[5] = b[2]
      /\ abc[6] = b[3] /\ abc[7] = c[1] /\ abc[8] = c[2] /\ abc[9] = c[3]
  BY <1>4, <1>5
<1>10. GccResults = [k \in 1..12 |-> GccResults[k]]
  BY <1>6
<1> QED
  BY <1>2, <1>7, <1>8, <1>9, <1>10

LEMMA ProcessorResultList ==
  /\ X86_64Results = X86Results
  /\ X86Results = [k \in 1..9 |-> X86Results[k]]
  /\ X86Results[1] = <<"mul", 8>> /\ X86Results[2] = <<"mul", 16>> /\ X86Results[3] = <<"mul", 32>>
  /\ X86Results[4] = <<"mul", 64>> /\ X86Results[5] = <<"div", 8>> /\ X86Results[6] = <<"div", 16>>
  /\ X86Results[7] = <<"div", 32>> /\ X86Results[8] = <<"div", 64>> /\ X86Results[9] = <<"uncertainty", 0>>
<1> DEFINE a == Mul86_64
           b == Div86_64
           c == Empty
           ab == a \o b
<1>1. /\ a = [k \in 1..4 |-> a[k]] /\ b = [k \in 1..4 |-> b[k]] /\ c = [k \in 1..1 |-> c[k]]
      /\ a[1] = <<"mul", 8>> /\ a[2] = <<"mul", 16>> /\ a[3] = <<"mul", 32>>
      /\ a[4] = <<"mul", 64>>
      /\ b[1] = <<"div", 8>> /\ b[2] = <<"div", 16>> /\ b[3] = <<"div", 32>>
      /\ b[4] = <<"div", 64>>
      /\ c[1] = <<"uncertainty", 0>>
  BY DEF Mul86_64, Div86_64, Empty
<1>2. X86Results = ab \o c
  BY DEF X86Results
<1> HIDE DEF a, b, c
<1>3. ab = [k \in 1..8 |-> IF k <= 4 THEN a[k] ELSE b[k - 4]]
  BY <1>1
<1> HIDE DEF ab
<1>4. X86Results = [k \in 1..9 |-> IF k <= 8 THEN ab[k] ELSE c[k - 8]]
  BY <1>1, <1>2, <1>3
<1>5. (\A k \in 1..8 : X86Results[k] = ab[k]) /\ X86Results[9] = c[1]
  BY <1>4
<1>6. /\ ab[1] = a[1] /\ ab[2] = a[2] /\ ab[3] = a[3] /\ ab[4] = a[4]
      /\ ab[5] = b[1] /\ ab[6] = b[2] /\ ab[7] = b[3] /\ ab[8] = b[4]
  BY <1>3
<1>7. X86Results = [k \in 1..9 |-> X86Results[k]]
  BY <1>4
<1>8. X86_64Results = X86Results
  BY DEF X86Results, X86_64Results
<1> QED
  BY <1>1, <1>5, <1>6, <1>7, <1>8

-----------------------------------------------------------------------------
(* Which statement records which result                                    *)

\* The loop and the statement that record each result, in the order of the
\* results; a place after the last loop when no statement does.
FpfdPlaces ==
  <<<<1, 2>>, <<2, 2>>, <<3, 2>>, <<4, 3>>, <<4, 4>>, <<5, 3>>, <<6, 3>>, <<7, 3>>, <<9, 5>>,
    <<8, 3>>, <<10, 3>>, <<11, 3>>, <<12, 3>>, <<13, 2>>, <<14, 2>>, <<15, 2>>, <<16, 2>>, <<17, 2>>>>
GccPlaces ==
  <<<<1, 2>>, <<2, 2>>, <<3, 2>>, <<4, 2>>, <<5, 2>>, <<6, 2>>, <<7, 2>>, <<8, 2>>, <<9, 2>>,
    <<10, 2>>, <<11, 2>>, <<12, 2>>>>
X86_64Places == <<<<1, 1>>, <<1, 2>>, <<1, 3>>, <<1, 4>>, <<2, 1>>, <<2, 2>>, <<2, 3>>, <<2, 4>>, <<3, 1>>>>
X86Places    == <<<<1, 1>>, <<1, 2>>, <<1, 3>>, <<4, 1>>, <<2, 1>>, <<2, 2>>, <<2, 3>>, <<4, 1>>, <<3, 1>>>>

Places(p) ==
  CASE p = "fpfd" -> FpfdPlaces [] p = "gcc" -> GccPlaces
    [] p = "x86" -> X86Places [] p = "x86_64" -> X86_64Places

PlaceOf(p, n) == Places(p)[n]

SoundLoop(p, l) ==
  /\ Fresh(Loops(p)[l])
  /\ \A s \in 1..Len(Loops(p)[l]) :
       \/ Loops(p)[l][s].key = NoKey
       \/ \E n \in 1..Len(Results(p)) : PlaceOf(p, n) = <<l, s>> /\ Results(p)[n] = Loops(p)[l][s].key

Recorded(p, n) ==
  \E l \in 1..Len(Loops(p)) : \E s \in 1..Len(Loops(p)[l]) :
    PlaceOf(p, n) = <<l, s>> /\ Loops(p)[l][s].key = Results(p)[n]

\* The 64-bit instructions are no part of the 32-bit program.
Never(p, n) == p = "x86" /\ n \in {4, 8} /\ PlaceOf(p, n) = <<4, 1>>

OwnName(p, n) ==
  Results(p)[n] # NoKey /\ \A m \in 1..Len(Results(p)) : Results(p)[m] = Results(p)[n] => m = n

\* The results have names of their own; each statement that is measured has
\* its result, and each result its statement, except the 64-bit instructions
\* of the 32-bit program.
WellFormed(p) ==
  /\ Len(Loops(p)) \in Nat \ {0} /\ Len(Results(p)) \in Nat
  /\ \A l \in 1..Len(Loops(p)) : SoundLoop(p, l)
  /\ \A n \in 1..Len(Results(p)) :
       OwnName(p, n) /\ (Recorded(p, n) \/ Never(p, n))

LEMMA LastIsRecorded ==
  ASSUME NEW p, NEW l \in 1..Len(Loops(p)), NEW s, NEW n \in 1..Len(Results(p)),
         MeasuresLast(Loops(p)[l], s, Results(p)[n]), PlaceOf(p, n) = <<l, s>>
  PROVE  SoundLoop(p, l) /\ Recorded(p, n)
<1>1. s \in 1..Len(Loops(p)[l]) /\ Fresh(Loops(p)[l]) /\ s = Len(Loops(p)[l])
  BY DEF MeasuresLast, Fresh
<1>2. \A t \in 1..Len(Loops(p)[l]) : Loops(p)[l][t].key = IF t = s THEN Results(p)[n] ELSE NoKey
  BY <1>1 DEF MeasuresLast
<1>3. SoundLoop(p, l)
  BY <1>1, <1>2 DEF SoundLoop
<1>4. Recorded(p, n)
  BY <1>1, <1>2 DEF Recorded
<1> QED
  BY <1>3, <1>4

LEMMA FpfdWellFormed == WellFormed("fpfd")
<1> DEFINE p == "fpfd"
<1>1. /\ Loops(p) = FpfdLoops /\ Results(p) = FpfdResults /\ Places(p) = FpfdPlaces
  BY DEF Loops, Results, Places
<1>2. Len(Loops(p)) = 17 /\ Len(Results(p)) = 18
  BY <1>1, FpfdProgram, FpfdResultList
<1>3. \A n \in 1..18 : FpfdResults[n] # NoKey /\ \A m \in 1..18 : FpfdResults[m] = FpfdResults[n] => m = n
  BY FpfdResultList DEF NoKey
<1>4. \A n \in 1..18 : OwnName(p, n)
  BY <1>1, <1>2, <1>3 DEF OwnName
<1>5.
      /\ PlaceOf(p, 1) = <<1, 2>> /\ PlaceOf(p, 2) = <<2, 2>> /\ PlaceOf(p, 3) = <<3, 2>>
      /\ PlaceOf(p, 4) = <<4, 3>> /\ PlaceOf(p, 5) = <<4, 4>> /\ PlaceOf(p, 6) = <<5, 3>>
      /\ PlaceOf(p, 7) = <<6, 3>> /\ PlaceOf(p, 8) = <<7, 3>> /\ PlaceOf(p, 9) = <<9, 5>>
      /\ PlaceOf(p, 10) = <<8, 3>> /\ PlaceOf(p, 11) = <<10, 3>> /\ PlaceOf(p, 12) = <<11, 3>>
      /\ PlaceOf(p, 13) = <<12, 3>> /\ PlaceOf(p, 14) = <<13, 2>> /\ PlaceOf(p, 15) = <<14, 2>>
      /\ PlaceOf(p, 16) = <<15, 2>> /\ PlaceOf(p, 17) = <<16, 2>> /\ PlaceOf(p, 18) = <<17, 2>>
  BY <1>1 DEF PlaceOf, FpfdPlaces
<1>6.
      /\ FpfdLoops[1] = ImplExpand(32) /\ FpfdResults[1] = <<"impl_expand", 32>>
      /\ FpfdLoops[2] = ImplExpand(64) /\ FpfdResults[2] = <<"impl_expand", 64>>
      /\ FpfdLoops[3] = ImplExpand(128) /\ FpfdResults[3] = <<"impl_expand", 128>>
      /\ FpfdLoops[5] = ImplMul(32) /\ FpfdResults[6] = <<"impl_mul", 32>>
      /\ FpfdLoops[6] = ImplMul(64) /\ FpfdResults[7] = <<"impl_mul", 64>>
  BY FpfdProgram, FpfdResultList DEF FpfdAdd, FpfdSub, FpfdMul, FpfdDiv
<1>7.
      /\ MeasuresLast(ImplExpand(32), 2, <<"impl_expand", 32>>)
      /\ MeasuresLast(ImplExpand(64), 2, <<"impl_expand", 64>>)
      /\ MeasuresLast(ImplExpand(128), 2, <<"impl_expand", 128>>)
      /\ MeasuresLast(ImplMul(32), 3, <<"impl_mul", 32>>)
      /\ MeasuresLast(ImplMul(64), 3, <<"impl_mul", 64>>)
  BY ShortBodies, ScaleBody
<1>8.
      /\ MeasuresLast(Loops(p)[1], 2, Results(p)[1])
      /\ MeasuresLast(Loops(p)[2], 2, Results(p)[2])
      /\ MeasuresLast(Loops(p)[3], 2, Results(p)[3])
      /\ MeasuresLast(Loops(p)[5], 3, Results(p)[6])
      /\ MeasuresLast(Loops(p)[6], 3, Results(p)[7])
  BY <1>1, <1>6, <1>7
<1>9.
      /\ FpfdLoops[7] = ImplDiv /\ FpfdResults[8] = <<"impl_div", 32>>
      /\ FpfdLoops[9] = ImplScale /\ FpfdResults[9] = <<"impl_scale", 32>>
      /\ FpfdLoops[8] = ImplInc /\ FpfdResults[10] = <<"impl_inc", 32>>
      /\ FpfdLoops[10] = ImplCompress(32) /\ FpfdResults[11] = <<"impl_compress", 32>>
      /\ FpfdLoops[11] = ImplCompress(64) /\ FpfdResults[12] = <<"impl_compress", 64>>
      /\ FpfdLoops[12] = ImplCompress(128) /\ FpfdResults[13] = <<"impl_compress", 128>>
  BY FpfdProgram, FpfdResultList DEF FpfdAdd, FpfdSub, FpfdMul, FpfdDiv
<1>10.
      /\ MeasuresLast(ImplDiv, 3, <<"impl_div", 32>>)
      /\ MeasuresLast(ImplScale, 5, <<"impl_scale", 32>>)
      /\ MeasuresLast(ImplInc, 3, <<"impl_inc", 32>>)
      /\ MeasuresLast(ImplCompress(32), 3, <<"impl_compress", 32>>)
      /\ MeasuresLast(ImplCompress(64), 3, <<"impl_compress", 64>>)
      /\ MeasuresLast(ImplCompress(128), 3, <<"impl_compress", 128>>)
  BY ShortBodies, ScaleBody
<1>11.
      /\ MeasuresLast(Loops(p)[7], 3, Results(p)[8])
      /\ MeasuresLast(Loops(p)[9], 5, Results(p)[9])
      /\ MeasuresLast(Loops(p)[8], 3, Results(p)[10])
      /\ MeasuresLast(Loops(p)[10], 3, Results(p)[11])
      /\ MeasuresLast(Loops(p)[11], 3, Results(p)[12])
      /\ MeasuresLast(Loops(p)[12], 3, Results(p)[13])
  BY <1>1, <1>9, <1>10
<1>12.
      /\ FpfdLoops[13] = Binary("add", 32) /\ FpfdResults[14] = <<"add", 32>>
      /\ FpfdLoops[14] = Binary("sub", 32) /\ FpfdResults[15] = <<"sub", 32>>
      /\ FpfdLoops[15] = Binary("mul", 32) /\ FpfdResults[16] = <<"mul", 32>>
      /\ FpfdLoops[16] = Binary("div", 32) /\ FpfdResults[17] = <<"div", 32>>
      /\ FpfdLoops[17] = Fma /\ FpfdResults[18] = <<"fma", 32>>
  BY FpfdProgram, FpfdResultList DEF FpfdAdd, FpfdSub, FpfdMul, FpfdDiv
<1>13.
      /\ MeasuresLast(Binary("add", 32), 2, <<"add", 32>>)
      /\ MeasuresLast(Binary("sub", 32), 2, <<"sub", 32>>)
      /\ MeasuresLast(Binary("mul", 32), 2, <<"mul", 32>>)
      /\ MeasuresLast(Binary("div", 32), 2, <<"div", 32>>)
      /\ MeasuresLast(Fma, 2, <<"fma", 32>>)
  BY ShortBodies, ScaleBody
<1>14.
      /\ MeasuresLast(Loops(p)[13], 2, Results(p)[14])
      /\ MeasuresLast(Loops(p)[14], 2, Results(p)[15])
      /\ MeasuresLast(Loops(p)[15], 2, Results(p)[16])
      /\ MeasuresLast(Loops(p)[16], 2, Results(p)[17])
      /\ MeasuresLast(Loops(p)[17], 2, Results(p)[18])
  BY <1>1, <1>12, <1>13
<1>15. /\ FpfdLoops[4] = ImplAddSub /\ FpfdResults[4] = <<"impl_add", 32>> /\ FpfdResults[5] = <<"impl_sub", 32>>
  BY FpfdProgram, FpfdResultList
<1>16. /\ Fresh(Loops(p)[4]) /\ Len(Loops(p)[4]) = 4
       /\ Loops(p)[4][1].key = NoKey /\ Loops(p)[4][2].key = NoKey
       /\ Loops(p)[4][3].key = Results(p)[4] /\ Loops(p)[4][4].key = Results(p)[5]
  BY <1>1, <1>15, AddSubBody
<1> HIDE DEF p
<1> DEFINE Last(l, s, n) == MeasuresLast(Loops(p)[l], s, Results(p)[n]) /\ PlaceOf(p, n) = <<l, s>>
<1>17. \A l \in 1..17 : \A n \in 1..18 : \A s : Last(l, s, n) => SoundLoop(p, l) /\ Recorded(p, n)
  BY <1>2, LastIsRecorded
<1>18. Last(1, 2, 1) /\ Last(2, 2, 2) /\ Last(3, 2, 3) /\ Last(5, 3, 6) /\ Last(6, 3, 7)
  BY <1>5, <1>8
<1>19. Last(7, 3, 8) /\ Last(9, 5, 9) /\ Last(8, 3, 10) /\ Last(10, 3, 11) /\ Last(11, 3, 12) /\ Last(12, 3, 13)
  BY <1>5, <1>11
<1>20. Last(13, 2, 14) /\ Last(14, 2, 15) /\ Last(15, 2, 16) /\ Last(16, 2, 17) /\ Last(17, 2, 18)
  BY <1>5, <1>14
<1> HIDE DEF Last
<1>21.
      /\ SoundLoop(p, 1) /\ Recorded(p, 1)
      /\ SoundLoop(p, 2) /\ Recorded(p, 2)
      /\ SoundLoop(p, 3) /\ Recorded(p, 3)
      /\ SoundLoop(p, 5) /\ Recorded(p, 6)
      /\ SoundLoop(p, 6) /\ Recorded(p, 7)
  BY <1>18, <1>17
<1>22.
      /\ SoundLoop(p, 7) /\ Recorded(p, 8)
      /\ SoundLoop(p, 9) /\ Recorded(p, 9)
      /\ SoundLoop(p, 8) /\ Recorded(p, 10)
      /\ SoundLoop(p, 10) /\ Recorded(p, 11)
      /\ SoundLoop(p, 11) /\ Recorded(p, 12)
      /\ SoundLoop(p, 12) /\ Recorded(p, 13)
  BY <1>19, <1>17
<1>23.
      /\ SoundLoop(p, 13) /\ Recorded(p, 14)
      /\ SoundLoop(p, 14) /\ Recorded(p, 15)
      /\ SoundLoop(p, 15) /\ Recorded(p, 16)
      /\ SoundLoop(p, 16) /\ Recorded(p, 17)
      /\ SoundLoop(p, 17) /\ Recorded(p, 18)
  BY <1>20, <1>17
<1>24. SoundLoop(p, 4) /\ Recorded(p, 4) /\ Recorded(p, 5)
  <2>1. SoundLoop(p, 4)
    BY <1>2, <1>5, <1>16 DEF SoundLoop
  <2>2. Recorded(p, 4)
    BY <1>2, <1>5, <1>16 DEF Recorded
  <2>3. Recorded(p, 5)
    BY <1>2, <1>5, <1>16 DEF Recorded
  <2> QED BY <2>1, <2>2, <2>3
<1>25. \A l \in 1..17 : SoundLoop(p, l)
  BY <1>21, <1>22, <1>23, <1>24
<1>26. \A n \in 1..18 : Recorded(p, n)
  BY <1>21, <1>22, <1>23, <1>24
<1>27. WellFormed(p)
  <2>1. Len(Loops(p)) \in Nat \ {0} /\ Len(Results(p)) \in Nat
    BY <1>2
  <2>2. \A l \in 1..Len(Loops(p)) : SoundLoop(p, l)
    BY <1>2, <1>25
  <2>3. \A n \in 1..Len(Results(p)) : OwnName(p, n) /\ Recorded(p, n)
    BY <1>2, <1>4, <1>26
  <2> QED BY <2>1, <2>2, <2>3 DEF WellFormed
<1> QED
  BY <1>27 DEF p

LEMMA GccWellFormed == WellFormed("gcc")
<1> DEFINE p == "gcc"
<1>1. /\ Loops(p) = GccLoops /\ Results(p) = GccResults /\ Places(p) = GccPlaces
  BY DEF Loops, Results, Places
<1>2. Len(Loops(p)) = 12 /\ Len(Results(p)) = 12
  BY <1>1, GccProgram, GccResultList
<1>3. \A n \in 1..12 : GccResults[n] # NoKey /\ \A m \in 1..12 : GccResults[m] = GccResults[n] => m = n
  BY GccResultList DEF NoKey
<1>4. \A n \in 1..12 : OwnName(p, n)
  BY <1>1, <1>2, <1>3 DEF OwnName
<1>5. \A n \in 1..12 : PlaceOf(p, n) = <<n, 2>>
  BY <1>1 DEF PlaceOf, GccPlaces
<1>6.
      /\ GccLoops[1] = Binary("add", 32) /\ GccResults[1] = <<"add", 32>>
      /\ GccLoops[2] = Binary("add", 64) /\ GccResults[2] = <<"add", 64>>
      /\ GccLoops[3] = Binary("add", 128) /\ GccResults[3] = <<"add", 128>>
      /\ GccLoops[4] = Binary("sub", 32) /\ GccResults[4] = <<"sub", 32>>
      /\ GccLoops[5] = Binary("sub", 64) /\ GccResults[5] = <<"sub", 64>>
      /\ GccLoops[6] = Binary("sub", 128) /\ GccResults[6] = <<"sub", 128>>
  BY GccProgram, GccResultList
<1>7.
      /\ MeasuresLast(Binary("add", 32), 2, <<"add", 32>>)
      /\ MeasuresLast(Binary("add", 64), 2, <<"add", 64>>)
      /\ MeasuresLast(Binary("add", 128), 2, <<"add", 128>>)
      /\ MeasuresLast(Binary("sub", 32), 2, <<"sub", 32>>)
      /\ MeasuresLast(Binary("sub", 64), 2, <<"sub", 64>>)
      /\ MeasuresLast(Binary("sub", 128), 2, <<"sub", 128>>)
  BY ShortBodies
<1>8.
      /\ MeasuresLast(Loops(p)[1], 2, Results(p)[1])
      /\ MeasuresLast(Loops(p)[2], 2, Results(p)[2])
      /\ MeasuresLast(Loops(p)[3], 2, Results(p)[3])
      /\ MeasuresLast(Loops(p)[4], 2, Results(p)[4])
      /\ MeasuresLast(Loops(p)[5], 2, Results(p)[5])
      /\ MeasuresLast(Loops(p)[6], 2, Results(p)[6])
  BY <1>1, <1>6, <1>7
<1>9.
      /\ GccLoops[7] = Binary("mul", 32) /\ GccResults[7] = <<"mul", 32>>
      /\ GccLoops[8] = Binary("mul", 64) /\ GccResults[8] = <<"mul", 64>>
      /\ GccLoops[9] = Binary("mul", 128) /\ GccResults[9] = <<"mul", 128>>
      /\ GccLoops[10] = Binary("div", 32) /\ GccResults[10] = <<"div", 32>>
      /\ GccLoops[11] = Binary("div", 64) /\ GccResults[11] = <<"div", 64>>
      /\ GccLoops[12] = Binary("div", 128) /\ GccResults[12] = <<"div", 128>>
  BY GccProgram, GccResultList
<1>10.
      /\ MeasuresLast(Binary("mul", 32), 2, <<"mul", 32>>)
      /\ MeasuresLast(Binary("mul", 64), 2, <<"mul", 64>>)
      /\ MeasuresLast(Binary("mul", 128), 2, <<"mul", 128>>)
      /\ MeasuresLast(Binary("div", 32), 2, <<"div", 32>>)
      /\ MeasuresLast(Binary("div", 64), 2, <<"div", 64>>)
      /\ MeasuresLast(Binary("div", 128), 2, <<"div", 128>>)
  BY ShortBodies
<1>11.
      /\ MeasuresLast(Loops(p)[7], 2, Results(p)[7])
      /\ MeasuresLast(Loops(p)[8], 2, Results(p)[8])
      /\ MeasuresLast(Loops(p)[9], 2, Results(p)[9])
      /\ MeasuresLast(Loops(p)[10], 2, Results(p)[10])
      /\ MeasuresLast(Loops(p)[11], 2, Results(p)[11])
      /\ MeasuresLast(Loops(p)[12], 2, Results(p)[12])
  BY <1>1, <1>9, <1>10
<1> HIDE DEF p
<1>12. \A l \in 1..12 : \A n \in 1..12 : \A s :
         MeasuresLast(Loops(p)[l], s, Results(p)[n]) /\ PlaceOf(p, n) = <<l, s>> => SoundLoop(p, l) /\ Recorded(p, n)
  BY <1>2, LastIsRecorded
<1>13. \A n \in 1..12 : MeasuresLast(Loops(p)[n], 2, Results(p)[n])
  BY <1>8, <1>11
<1>14. \A n \in 1..12 : SoundLoop(p, n) /\ Recorded(p, n)
  BY <1>5, <1>12, <1>13
<1>15. WellFormed(p)
  <2>1. Len(Loops(p)) \in Nat \ {0} /\ Len(Results(p)) \in Nat
    BY <1>2
  <2>2. \A l \in 1..Len(Loops(p)) : SoundLoop(p, l)
    BY <1>2, <1>14
  <2>3. \A n \in 1..Len(Results(p)) : OwnName(p, n) /\ Recorded(p, n)
    BY <1>2, <1>4, <1>14
  <2> QED BY <2>1, <2>2, <2>3 DEF WellFormed
<1> QED
  BY <1>15 DEF p

LEMMA ProcessorProgram ==
  /\ X86_64Loops = [k \in 1..3 |-> X86_64Loops[k]] /\ X86Loops = [k \in 1..3 |-> X86Loops[k]]
  /\ X86_64Loops[1] = Instructions(Mul86_64) /\ X86_64Loops[2] = Instructions(Div86_64)
  /\ X86_64Loops[3] = Instructions(Empty)
  /\ X86Loops[1] = Instructions(Mul86) /\ X86Loops[2] = Instructions(Div86)
  /\ X86Loops[3] = Instructions(Empty)
BY DEF X86_64Loops, X86Loops

\* Every statement of these programs is measured: statement s of a loop
\* records result c + s.
Instructs(p, l, keys, n, c) ==
  /\ l \in 1..Len(Loops(p)) /\ n \in Nat \ {0} /\ c \in Nat
  /\ Len(Results(p)) \in Nat /\ c + n <= Len(Results(p))
  /\ keys = [k \in 1..n |-> keys[k]] /\ Loops(p)[l] = Instructions(keys)
  /\ \A s \in 1..n : PlaceOf(p, c + s) = <<l, s>> /\ Results(p)[c + s] = keys[s]

LEMMA InstructionsRecorded ==
  ASSUME NEW p, NEW l, NEW keys, NEW n, NEW c, Instructs(p, l, keys, n, c)
  PROVE  SoundLoop(p, l) /\ \A s \in 1..n : Recorded(p, c + s)
<1> USE DEF Instructs
<1>1. Fresh(Loops(p)[l]) /\ Len(Loops(p)[l]) = n /\ \A s \in 1..n : Loops(p)[l][s].key = keys[s]
  BY InstructionBody
<1>2. \A s \in 1..n : /\ c + s \in 1..Len(Results(p)) /\ PlaceOf(p, c + s) = <<l, s>>
                      /\ Results(p)[c + s] = Loops(p)[l][s].key
  <2> TAKE s \in 1..n
  <2>1. c + s \in 1..Len(Results(p))
    OBVIOUS
  <2> QED BY <1>1, <2>1
<1>3. SoundLoop(p, l)
  BY <1>1, <1>2 DEF SoundLoop
<1>4. \A s \in 1..n : Recorded(p, c + s)
  BY <1>1, <1>2 DEF Recorded
<1> QED
  BY <1>3, <1>4

LEMMA X86_64WellFormed == WellFormed("x86_64")
<1> DEFINE p == "x86_64"
<1>1. Loops(p) = X86_64Loops /\ Results(p) = X86Results /\ Places(p) = X86_64Places
  BY ProcessorResultList DEF Loops, Results, Places
<1>2. Len(Loops(p)) = 3 /\ Len(Results(p)) = 9
  BY <1>1, ProcessorProgram, ProcessorResultList
<1>3. \A n \in 1..9 : X86Results[n] # NoKey /\ \A m \in 1..9 : X86Results[m] = X86Results[n] => m = n
  BY ProcessorResultList DEF NoKey
<1>4. \A n \in 1..9 : OwnName(p, n)
  BY <1>1, <1>2, <1>3 DEF OwnName
<1>5. /\ \A s \in 1..4 : PlaceOf(p, 0 + s) = <<1, s>> /\ PlaceOf(p, 4 + s) = <<2, s>>
      /\ \A s \in 1..1 : PlaceOf(p, 8 + s) = <<3, s>>
  BY <1>1 DEF PlaceOf, X86_64Places
<1>6. /\ Mul86_64 = [k \in 1..4 |-> Mul86_64[k]] /\ Div86_64 = [k \in 1..4 |-> Div86_64[k]]
      /\ Empty = [k \in 1..1 |-> Empty[k]]
      /\ \A s \in 1..4 : X86Results[0 + s] = Mul86_64[s] /\ X86Results[4 + s] = Div86_64[s]
      /\ \A s \in 1..1 : X86Results[8 + s] = Empty[s]
  BY ProcessorResultList DEF Mul86_64, Div86_64, Empty
<1>7. /\ Loops(p)[1] = Instructions(Mul86_64) /\ Loops(p)[2] = Instructions(Div86_64)
      /\ Loops(p)[3] = Instructions(Empty)
  BY <1>1, ProcessorProgram
<1>8. /\ \A s \in 1..4 : Results(p)[0 + s] = Mul86_64[s] /\ Results(p)[4 + s] = Div86_64[s]
      /\ \A s \in 1..1 : Results(p)[8 + s] = Empty[s]
  BY <1>1, <1>6
<1> HIDE DEF p
<1>9. SoundLoop(p, 1) /\ \A s \in 1..4 : Recorded(p, 0 + s)
  <2>1. Instructs(p, 1, Mul86_64, 4, 0)
    BY <1>2, <1>5, <1>6, <1>7, <1>8 DEF Instructs
  <2> QED BY <2>1, InstructionsRecorded
<1>10. SoundLoop(p, 2) /\ \A s \in 1..4 : Recorded(p, 4 + s)
  <2>1. Instructs(p, 2, Div86_64, 4, 4)
    BY <1>2, <1>5, <1>6, <1>7, <1>8 DEF Instructs
  <2> QED BY <2>1, InstructionsRecorded
<1>11. SoundLoop(p, 3) /\ \A s \in 1..1 : Recorded(p, 8 + s)
  <2>1. Instructs(p, 3, Empty, 1, 8)
    BY <1>2, <1>5, <1>6, <1>7, <1>8 DEF Instructs
  <2> QED BY <2>1, InstructionsRecorded
<1>12. \A l \in 1..3 : SoundLoop(p, l)
  BY <1>9, <1>10, <1>11
<1>13. \A n \in 1..9 : Recorded(p, n) \/ Never(p, n)
  <2>1. \A n \in 1..4 : Recorded(p, n) /\ Recorded(p, n + 4)
    BY <1>9, <1>10
  <2>2. Recorded(p, 9)
    BY <1>11
  <2> QED BY <1>5, <2>1, <2>2
<1>14. WellFormed(p)
  <2>1. Len(Loops(p)) \in Nat \ {0} /\ Len(Results(p)) \in Nat
    BY <1>2
  <2>2. \A l \in 1..Len(Loops(p)) : SoundLoop(p, l)
    BY <1>2, <1>12
  <2>3. \A n \in 1..Len(Results(p)) : OwnName(p, n) /\ (Recorded(p, n) \/ Never(p, n))
    BY <1>2, <1>4, <1>13
  <2> QED BY <2>1, <2>2, <2>3 DEF WellFormed
<1> QED
  BY <1>14 DEF p

LEMMA X86WellFormed == WellFormed("x86")
<1> DEFINE p == "x86"
<1>1. Loops(p) = X86Loops /\ Results(p) = X86Results /\ Places(p) = X86Places
  BY ProcessorResultList DEF Loops, Results, Places
<1>2. Len(Loops(p)) = 3 /\ Len(Results(p)) = 9
  BY <1>1, ProcessorProgram, ProcessorResultList
<1>3. \A n \in 1..9 : X86Results[n] # NoKey /\ \A m \in 1..9 : X86Results[m] = X86Results[n] => m = n
  BY ProcessorResultList DEF NoKey
<1>4. \A n \in 1..9 : OwnName(p, n)
  BY <1>1, <1>2, <1>3 DEF OwnName
<1>5. /\ \A s \in 1..3 : PlaceOf(p, 0 + s) = <<1, s>> /\ PlaceOf(p, 4 + s) = <<2, s>>
      /\ \A s \in 1..1 : PlaceOf(p, 8 + s) = <<3, s>>
      /\ \A n \in {4, 8} : Never(p, n)
  BY <1>1 DEF PlaceOf, X86Places, Never
<1>6. /\ Mul86 = [k \in 1..3 |-> Mul86[k]] /\ Div86 = [k \in 1..3 |-> Div86[k]]
      /\ Empty = [k \in 1..1 |-> Empty[k]]
      /\ \A s \in 1..3 : X86Results[0 + s] = Mul86[s] /\ X86Results[4 + s] = Div86[s]
      /\ \A s \in 1..1 : X86Results[8 + s] = Empty[s]
  BY ProcessorResultList DEF Mul86, Div86, Empty
<1>7. /\ Loops(p)[1] = Instructions(Mul86) /\ Loops(p)[2] = Instructions(Div86)
      /\ Loops(p)[3] = Instructions(Empty)
  BY <1>1, ProcessorProgram
<1>8. /\ \A s \in 1..3 : Results(p)[0 + s] = Mul86[s] /\ Results(p)[4 + s] = Div86[s]
      /\ \A s \in 1..1 : Results(p)[8 + s] = Empty[s]
  BY <1>1, <1>6
<1> HIDE DEF p
<1>9. SoundLoop(p, 1) /\ \A s \in 1..3 : Recorded(p, 0 + s)
  <2>1. Instructs(p, 1, Mul86, 3, 0)
    BY <1>2, <1>5, <1>6, <1>7, <1>8 DEF Instructs
  <2> QED BY <2>1, InstructionsRecorded
<1>10. SoundLoop(p, 2) /\ \A s \in 1..3 : Recorded(p, 4 + s)
  <2>1. Instructs(p, 2, Div86, 3, 4)
    BY <1>2, <1>5, <1>6, <1>7, <1>8 DEF Instructs
  <2> QED BY <2>1, InstructionsRecorded
<1>11. SoundLoop(p, 3) /\ \A s \in 1..1 : Recorded(p, 8 + s)
  <2>1. Instructs(p, 3, Empty, 1, 8)
    BY <1>2, <1>5, <1>6, <1>7, <1>8 DEF Instructs
  <2> QED BY <2>1, InstructionsRecorded
<1>12. \A l \in 1..3 : SoundLoop(p, l)
  BY <1>9, <1>10, <1>11
<1>13. \A n \in 1..9 : Recorded(p, n) \/ Never(p, n)
  <2>1. \A n \in 1..3 : Recorded(p, n) /\ Recorded(p, n + 4)
    BY <1>9, <1>10
  <2>2. Recorded(p, 9)
    BY <1>11
  <2> QED BY <1>5, <2>1, <2>2
<1>14. WellFormed(p)
  <2>1. Len(Loops(p)) \in Nat \ {0} /\ Len(Results(p)) \in Nat
    BY <1>2
  <2>2. \A l \in 1..Len(Loops(p)) : SoundLoop(p, l)
    BY <1>2, <1>12
  <2>3. \A n \in 1..Len(Results(p)) : OwnName(p, n) /\ (Recorded(p, n) \/ Never(p, n))
    BY <1>2, <1>4, <1>13
  <2> QED BY <2>1, <2>2, <2>3 DEF WellFormed
<1> QED
  BY <1>14 DEF p

LEMMA AllWellFormed == \A p \in {"fpfd", "gcc", "x86", "x86_64"} : WellFormed(p)
BY FpfdWellFormed, GccWellFormed, X86WellFormed, X86_64WellFormed

-----------------------------------------------------------------------------
(* The order of the measurements                                           *)

\* The measurements that are recorded under a result.
Count(n) ==
  LET l == PlaceOf(program, n)[1]
      s == PlaceOf(program, n)[2]
  IN IF l < loop THEN trials ELSE IF l = loop THEN (IF s < step THEN i + 1 ELSE i) ELSE 0

InOrder(l, c) == l.size = c /\ l.trials = c /\ \A j \in 0..(c - 1) : l.list[j] = j

Numbers == 1..Len(Results(program))

Position ==
  /\ program \in {"fpfd", "gcc", "x86", "x86_64"} /\ trials \in Nat
  /\ loop \in 1..(Len(Loops(program)) + 1) /\ i \in 0..trials /\ step \in Nat \ {0}
  /\ loop <= Len(Loops(program)) =>
       step <= Len(Body) /\ \A s \in 1..(step - 1) : Body[s].writes \subseteq drawn
  /\ i = trials => step = 1
  /\ loop > Len(Loops(program)) => i = 0 /\ step = 1
  /\ status = "starting" => loop = 1 /\ i = 0 /\ step = 1

Lists ==
  /\ \A k \in DOMAIN table : SoundList(table[k])
  /\ \A k \in DOMAIN table : \E n \in Numbers : k = Results(program)[n] /\ Count(n) > 0
  /\ \A n \in Numbers : Count(n) > 0 =>
       Results(program)[n] \in DOMAIN table /\ InOrder(table[Results(program)[n]], Count(n))

Written ==
  /\ next \in 1..(Len(Results(program)) + 1)
  /\ loop <= Len(Loops(program)) => next = 1
  /\ \A n \in 1..(next - 1) : Results(program)[n] \in DOMAIN table
  /\ status \in {"starting", "running", "success"} =>
       \A k : k \in DOMAIN files <=> \E n \in 1..(next - 1) : k = Results(program)[n]
  /\ \A k \in DOMAIN files \cap DOMAIN table :
       files[k] = [rows |-> [j \in 0..(trials - 1) |-> j], over |-> trials]

Ended ==
  /\ status = "success" => next = Len(Results(program)) + 1
  /\ status = "failure" /\ ~refused =>
       loop > Len(Loops(program)) /\ next <= Len(Results(program)) /\ Named \notin DOMAIN table
  /\ status = "crashed" => refused /\ ~ChecksFiles(program)

CInv == Position /\ Lists /\ Written /\ Ended

LEMMA PlaceCases ==
  ASSUME NEW p \in {"fpfd", "gcc", "x86", "x86_64"}, NEW n \in 1..Len(Results(p))
  PROVE  \E l, s \in Nat \ {0} :
           /\ PlaceOf(p, n) = <<l, s>> /\ l <= Len(Loops(p)) + 1
           /\ l <= Len(Loops(p)) => s \in 1..Len(Loops(p)[l]) /\ Loops(p)[l][s].key = Results(p)[n]
<1>1. WellFormed(p)
  BY AllWellFormed
<1>2. Recorded(p, n) \/ Never(p, n)
  BY <1>1 DEF WellFormed
<1>3. Len(Loops(p)) \in Nat \ {0} /\ \A l \in 1..Len(Loops(p)) : Len(Loops(p)[l]) \in Nat
  BY <1>1 DEF WellFormed, SoundLoop, Fresh
<1>4. CASE Recorded(p, n)
  <2>1. PICK l \in 1..Len(Loops(p)) : \E s \in 1..Len(Loops(p)[l]) :
               PlaceOf(p, n) = <<l, s>> /\ Loops(p)[l][s].key = Results(p)[n]
    BY <1>4 DEF Recorded
  <2>3. PICK s \in 1..Len(Loops(p)[l]) :
               PlaceOf(p, n) = <<l, s>> /\ Loops(p)[l][s].key = Results(p)[n]
    BY <2>1
  <2>2. l \in Nat \ {0} /\ s \in Nat \ {0} /\ l <= Len(Loops(p)) + 1
    BY <1>3
  <2> QED BY <2>3, <2>2
<1>5. CASE Never(p, n)
  <2>1. Len(Loops(p)) = 3
    BY <1>5, ProcessorProgram DEF Never, Loops
  <2> QED BY <1>5, <2>1 DEF Never
<1> QED BY <1>2, <1>4, <1>5

\* The count of a result whose place is known.
LEMMA CountAt ==
  ASSUME NEW n, NEW l \in Nat, NEW s \in Nat, PlaceOf(program, n) = <<l, s>>
  PROVE  /\ Count(n) = IF l < loop THEN trials ELSE IF l = loop THEN (IF s < step THEN i + 1 ELSE i) ELSE 0
         /\ program' = program =>
              Count(n)' = IF l < loop' THEN trials' ELSE IF l = loop' THEN (IF s < step' THEN i' + 1 ELSE i') ELSE 0
<1>1. PlaceOf(program, n)[1] = l /\ PlaceOf(program, n)[2] = s
  OBVIOUS
<1>2. program' = program => PlaceOf(program', n)[1] = l /\ PlaceOf(program', n)[2] = s
  BY <1>1
<1> QED BY <1>1, <1>2 DEF Count

LEMMA StaticFacts ==
  ASSUME Position
  PROVE  /\ WellFormed(program) /\ Len(Loops(program)) \in Nat \ {0} /\ Len(Results(program)) \in Nat
         /\ \A l \in 1..Len(Loops(program)) : Fresh(Loops(program)[l]) /\ Len(Loops(program)[l]) \in Nat \ {0}
         /\ \A n \in Numbers : Results(program)[n] # NoKey
         /\ \A m, n \in Numbers : Results(program)[m] = Results(program)[n] => m = n
<1>1. WellFormed(program)
  BY AllWellFormed DEF Position
<1>2. \A l \in 1..Len(Loops(program)) : Fresh(Loops(program)[l]) /\ Len(Loops(program)[l]) \in Nat \ {0}
  BY <1>1 DEF WellFormed, SoundLoop, Fresh
<1>3. \A n \in Numbers : OwnName(program, n)
  BY <1>1 DEF WellFormed, Numbers
<1> QED BY <1>1, <1>2, <1>3 DEF WellFormed, OwnName, Numbers

LEMMA CountType == ASSUME Position, NEW n \in Numbers PROVE Count(n) \in Nat
<1>1. PICK l, s \in Nat \ {0} : PlaceOf(program, n) = <<l, s>>
  BY PlaceCases DEF Position, Numbers
<1>2. Count(n) = IF l < loop THEN trials ELSE IF l = loop THEN (IF s < step THEN i + 1 ELSE i) ELSE 0
  BY <1>1, CountAt
<1> QED BY <1>2 DEF Position

\* A statement that is done counts for its result only.
LEMMA AdvanceCounts ==
  ASSUME Position, Measuring, i < trials, Advance, UNCHANGED <<program, trials>>
  PROVE  /\ status' # "starting" => Position'
         /\ \A n \in Numbers :
              IF PlaceOf(program, n) = <<loop, step>>
              THEN Results(program)[n] = Current.key /\ Count(n) = i /\ Count(n)' = i + 1
              ELSE Count(n)' = Count(n)
<1>1. /\ loop \in 1..Len(Loops(program)) /\ step \in 1..Len(Body) /\ Len(Body) \in Nat \ {0}
      /\ Len(Loops(program)) \in Nat /\ i \in Nat /\ trials \in Nat
  BY StaticFacts DEF Position, Measuring, Body
<1>2. \/ step = Len(Body) /\ i' = i + 1 /\ step' = 1 /\ drawn' = {} /\ loop' = loop
      \/ step < Len(Body) /\ step' = step + 1 /\ drawn' = drawn \cup Current.writes /\ loop' = loop /\ i' = i
  BY <1>1 DEF Advance
<1>3. status' # "starting" => Position'
  <2>1. Body' = Body /\ loop' = loop
    BY <1>2 DEF Body
  <2>2. step' \in Nat \ {0} /\ step' <= Len(Body) /\ i' \in 0..trials /\ (i' = trials => step' = 1)
    BY <1>1, <1>2
  <2>3. \A s \in 1..(step' - 1) : Body[s].writes \subseteq drawn'
    <3>1. CASE step = Len(Body) /\ step' = 1
      BY <3>1
    <3>2. CASE step' = step + 1 /\ drawn' = drawn \cup Current.writes
      <4>1. \A s \in 1..(step - 1) : Body[s].writes \subseteq drawn
        BY <1>1 DEF Position
      <4>2. \A s \in 1..step : s \in 1..(step - 1) \/ s = step
        BY <1>1
      <4>3. step' - 1 = step
        BY <3>2, <1>1
      <4> QED BY <3>2, <4>1, <4>2, <4>3 DEF Current
    <3> QED BY <1>2, <3>1, <3>2
  <2> QED BY <1>1, <2>1, <2>2, <2>3 DEF Position
<1>4. ASSUME NEW n \in Numbers
      PROVE  IF PlaceOf(program, n) = <<loop, step>>
             THEN Results(program)[n] = Current.key /\ Count(n) = i /\ Count(n)' = i + 1
             ELSE Count(n)' = Count(n)
  <2>1. PICK l, s \in Nat \ {0} :
               /\ PlaceOf(program, n) = <<l, s>> /\ l <= Len(Loops(program)) + 1
               /\ l <= Len(Loops(program)) =>
                    s \in 1..Len(Loops(program)[l]) /\ Loops(program)[l][s].key = Results(program)[n]
    BY PlaceCases DEF Position, Numbers
  <2>2. /\ Count(n) = IF l < loop THEN trials ELSE IF l = loop THEN (IF s < step THEN i + 1 ELSE i) ELSE 0
        /\ Count(n)' = IF l < loop' THEN trials' ELSE IF l = loop' THEN (IF s < step' THEN i' + 1 ELSE i') ELSE 0
    BY <2>1, CountAt
  <2>3. CASE l = loop /\ s = step
    <3>1. Results(program)[n] = Current.key
      BY <1>1, <2>1, <2>3 DEF Current, Body
    <3>2. Count(n) = i /\ Count(n)' = i + 1
      BY <1>1, <1>2, <2>2, <2>3
    <3> QED BY <2>1, <2>3, <3>1, <3>2
  <2>4. CASE ~(l = loop /\ s = step)
    <3>1. PlaceOf(program, n) # <<loop, step>>
      BY <2>1, <2>4
    <3>2. l = loop => s \in 1..Len(Body)
      BY <1>1, <2>1 DEF Body
    <3>3. Count(n)' = Count(n)
      BY <1>1, <1>2, <2>2, <2>4, <3>2
    <3> QED BY <3>1, <3>3
  <2> QED BY <2>3, <2>4
<1> QED BY <1>3, <1>4

\* The measurement of a trial goes to the end of its list.
LEMMA SavedInOrder ==
  ASSUME NEW l, NEW c \in Nat, InOrder(l, c), SoundList(l) \/ l = NewList
  PROVE  SoundList(Saved(l, c)) /\ InOrder(Saved(l, c), c + 1)
<1> DEFINE g == IF Full(l) THEN Grown(l) ELSE l
<1>1. HasRoom(g)
  <2>1. CASE SoundList(l)
    BY <2>1, GrownHasRoom
  <2>2. CASE l = NewList
    <3>1. ~Full(NewList)
      BY DEF Full, NewList
    <3> QED BY <2>2, <3>1, NewHasRoom
  <2> QED BY <2>1, <2>2
<1>2. InOrder(g, c)
  <2>1. CASE ~Full(l)
    BY <2>1
  <2>2. CASE Full(l)
    <3>1. l.size = c /\ l.trials = c /\ l.capacity = c /\ \A j \in 0..(c - 1) : l.list[j] = j
      BY <2>2 DEF InOrder, Full
    <3>2. \A j \in 0..(c - 1) : Grown(l).list[j] = j
      BY <3>1 DEF Grown
    <3> QED BY <2>2, <3>1, <3>2 DEF InOrder, Grown
  <2> QED BY <2>1, <2>2
<1>3. Saved(l, c) = Stored(g, c)
  BY DEF Saved
<1> HIDE DEF g
<1>4. SoundList(Stored(g, c))
  BY <1>1, StoredIsSound
<1>5. InOrder(Stored(g, c), c + 1)
  <2>1. c \in 0..(g.capacity - 1) /\ g.list \in [0..(g.capacity - 1) -> Nat \cup {Unset}] /\ g.capacity \in Nat
    BY <1>1, <1>2 DEF HasRoom, InOrder
  <2>2. Stored(g, c).list = [g.list EXCEPT ![c] = c] /\ Stored(g, c).size = c + 1 /\ Stored(g, c).trials = c + 1
    BY <1>2 DEF Stored, InOrder
  <2>3. \A j \in 0..c : Stored(g, c).list[j] = j
    <3> TAKE j \in 0..c
    <3>1. CASE j = c
      BY <2>1, <2>2, <3>1
    <3>2. CASE j \in 0..(c - 1)
      BY <1>2, <2>1, <2>2, <3>2 DEF InOrder
    <3> QED BY <3>1, <3>2
  <2> QED BY <2>2, <2>3 DEF InOrder
<1> QED BY <1>3, <1>4, <1>5

-----------------------------------------------------------------------------
(* Each action keeps the order                                             *)

\* An action that moves nothing and records nothing keeps the position and
\* the lists.
LEMMA SamePlace ==
  ASSUME Position, Lists, UNCHANGED <<program, trials, position, table>>, status' # "starting"
  PROVE  Position' /\ Lists' /\ \A n : Count(n)' = Count(n)
<1> USE DEF position
<1>1. \A n : Count(n)' = Count(n)
  BY DEF Count
<1>2. Position'
  BY DEF Position, Body
<1>3. Lists'
  BY <1>1 DEF Lists, Numbers
<1> QED BY <1>1, <1>2, <1>3

LEMMA InitCInv == Init => CInv
<1> SUFFICES ASSUME Init PROVE CInv
  OBVIOUS
<1>0. \A p \in {"fpfd", "gcc", "x86", "x86_64"} :
        /\ Len(Loops(p)) \in Nat \ {0} /\ Len(Results(p)) \in Nat
        /\ Len(Loops(p)[1]) \in Nat \ {0}
  BY AllWellFormed DEF WellFormed, SoundLoop, Fresh
<1>1. program \in {"fpfd", "gcc", "x86", "x86_64"}
  BY BenchAssumption DEF Init
<1>2. Position
  <2>1. /\ Len(Loops(program)) \in Nat \ {0} /\ Len(Loops(program)[1]) \in Nat \ {0}
        /\ loop = 1 /\ i = 0 /\ step = 1 /\ trials = 0
    BY <1>0, <1>1 DEF Init
  <2>2. \A s \in 1..(step - 1) : Body[s].writes \subseteq drawn
    BY <2>1
  <2> QED BY <1>1, <2>1, <2>2 DEF Position, Body
<1>3. \A n \in Numbers : Count(n) = 0
  <2> TAKE n \in Numbers
  <2>1. PICK l, s \in Nat \ {0} :
               /\ PlaceOf(program, n) = <<l, s>> /\ l <= Len(Loops(program)) + 1
               /\ l <= Len(Loops(program)) =>
                    s \in 1..Len(Loops(program)[l]) /\ Loops(program)[l][s].key = Results(program)[n]
    BY <1>1, PlaceCases DEF Numbers
  <2>2. Count(n) = IF l < loop THEN trials ELSE IF l = loop THEN (IF s < step THEN i + 1 ELSE i) ELSE 0
    BY <2>1, CountAt
  <2> QED BY <2>2 DEF Init
<1>4. Lists
  BY <1>3 DEF Init, Lists
<1>5. Written
  BY <1>0, <1>1 DEF Init, Written
<1>6. Ended
  BY DEF Init, Ended
<1> QED BY <1>2, <1>4, <1>5, <1>6 DEF CInv

LEMMA StartCInv == CInv /\ Start => CInv'
<1> SUFFICES ASSUME CInv, Start PROVE CInv'
  OBVIOUS
<1> USE DEF CInv
<1>1. /\ status = "starting" /\ UNCHANGED <<program, position, table, next, files>>
      /\ loop = 1 /\ i = 0 /\ step = 1 /\ next = 1
      /\ Len(Loops(program)) \in Nat \ {0} /\ Len(Results(program)) \in Nat
  BY StaticFacts DEF Start, Position, Written
<1>2. \/ status' = "failure" /\ refused' = TRUE /\ trials' = trials
      \/ trials' \in Nat /\ status' = "running" /\ refused' = refused
  BY BenchAssumption DEF Start, Refuse
<1>3. Position'
  BY <1>1, <1>2 DEF Position, position, Body
<1>4. \A n \in Numbers : Count(n) = 0 /\ Count(n)' = 0
  <2> TAKE n \in Numbers
  <2>1. PICK l, s \in Nat \ {0} :
               /\ PlaceOf(program, n) = <<l, s>> /\ l <= Len(Loops(program)) + 1
               /\ l <= Len(Loops(program)) =>
                    s \in 1..Len(Loops(program)[l]) /\ Loops(program)[l][s].key = Results(program)[n]
    BY PlaceCases DEF Position, Numbers
  <2>2. /\ Count(n) = IF l < loop THEN trials ELSE IF l = loop THEN (IF s < step THEN i + 1 ELSE i) ELSE 0
        /\ Count(n)' = IF l < loop' THEN trials' ELSE IF l = loop' THEN (IF s < step' THEN i' + 1 ELSE i') ELSE 0
    BY <1>1, <2>1, CountAt
  <2>3. loop' = 1 /\ step' = 1 /\ i' = 0
    BY <1>1 DEF position
  <2> QED BY <1>1, <2>2, <2>3
<1>5. \A k : k \notin DOMAIN table
  BY <1>4 DEF Lists
<1>6. Numbers' = Numbers /\ table' = table /\ program' = program
  BY <1>1 DEF Numbers
<1>7. Lists'
  BY <1>4, <1>5, <1>6 DEF Lists
<1>8. files' = files /\ next' = next /\ loop' = loop
  BY <1>1 DEF position
<1>9. Written'
  BY <1>1, <1>2, <1>5, <1>6, <1>8 DEF Written
<1>10. Ended'
  BY <1>2 DEF Ended
<1> QED BY <1>3, <1>7, <1>9, <1>10

LEMMA PrepareCInv == CInv /\ Prepare => CInv'
<1> SUFFICES ASSUME CInv, Prepare PROVE CInv'
  OBVIOUS
<1> USE DEF CInv
<1>1. /\ Measuring /\ i < trials /\ Advance /\ Current.key = NoKey /\ status = "running"
      /\ UNCHANGED <<program, status, trials, table, next, files, refused>>
  BY DEF Prepare, Measuring
<1>2. Position'
  BY <1>1, AdvanceCounts
<1>3. \A n \in Numbers : Count(n)' = Count(n)
  BY <1>1, AdvanceCounts, StaticFacts
<1>4. Numbers' = Numbers
  BY <1>1 DEF Numbers
<1>5. Lists'
  BY <1>1, <1>3, <1>4 DEF Lists
<1>6. loop' = loop
  BY <1>1 DEF Advance
<1>7. Written'
  BY <1>1, <1>6 DEF Written
<1>8. Ended'
  BY <1>1 DEF Ended
<1> QED BY <1>2, <1>5, <1>7, <1>8

LEMMA NextLoopCInv == CInv /\ NextLoop => CInv'
<1> SUFFICES ASSUME CInv, NextLoop PROVE CInv'
  OBVIOUS
<1> USE DEF CInv
<1>1. /\ loop \in 1..Len(Loops(program)) /\ Len(Loops(program)) \in Nat /\ i = trials /\ trials \in Nat /\ step = 1
      /\ status = "running" /\ loop' = loop + 1 /\ i' = 0
      /\ UNCHANGED <<program, status, trials, step, drawn, table, next, files, refused>>
  BY StaticFacts DEF NextLoop, Measuring, Position
<1>2. Position'
  <2>1. loop' <= Len(Loops(program)) => Len(Loops(program)[loop']) \in Nat \ {0}
    BY <1>1, StaticFacts
  <2> QED BY <1>1, <2>1 DEF Position, Body
<1>3. \A n \in Numbers : Count(n)' = Count(n)
  <2> TAKE n \in Numbers
  <2>1. PICK l, s \in Nat \ {0} :
               /\ PlaceOf(program, n) = <<l, s>> /\ l <= Len(Loops(program)) + 1
               /\ l <= Len(Loops(program)) =>
                    s \in 1..Len(Loops(program)[l]) /\ Loops(program)[l][s].key = Results(program)[n]
    BY PlaceCases DEF Position, Numbers
  <2>2. /\ Count(n) = IF l < loop THEN trials ELSE IF l = loop THEN (IF s < step THEN i + 1 ELSE i) ELSE 0
        /\ Count(n)' = IF l < loop' THEN trials' ELSE IF l = loop' THEN (IF s < step' THEN i' + 1 ELSE i') ELSE 0
    BY <1>1, <2>1, CountAt
  <2> QED BY <1>1, <2>2
<1>4. Numbers' = Numbers
  BY <1>1 DEF Numbers
<1>5. Lists'
  BY <1>1, <1>3, <1>4 DEF Lists
<1>6. Written'
  BY <1>1 DEF Written
<1>7. Ended'
  BY <1>1 DEF Ended
<1> QED BY <1>2, <1>5, <1>6, <1>7

LEMMA RecordCInv == CInv /\ RecordTicks => CInv'
<1> SUFFICES ASSUME CInv, RecordTicks PROVE CInv'
  OBVIOUS
<1> USE DEF CInv
<1>1. /\ Measuring /\ i < trials /\ Current.key # NoKey /\ status = "running"
      /\ loop \in 1..Len(Loops(program)) /\ step \in 1..Len(Body) /\ i \in Nat
      /\ UNCHANGED <<program, trials, next, files>>
  BY StaticFacts DEF RecordTicks, Measuring, Position, Body
<1>2. CASE Refuse /\ UNCHANGED <<position, table>>
  <2>1. Position' /\ Lists'
    BY <1>1, <1>2, SamePlace DEF Refuse
  <2>2. Written'
    BY <1>1, <1>2 DEF Written, Refuse, position
  <2>3. Ended'
    BY <1>1, <1>2 DEF Ended, Refuse
  <2> QED BY <2>1, <2>2, <2>3
<1>3. CASE /\ table' = [k \in DOMAIN table \cup {Current.key} |->
                          IF k = Current.key THEN Saved(ListOf(k), i) ELSE table[k]]
           /\ Advance
           /\ UNCHANGED <<status, refused>>
  <2> DEFINE key == Current.key
  <2>1. PICK n0 \in Numbers : PlaceOf(program, n0) = <<loop, step>> /\ Results(program)[n0] = key
    <3>1. SoundLoop(program, loop)
      BY <1>1, StaticFacts DEF WellFormed
    <3> QED BY <1>1, <3>1 DEF SoundLoop, Current, Body, Numbers
  <2>2. Position'
    BY <1>1, <1>3, AdvanceCounts
  <2>3. \A n \in Numbers :
          IF n = n0 THEN Count(n) = i /\ Count(n)' = i + 1
          ELSE Results(program)[n] # key /\ Count(n)' = Count(n)
    <3> TAKE n \in Numbers
    <3>1. n # n0 => Results(program)[n] # key
      BY <2>1, StaticFacts
    <3>2. IF PlaceOf(program, n) = <<loop, step>>
          THEN Results(program)[n] = key /\ Count(n) = i /\ Count(n)' = i + 1
          ELSE Count(n)' = Count(n)
      BY <1>1, <1>3, AdvanceCounts
    <3> QED BY <2>1, <3>1, <3>2
  <2> HIDE DEF key
  <2>4. InOrder(ListOf(key), i) /\ (SoundList(ListOf(key)) \/ ListOf(key) = NewList)
    <3>1. CASE i = 0
      <4>1. key \notin DOMAIN table
        BY <1>1, <2>3, <3>1 DEF Lists
      <4>2. ListOf(key) = NewList
        BY <4>1 DEF ListOf
      <4> QED BY <3>1, <4>2 DEF InOrder, NewList
    <3>2. CASE i > 0
      <4>1. key \in DOMAIN table /\ InOrder(table[key], i)
        BY <2>1, <2>3, <3>2 DEF Lists
      <4>2. ListOf(key) = table[key] /\ SoundList(table[key])
        BY <4>1 DEF ListOf, Lists
      <4> QED BY <4>1, <4>2
    <3> QED BY <1>1, <3>1, <3>2
  <2>5. SoundList(Saved(ListOf(key), i)) /\ InOrder(Saved(ListOf(key), i), i + 1)
    BY <1>1, <2>4, SavedInOrder
  <2>6. /\ DOMAIN table' = DOMAIN table \cup {key} /\ table'[key] = Saved(ListOf(key), i)
        /\ \A k \in DOMAIN table : k # key => table'[k] = table[k]
    BY <1>3 DEF key
  <2>7. Numbers' = Numbers /\ program' = program
    BY <1>1 DEF Numbers
  <2>8. Lists'
    <3>1. \A k \in DOMAIN table' : SoundList(table'[k])
      BY <2>5, <2>6 DEF Lists
    <3>2. \A k \in DOMAIN table' : \E n \in Numbers : k = Results(program)[n] /\ Count(n)' > 0
      <4>1. n0 \in Numbers /\ Count(n0)' > 0 /\ Results(program)[n0] = key
        BY <1>1, <2>1, <2>3
      <4>2. \A n \in Numbers : Count(n) > 0 => Count(n)' > 0
        BY <1>1, <2>3
      <4> QED BY <2>6, <4>1, <4>2 DEF Lists
    <3>3. \A n \in Numbers : Count(n)' > 0 =>
            Results(program)[n] \in DOMAIN table' /\ InOrder(table'[Results(program)[n]], Count(n)')
      <4> SUFFICES ASSUME NEW n \in Numbers, Count(n)' > 0
                   PROVE  Results(program)[n] \in DOMAIN table' /\ InOrder(table'[Results(program)[n]], Count(n)')
        OBVIOUS
      <4>1. CASE n = n0
        BY <2>1, <2>3, <2>5, <2>6, <4>1
      <4>2. CASE n # n0
        BY <2>3, <2>6, <4>2 DEF Lists
      <4> QED BY <4>1, <4>2
    <3> QED BY <2>7, <3>1, <3>2, <3>3 DEF Lists
  <2>9. Written'
    <3>1. next = 1 /\ Len(Results(program)) \in Nat /\ Len(Loops(program)) \in Nat
      BY <1>1, StaticFacts DEF Written
    <3>2. \A k : k \notin DOMAIN files
      BY <1>1, <3>1 DEF Written
    <3> QED BY <1>1, <1>3, <3>1, <3>2 DEF Written
  <2>10. Ended'
    BY <1>1, <1>3 DEF Ended
  <2> QED BY <2>2, <2>8, <2>9, <2>10
<1> QED BY <1>2, <1>3 DEF RecordTicks

\* Nothing is recorded any more when the files are written.
LEMMA WritingFacts ==
  ASSUME CInv, status = "running", loop > Len(Loops(program))
  PROVE  /\ Len(Results(program)) \in Nat /\ next \in Nat
         /\ \A k \in DOMAIN table : Report(table[k]) = [rows |-> [j \in 0..(trials - 1) |-> j], over |-> trials]
<1> USE DEF CInv
<1>1. Len(Results(program)) \in Nat /\ next \in Nat
  BY StaticFacts DEF Written
<1>2. ASSUME NEW k \in DOMAIN table
      PROVE  Report(table[k]) = [rows |-> [j \in 0..(trials - 1) |-> j], over |-> trials]
  <2>1. PICK n \in Numbers : k = Results(program)[n] /\ Count(n) > 0
    BY <1>2 DEF Lists
  <2>2. InOrder(table[k], Count(n))
    BY <2>1 DEF Lists
  <2>3. PICK l, s \in Nat \ {0} :
               /\ PlaceOf(program, n) = <<l, s>> /\ l <= Len(Loops(program)) + 1
               /\ l <= Len(Loops(program)) =>
                    s \in 1..Len(Loops(program)[l]) /\ Loops(program)[l][s].key = Results(program)[n]
    BY PlaceCases DEF Position, Numbers
  <2>4. Count(n) = IF l < loop THEN trials ELSE IF l = loop THEN (IF s < step THEN i + 1 ELSE i) ELSE 0
    BY <2>3, CountAt
  <2>5. i = 0 /\ step = 1
    BY DEF Position
  <2>6. Count(n) = trials
    BY <2>1, <2>4, <2>5
  <2> QED BY <2>2, <2>6 DEF InOrder, Report
<1> QED BY <1>1, <1>2

LEMMA WriteCInv == CInv /\ WriteTicks => CInv'
<1> SUFFICES ASSUME CInv, WriteTicks PROVE CInv'
  OBVIOUS
<1> USE DEF CInv
<1>1. /\ status = "running" /\ loop > Len(Loops(program)) /\ next <= Len(Results(program))
      /\ Named \in DOMAIN table
      /\ UNCHANGED <<program, trials, position, table>>
  BY DEF WriteTicks, Writing
<1>2. /\ Len(Results(program)) \in Nat /\ next \in Nat \ {0}
      /\ \A k \in DOMAIN table : Report(table[k]) = [rows |-> [j \in 0..(trials - 1) |-> j], over |-> trials]
  BY <1>1, WritingFacts DEF Written
<1>3. OpenFile(Report(table[Named])) /\ status' # "starting"
  BY <1>1 DEF WriteTicks, Refuse
<1>4. Position' /\ Lists'
  BY <1>1, <1>3, SamePlace
<1>5. \A k \in DOMAIN files' \cap DOMAIN table' :
        files'[k] = [rows |-> [j \in 0..(trials' - 1) |-> j], over |-> trials']
  BY <1>1, <1>2, <1>3 DEF OpenFile, Written
<1>6. loop' = loop
  BY <1>1 DEF position
<1>7. CASE next' = next + 1 /\ UNCHANGED <<status, refused>>
  <2>1. \A n \in 1..(next' - 1) : n \in 1..(next - 1) \/ n = next
    BY <1>2, <1>7
  <2>2. \A n \in 1..(next' - 1) : Results(program)[n] \in DOMAIN table
    BY <1>1, <2>1 DEF Written, Named
  <2>3. \A k : k \in DOMAIN files' <=> \E n \in 1..(next' - 1) : k = Results(program)[n]
    <3>1. \A k : k \in DOMAIN files' <=> k \in DOMAIN files \/ k = Results(program)[next]
      BY <1>3 DEF OpenFile, Named
    <3>2. next \in 1..(next' - 1) /\ \A n \in 1..(next - 1) : n \in 1..(next' - 1)
      BY <1>2, <1>7
    <3>3. \A k : k \in DOMAIN files <=> \E n \in 1..(next - 1) : k = Results(program)[n]
      BY <1>1 DEF Written
    <3> QED BY <2>1, <3>1, <3>2, <3>3
  <2>4. Written'
    <3>1. next' \in 1..(Len(Results(program)) + 1) /\ ~(loop' <= Len(Loops(program)))
      BY <1>1, <1>2, <1>6, <1>7, StaticFacts DEF Position
    <3>2. program' = program
      BY <1>1
    <3> QED BY <1>5, <2>2, <2>3, <3>1, <3>2, <1>1 DEF Written
  <2>5. Ended'
    BY <1>1, <1>7 DEF Ended
  <2> QED BY <1>4, <2>4, <2>5
<1>8. CASE Refuse /\ UNCHANGED next
  <2>1. Written'
    BY <1>1, <1>2, <1>5, <1>6, <1>8 DEF Written, Refuse
  <2>2. Ended'
    BY <1>8 DEF Ended, Refuse
  <2> QED BY <1>4, <2>1, <2>2
<1> QED BY <1>7, <1>8 DEF WriteTicks

LEMMA OtherCInv == CInv /\ (CannotOpen \/ NotRecorded \/ Finish \/ UNCHANGED vars) => CInv'
<1> SUFFICES ASSUME CInv, CannotOpen \/ NotRecorded \/ Finish \/ UNCHANGED vars PROVE CInv'
  OBVIOUS
<1> USE DEF CInv
<1>1. CASE UNCHANGED vars
  <2>1. \A n : Count(n)' = Count(n)
    BY <1>1 DEF Count, vars, position
  <2>2. Lists'
    BY <1>1, <2>1 DEF Lists, Numbers, vars, position
  <2>3. Position'
    BY <1>1 DEF Position, Body, vars, position
  <2>4. Written' /\ Ended'
    BY <1>1 DEF Written, Ended, Named, vars, position
  <2> QED BY <2>2, <2>3, <2>4
<1>2. CASE CannotOpen \/ NotRecorded \/ Finish
  <2>1. /\ status = "running" /\ status' # "starting" /\ loop > Len(Loops(program)) /\ loop' = loop
        /\ UNCHANGED <<program, trials, position, table, next>>
    BY <1>2 DEF CannotOpen, NotRecorded, Finish, Writing, position
  <2>2. Position' /\ Lists'
    BY <2>1, SamePlace
  <2>3. Written'
    <3>1. CASE CannotOpen
      BY <2>1, <3>1 DEF CannotOpen, Written
    <3>2. CASE NotRecorded
      <4>1. status' = "failure" /\ Named \notin DOMAIN table /\ OpenFile(Report(NewList))
        BY <3>2 DEF NotRecorded
      <4>2. \A k \in DOMAIN files' \cap DOMAIN table' :
              files'[k] = [rows |-> [j \in 0..(trials' - 1) |-> j], over |-> trials']
        BY <2>1, <4>1 DEF OpenFile, Written
      <4> QED BY <2>1, <4>1, <4>2 DEF Written
    <3>3. CASE Finish
      BY <2>1, <3>3 DEF Finish, Written
    <3> QED BY <1>2, <3>1, <3>2, <3>3
  <2>4. Ended'
    <3>1. CASE CannotOpen
      BY <3>1 DEF CannotOpen, Ended
    <3>2. CASE NotRecorded
      BY <2>1, <3>2 DEF NotRecorded, Writing, Ended, Named
    <3>3. CASE Finish
      <4>1. next \in 1..(Len(Results(program)) + 1) /\ Len(Results(program)) \in Nat
        BY StaticFacts DEF Written
      <4> QED BY <3>3, <4>1 DEF Finish, Ended
    <3> QED BY <1>2, <3>1, <3>2, <3>3
  <2> QED BY <2>2, <2>3, <2>4
<1> QED BY <1>1, <1>2

LEMMA BenchOrdered == BenchSpec => []CInv
<1>1. CInv /\ [Next]_vars => CInv'
  BY StartCInv, PrepareCInv, RecordCInv, NextLoopCInv, WriteCInv, OtherCInv DEF Next
<1> QED BY <1>1, InitCInv, PTL DEF BenchSpec

-----------------------------------------------------------------------------
(* What the order shows                                                    *)

\* A trial measures operands that were drawn in it, by every statement of the
\* four programs, and all but one leave what they read alone
\* (impl_inc.c:33, impl_scale.c:35-41).
THEOREM BenchFreshOperands == BenchSpec => []FreshOperands
<1>1. CInv => FreshOperands
  <2> SUFFICES ASSUME CInv, Measuring, i < trials
               PROVE  /\ Current.reads \subseteq drawn
                      /\ Current.key \in {NoKey, <<"impl_inc", 32>>} \/ Current.writes \cap Current.reads = {}
    BY DEF FreshOperands
  <2> USE DEF CInv
  <2>1. loop \in 1..Len(Loops(program)) /\ step \in 1..Len(Body) /\ Fresh(Body)
    BY StaticFacts DEF Position, Measuring, Body
  <2>2. \A s \in 1..(step - 1) : Body[s].writes \subseteq drawn
    BY <2>1 DEF Position
  <2>3. \A v \in Current.reads : \E t \in 1..(step - 1) : v \in Body[t].writes
    BY <2>1 DEF Fresh, Current
  <2>4. Current.key \in {NoKey, <<"impl_inc", 32>>} \/ Current.writes \cap Current.reads = {}
    BY <2>1 DEF Fresh, Current
  <2> QED BY <2>2, <2>3, <2>4
<1> QED BY <1>1, BenchOrdered, PTL

\* A file holds the measurement of every trial in the order of the trials, and
\* a program that succeeds leaves a file for each of its results
\* (htable.c:105-133, bench-fpfd.c:127-161).
THEOREM BenchFilesComplete == BenchSpec => []FilesComplete
<1>1. CInv => FilesComplete
  <2> SUFFICES ASSUME CInv PROVE FilesComplete
    OBVIOUS
  <2> USE DEF CInv
  <2>1. \A k \in DOMAIN files \cap DOMAIN table :
          files[k] = [rows |-> [j \in 0..(trials - 1) |-> j], over |-> trials]
    BY DEF Written
  <2>2. ASSUME status = "success" PROVE DOMAIN files = DOMAIN table
    <3>1. next - 1 = Len(Results(program))
      BY <2>2, StaticFacts DEF Ended
    <3>2. \A k : k \in DOMAIN files <=> \E n \in Numbers : k = Results(program)[n]
      BY <2>2, <3>1 DEF Written, Numbers
    <3>3. \A n \in Numbers : Results(program)[n] \in DOMAIN table
      BY <3>1 DEF Written, Numbers
    <3>4. \A k \in DOMAIN table : \E n \in Numbers : k = Results(program)[n]
      BY DEF Lists
    <3> QED BY <3>2, <3>3, <3>4
  <2> QED BY <2>1, <2>2 DEF FilesComplete
<1> QED BY <1>1, BenchOrdered, PTL

\* A program that was refused nothing writes all its files, unless it was
\* asked for no trials or is the 32-bit one, which stops at mulq
\* (x86/bench-x86.c:79-81).
THEOREM BenchFailsOnlyWhen == BenchSpec => []FailsOnlyWhen
<1>1. CInv => FailsOnlyWhen
  <2> SUFFICES ASSUME CInv PROVE FailsOnlyWhen
    OBVIOUS
  <2> USE DEF CInv
  <2>1. ASSUME status = "failure", ~refused, trials # 0
        PROVE  program = "x86" /\ Named = <<"mul", 64>>
    <3>1. /\ loop > Len(Loops(program)) /\ next <= Len(Results(program)) /\ Named \notin DOMAIN table
          /\ next \in Numbers /\ i = 0 /\ step = 1 /\ Len(Loops(program)) \in Nat
          /\ loop = Len(Loops(program)) + 1
      BY <2>1, StaticFacts DEF Ended, Written, Position, Numbers
    <3>2. ~(Count(next) > 0)
      BY <3>1 DEF Lists, Named
    <3>3. Never(program, next)
      <4>1. Recorded(program, next) \/ Never(program, next)
        BY <3>1, StaticFacts DEF WellFormed, Numbers
      <4>2. ASSUME Recorded(program, next) PROVE FALSE
        <5>1. PICK l \in 1..Len(Loops(program)) : \E s \in 1..Len(Loops(program)[l]) :
                PlaceOf(program, next) = <<l, s>>
          BY <4>2 DEF Recorded
        <5>2. PICK s \in Nat : PlaceOf(program, next) = <<l, s>>
          BY <5>1, StaticFacts
        <5>3. Count(next) = trials
          BY <3>1, <5>1, <5>2, CountAt
        <5> QED BY <2>1, <3>2, <5>3 DEF Position
      <4> QED BY <4>1, <4>2
    <3>4. program = "x86" /\ Results(program) = X86Results /\ Len(Loops(program)) = 3
      BY <3>3, ProcessorProgram DEF Never, Results, Loops
    <3>5. next = 4
      <4>1. ASSUME next = 8 PROVE FALSE
        <5>1. 4 \in Numbers /\ PlaceOf(program, 4) = <<4, 1>>
          BY <3>1, <3>4, <4>1, ProcessorResultList DEF Numbers, PlaceOf, Places, X86Places
        <5>2. Count(4) = 0
          <6>1. Count(4) = IF 4 < loop THEN trials ELSE IF 4 = loop THEN (IF 1 < step THEN i + 1 ELSE i) ELSE 0
            BY <5>1, CountAt
          <6>2. Len(Loops(program)) = 3 /\ loop = Len(Loops(program)) + 1
            BY <3>1, <3>4
          <6>3. loop = 4 /\ i = 0 /\ step = 1
            BY <3>1, <6>2
          <6> QED BY <6>1, <6>3
        <5>3. Results(program)[4] \in DOMAIN table
          BY <4>1 DEF Written
        <5>4. PICK n \in Numbers : Results(program)[4] = Results(program)[n] /\ Count(n) > 0
          BY <5>3 DEF Lists
        <5>5. n = 4
          BY <5>1, <5>4, StaticFacts
        <5> QED BY <5>2, <5>4, <5>5
      <4> QED BY <3>3, <4>1 DEF Never
    <3> QED BY <3>4, <3>5, ProcessorResultList DEF Named
  <2>2. status = "crashed" => refused /\ ~ChecksFiles(program)
    BY DEF Ended
  <2> QED BY <2>1, <2>2 DEF FailsOnlyWhen
<1> QED BY <1>1, BenchOrdered, PTL
=============================================================================
