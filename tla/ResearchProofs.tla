---------------------------- MODULE ResearchProofs ----------------------------
(***************************************************************************)
(* Proofs about Research, for every grid, history, number of workers and   *)
(* length of the windows:                                                  *)
(*   walk-forward  a judged candidate rests on whole windows of its own,   *)
(*                 and its flag means what it says;                        *)
(*   sweep         whatever the order of the workers, the candidates are   *)
(*                 the best of those that beat the true baseline.  The     *)
(*                 inductive invariant is SearchInv.                       *)
(***************************************************************************)
EXTENDS Research, TablesProofs

USE ResearchAssumption

(* The tests so far are one per window passed, and what is in the table    *)
(* without an error has a test for every window.                           *)
Passed ==
    /\ \E S : oos \in Seq(S)
    /\ Len(oos) = window
    /\ window > 0 => EnoughBars

Entries ==
    /\ \E S : table \in Seq(S)
    /\ \A k \in 1..Len(table) : ~table[k].error =>
         EnoughBars /\ Len(table[k].tests) = Windows

WindowInv == Passed /\ Entries

-----------------------------------------------------------------------------
(* Division by the length of a step.                                       *)
LEMMA DivBounds ==
  ASSUME NEW t \in Int, NEW s \in Nat \ {0}
  PROVE  (t \div s) \in Int /\ (t \div s) * s <= t /\ t < (t \div s) * s + s
  <1> DEFINE q == t \div s
             r == t % s
  <1>1. q \in Int /\ r \in Int
    OBVIOUS
  <1>2. t = s * q + r /\ r >= 0 /\ r < s
    OBVIOUS
  <1>. HIDE DEF q, r
  <1>3. q * s = s * q /\ q * s \in Int
    BY <1>1
  <1>4. q * s <= t /\ t < q * s + s
    BY <1>1, <1>2, <1>3
  <1>. QED BY <1>1, <1>4 DEF q

(* The last window ends inside the data, and one more would not.           *)
LEMMA WindowsFit ==
  ASSUME EnoughBars
  PROVE  /\ Windows \in Nat /\ Windows >= MinWindows
         /\ TestTo(Windows - 1) <= Bars /\ TestTo(Windows) > Bars
         /\ \A w \in 1..Windows : TestFrom(w - 1) > TrainBars
  <1> DEFINE room == Bars - (TrainBars + TestBars)
             q == room \div StepBars
  <1>1. room \in Nat /\ Windows >= MinWindows
    BY DEF EnoughBars
  <1>2. q \in Int /\ q * StepBars <= room /\ room < q * StepBars + StepBars
    BY <1>1, DivBounds
  <1>3. q \in Nat
    BY <1>1
  <1>4. Windows = q + 1
    BY DEF Windows
  <1>. HIDE DEF q
  <1>5. (q + 1) * StepBars = q * StepBars + StepBars /\ q * StepBars \in Int
    BY <1>3
  <1>6. TestTo(Windows - 1) = q * StepBars + TrainBars + TestBars
        /\ TestTo(Windows) = (q + 1) * StepBars + TrainBars + TestBars
    BY <1>3, <1>4 DEF TestTo
  <1>7. ASSUME NEW w \in 1..Windows PROVE TestFrom(w - 1) > TrainBars
    <2>1. w - 1 \in Nat
      BY <1>3, <1>4
    <2>2. (w - 1) * StepBars \in Nat
      BY <2>1
    <2>. QED BY <2>2 DEF TestFrom
  <1>. QED BY <1>1, <1>2, <1>3, <1>4, <1>5, <1>6, <1>7

LEMMA SeqGrows ==
  ASSUME NEW s, \E S : s \in Seq(S), NEW e
  PROVE  /\ \E S : Append(s, e) \in Seq(S)
         /\ Len(s) \in Nat /\ Len(Append(s, e)) = Len(s) + 1
         /\ \A k \in 1..Len(s) : Append(s, e)[k] = s[k]
         /\ Append(s, e)[Len(s) + 1] = e
  <1>1. PICK S : s \in Seq(S)
    OBVIOUS
  <1>2. s \in Seq(S \cup {e}) /\ e \in S \cup {e}
    BY <1>1
  <1>. QED BY <1>2, AppendProperties, LenProperties

(* Judging a candidate appends its entry and starts over.                  *)
LEMMA JudgedKeeps ==
  ASSUME WindowInv, NEW entry, Judged(entry),
         ~entry.error => EnoughBars /\ Len(entry.tests) = Windows
  PROVE  WindowInv'
  <1>1. Passed'
    <2>1. oos' = <<>> /\ window' = 0
      BY DEF Judged
    <2>2. <<>> \in Seq({}) /\ Len(<<>>) = 0
      BY EmptySeq
    <2>. QED BY <2>1, <2>2 DEF Passed
  <1>2. Entries'
    <2>1. table' = Append(table, entry)
      BY DEF Judged
    <2>2. ASSUME NEW k \in 1..Len(table'), ~table'[k].error
          PROVE  EnoughBars /\ Len(table'[k].tests) = Windows
      <3>1. CASE k \in 1..Len(table)
        BY <2>1, <2>2, <3>1, SeqGrows DEF WindowInv, Entries
      <3>2. CASE k = Len(table) + 1
        BY <2>1, <2>2, <3>2, SeqGrows DEF WindowInv, Entries
      <3>3. k \in 1..Len(table) \/ k = Len(table) + 1
        BY <2>1, SeqGrows DEF WindowInv, Entries
      <3>. QED BY <3>1, <3>2, <3>3
    <2>3. \E S : table' \in Seq(S)
      BY <2>1, SeqGrows DEF WindowInv, Entries
    <2>. QED BY <2>2, <2>3 DEF Entries, EnoughBars, Windows
  <1>. QED BY <1>1, <1>2 DEF WindowInv

LEMMA WindowInit == Init => WindowInv
  <1>1. <<>> \in Seq({}) /\ Len(<<>>) = 0
    BY EmptySeq
  <1>. QED BY <1>1 DEF Init, WindowInv, Passed, Entries

LEMMA WindowStep == WindowInv /\ [Next]_vars => WindowInv'
  <1> SUFFICES ASSUME WindowInv, [Next]_vars PROVE WindowInv'
    OBVIOUS
  <1>1. CASE WalkForwardRaises
    BY <1>1, JudgedKeeps DEF WalkForwardRaises, ErrorEntry
  <1>2. CASE JudgeCandidate
    <2>1. EnoughBars /\ Len(oos) = Windows
      BY <1>2 DEF JudgeCandidate, WindowInv, Passed
    <2>. QED BY <1>2, <2>1, JudgedKeeps DEF JudgeCandidate
  <1>3. CASE RunWindow
    <2>1. PICK m : /\ EnoughBars /\ window' = window + 1 /\ table' = table
                   /\ oos' = Append(oos, m)
      BY <1>3 DEF RunWindow
    <2>2. (\E S : oos' \in Seq(S)) /\ Len(oos') = window'
      BY <2>1, SeqGrows DEF WindowInv, Passed
    <2>. QED BY <2>1, <2>2 DEF WindowInv, Passed, Entries, EnoughBars, Windows
  <1>4. CASE UNCHANGED <<window, oos, table>>
    BY <1>4 DEF WindowInv, Passed, Entries, EnoughBars, Windows
  <1>. QED
    BY <1>1, <1>2, <1>3, <1>4
    DEF Next, vars, search, CheckData, Collect, Judge, Take, Finish, WorkerDies, Done

(* Whatever the lengths of the data, of the windows and of the step, every *)
(* judged candidate has at least MinWindows whole test windows and all     *)
(* that fit.                                                               *)
THEOREM WindowsAlwaysWhole == Spec => []WindowsAreWhole
  <1>1. WindowInv => WindowsAreWhole
    <2> SUFFICES ASSUME WindowInv, NEW k \in DOMAIN table, ~table[k].error
                 PROVE  LET n == Len(table[k].tests)
                        IN /\ n >= MinWindows
                           /\ TestTo(n - 1) <= Bars /\ TestTo(n) > Bars
                           /\ \A w \in 1..n : TestFrom(w - 1) > TrainBars
      BY DEF WindowsAreWhole
    <2>1. k \in 1..Len(table)
      BY LenProperties DEF WindowInv, Entries
    <2>2. EnoughBars /\ Len(table[k].tests) = Windows
      BY <2>1 DEF WindowInv, Entries
    <2>. QED BY <2>2, WindowsFit
  <1>. QED BY <1>1, WindowInit, WindowStep, PTL DEF Spec

-----------------------------------------------------------------------------
(* The figures of a backtest are integers. *)

LEMMA TradesAreInts ==
  ASSUME NEW h \in Seq(Int), NEW first, NEW last
  PROVE  Trades(h, first, last) \in Seq(Int)
  BY KeptElements DEF Trades

LEMMA ExpectancyIsInt ==
  ASSUME NEW rs \in Seq(Int)
  PROVE  Expectancy(rs) \in Int /\ Len(rs) \in Nat
  <1>1. DOMAIN rs = 1..Len(rs) /\ Len(rs) \in Nat /\ \A i \in DOMAIN rs : rs[i] \in Int
    BY LenProperties, ElementOfSeq
  <1>2. IsFiniteSet(DOMAIN rs)
    BY <1>1, FS_Interval
  <1>3. ASSUME NEW S \in SUBSET DOMAIN rs PROVE SumFunctionOnSet(rs, S) \in Int
    <2>1. IsFiniteSet(S) /\ \A i \in S : rs[i] \in Int
      BY <1>1, <1>2, FS_Subset
    <2>. QED BY <2>1, SumIsInt
  <1> DEFINE wins   == SumFunctionOnSet(rs, {i \in DOMAIN rs : rs[i] > 0})
             losses == -SumFunctionOnSet(rs, {i \in DOMAIN rs : rs[i] < 0})
  <1>4. wins \in Int /\ losses \in Int
    <2>1. {i \in DOMAIN rs : rs[i] > 0} \in SUBSET DOMAIN rs
          /\ {i \in DOMAIN rs : rs[i] < 0} \in SUBSET DOMAIN rs
      OBVIOUS
    <2>. QED BY <1>3, <2>1
  <1>5. Expectancy(rs) = IF rs = <<>> THEN 0 ELSE ((wins - losses) * Scale) \div Len(rs)
    BY DEF Expectancy
  <1>. HIDE DEF wins, losses
  <1>6. rs # <<>> => Len(rs) > 0
    BY <1>1, EmptySeq
  <1>7. (wins - losses) * Scale \in Int
    BY <1>4
  <1>. QED BY <1>1, <1>5, <1>6, <1>7

LEMMA MetricsTyped ==
  ASSUME NEW h \in Seq(Int), NEW first, NEW last
  PROVE  LET m == Metrics(Trades(h, first, last)) IN m.expectancy \in Int /\ m.count \in Nat
  <1>1. Trades(h, first, last) \in Seq(Int)
    BY TradesAreInts
  <1>. QED BY <1>1, ExpectancyIsInt DEF Metrics

-----------------------------------------------------------------------------
(* The ratchet.  Known is what the sweep fixes before its first step.      *)

Known == market \in [DOMAIN Grid -> Histories] /\ options.baseline \in Baselines

Selected ==
    /\ rows = InGridOrder
    /\ HasBaseline(rows)
    /\ candidates = SelectTop(rows, Baseline(rows))

LEMMA GridRows ==
  Len(Grid) \in Nat /\ DOMAIN Grid = 1..Len(Grid) /\ IsFiniteSet(DOMAIN Grid)
  <1>1. Len(Grid) \in Nat /\ DOMAIN Grid = 1..Len(Grid)
    BY LenProperties
  <1>. QED BY <1>1, FS_Interval

LEMMA SoundMetrics ==
  ASSUME Known, NEW i \in Sound
  PROVE  /\ Row(i) = [combo |-> i, error |-> FALSE, metrics |-> MetricsOf(i)]
         /\ MetricsOf(i).expectancy \in Int /\ MetricsOf(i).count \in Nat
  <1>1. market[i] \in Seq(Int) /\ market[i] # Raises
    BY DEF Known, Sound
  <1>. QED BY <1>1, MetricsTyped DEF Row, MetricsOf

(* The row the script takes for its baseline is the promised one.          *)
LEMMA BaselineIsTrue ==
  ASSUME Known, rows = InGridOrder, HasBaseline(rows)
  PROVE  Baseline(rows) = TrueBaseline
  <1>1. CASE options.baseline.given
    BY <1>1 DEF Baseline, TrueBaseline
  <1>2. CASE ~options.baseline.given
    <2> DEFINE B == {i \in Sound : Grid[i] = Production}
    <2>1. DOMAIN rows = DOMAIN Grid /\ \A i \in DOMAIN Grid : rows[i] = Row(i)
      BY GridRows DEF InGridOrder
    <2>2. \A i \in DOMAIN Grid : Row(i).combo = i /\ (Row(i).error <=> market[i] = Raises)
      BY DEF Row
    <2>3. BaselineRows(rows) = B
      BY <2>1, <2>2 DEF BaselineRows, Sound
    <2>4. B # {} /\ B \subseteq DOMAIN Grid
      BY <1>2, <2>3 DEF HasBaseline, Sound
    <2>5. IsFiniteSet(B) /\ B \subseteq Int
      BY <2>4, GridRows, FS_Subset
    <2>6. Min(B) \in B
      BY <2>4, <2>5, MinIs
    <2>7. rows[Min(B)].metrics = MetricsOf(Min(B))
      BY <2>1, <2>4, <2>6, SoundMetrics
    <2>. QED BY <1>2, <2>3, <2>7 DEF Baseline, TrueBaseline
  <1>. QED BY <1>1, <1>2

(* What the ratchet accepts, and its order.                                *)
Rows == {Row(i) : i \in Judgeable}
Order == {p \in Rows \X Rows : Precedes(p[1], p[2])}

LEMMA RowsFinite == ASSUME Known PROVE IsFiniteSet(Rows) /\ Judgeable \subseteq Sound
  <1>1. Judgeable \subseteq Sound /\ Sound \subseteq DOMAIN Grid
    BY DEF Judgeable, Sound
  <1>2. IsFiniteSet(Judgeable)
    BY <1>1, GridRows, FS_Subset
  <1> DEFINE f == [i \in Judgeable |-> Row(i)]
  <1>3. IsFiniteSet({f[i] : i \in Judgeable})
    <2>1. DOMAIN f = Judgeable
      OBVIOUS
    <2>. HIDE DEF f
    <2>. QED BY <1>2, <2>1, ImageFinite
  <1>. QED BY <1>1, <1>3 DEF Rows

LEMMA RowTyped ==
  ASSUME Known, NEW r \in Rows
  PROVE  /\ r.combo \in Judgeable /\ r = Row(r.combo) /\ r.combo \in Int
         /\ r.metrics = MetricsOf(r.combo)
         /\ r.metrics.expectancy \in Int /\ r.metrics.count \in Int
  <1>1. PICK i \in Judgeable : r = Row(i)
    BY DEF Rows
  <1>2. i \in Sound /\ i \in Int
    BY GridRows DEF Judgeable, Sound
  <1>. QED BY <1>1, <1>2, SoundMetrics

LEMMA OrderIsStrict == ASSUME Known PROVE StrictOrder(Order, Rows)
  <1>0. \A r, s \in Rows : <<r, s>> \in Order <=> Precedes(r, s)
    BY DEF Order
  <1>1. ASSUME NEW r \in Rows PROVE ~Precedes(r, r)
    BY RowTyped DEF Precedes, Better
  <1>2. ASSUME NEW r \in Rows, NEW s \in Rows, NEW t \in Rows, Precedes(r, s), Precedes(s, t)
        PROVE  Precedes(r, t)
    <2> DEFINE er == r.metrics.expectancy
               es == s.metrics.expectancy
               et == t.metrics.expectancy
               cr == r.metrics.count
               cs == s.metrics.count
               ct == t.metrics.count
    <2>1. /\ er \in Int /\ es \in Int /\ et \in Int /\ cr \in Int /\ cs \in Int /\ ct \in Int
          /\ r.combo \in Int /\ s.combo \in Int /\ t.combo \in Int
      BY RowTyped
    <2>2. er > es \/ (er = es /\ cr > cs)
            \/ (~(es > er \/ (es = er /\ cs > cr)) /\ r.combo < s.combo)
      BY <1>2 DEF Precedes, Better
    <2>3. es > et \/ (es = et /\ cs > ct)
            \/ (~(et > es \/ (et = es /\ ct > cs)) /\ s.combo < t.combo)
      BY <1>2 DEF Precedes, Better
    <2>4. er > et \/ (er = et /\ cr > ct)
            \/ (~(et > er \/ (et = er /\ ct > cr)) /\ r.combo < t.combo)
      <3>. HIDE DEF er, es, et, cr, cs, ct
      <3>. QED BY <2>1, <2>2, <2>3
    <2>. QED BY <2>4 DEF Precedes, Better
  <1>3. ASSUME NEW r \in Rows, NEW s \in Rows
        PROVE  r = s \/ Precedes(r, s) \/ Precedes(s, r)
    <2>1. /\ r.metrics.expectancy \in Int /\ r.metrics.count \in Int /\ r.combo \in Int
          /\ s.metrics.expectancy \in Int /\ s.metrics.count \in Int /\ s.combo \in Int
      BY RowTyped
    <2>2. r.combo = s.combo => r = s
      BY RowTyped
    <2>. QED BY <2>1, <2>2 DEF Precedes, Better
  <1>. QED BY <1>0, <1>1, <1>2, <1>3 DEF StrictOrder

(* The candidates take the first places of that order.                     *)
Place(r) == RankIn(Order, Rows, r)

LEMMA CandidatesAre ==
  ASSUME Known, Selected
  PROVE  LET n == Min({Top, Cardinality(Rows)})
         IN /\ Cardinality(Rows) \in Nat /\ n \in Nat
            /\ n <= Top /\ n <= Cardinality(Rows) /\ (n < Top => n = Cardinality(Rows))
            /\ candidates \in [1..n -> Rows] /\ candidates \in Seq(Rows) /\ Len(candidates) = n
            /\ \A k \in 1..n : Place(candidates[k]) = k
  <1> DEFINE base == Baseline(rows)
             n == Min({Top, Cardinality(Rows)})
  <1>1. {r \in ToSet(rows) : Accepted(r, base)} = Rows
    <2>1. ToSet(rows) = {Row(i) : i \in DOMAIN Grid}
      BY GridRows DEF Selected, InGridOrder, ToSet
    <2>2. base = TrueBaseline
      BY BaselineIsTrue DEF Selected
    <2>3. ASSUME NEW i \in DOMAIN Grid
          PROVE  Accepted(Row(i), base) <=> i \in Judgeable
      <3>1. CASE i \in Sound
        <4>1. Accepted(Row(i), base) <=>
                Accepted([error |-> FALSE, metrics |-> MetricsOf(i)], TrueBaseline)
          BY <2>2, <3>1, SoundMetrics DEF Accepted
        <4>. QED BY <3>1, <4>1 DEF Judgeable
      <3>2. CASE i \notin Sound
        <4>1. Row(i).error
          BY <3>2 DEF Row, Sound
        <4>. QED BY <3>2, <4>1 DEF Accepted, Judgeable
      <3>. QED BY <3>1, <3>2
    <2>4. Judgeable \subseteq DOMAIN Grid
      BY DEF Judgeable, Sound
    <2>. QED BY <2>1, <2>3, <2>4 DEF Rows
  <1>2. \A r \in Rows : 1 + Cardinality({s \in Rows : Precedes(s, r)}) = Place(r)
    <2> SUFFICES ASSUME NEW r \in Rows
                 PROVE  {s \in Rows : Precedes(s, r)} = {s \in Rows : <<s, r>> \in Order}
      BY DEF Place, RankIn
    <2>. QED BY DEF Order
  <1>3. candidates = [k \in 1..n |-> CHOOSE r \in Rows :
                                        1 + Cardinality({s \in Rows : Precedes(s, r)}) = k]
    <2> DEFINE passed == {r \in ToSet(rows) : Accepted(r, base)}
    <2>1. candidates = [k \in 1..Min({Top, Cardinality(passed)}) |->
                          CHOOSE r \in passed :
                             1 + Cardinality({s \in passed : Precedes(s, r)}) = k]
      BY DEF Selected, SelectTop
    <2>2. passed = Rows
      BY <1>1
    <2>. HIDE DEF passed
    <2>. QED BY <2>1, <2>2
  <1>4. Cardinality(Rows) \in Nat
    BY RowsFinite, FS_CardinalityType
  <1>5. n = IF Top <= Cardinality(Rows) THEN Top ELSE Cardinality(Rows)
    BY <1>4, MinOfTwo
  <1>. HIDE DEF n
  <1>6. n \in Nat /\ n <= Top /\ n <= Cardinality(Rows) /\ (n < Top => n = Cardinality(Rows))
    BY <1>4, <1>5
  <1>7. ASSUME NEW k \in 1..n PROVE candidates[k] \in Rows /\ Place(candidates[k]) = k
    <2>1. k \in 1..Cardinality(Rows)
      BY <1>4, <1>6
    <2>2. \E r \in Rows : Place(r) = k
      BY <2>1, RowsFinite, OrderIsStrict, Ranks DEF Place
    <2>3. \E r \in Rows : 1 + Cardinality({s \in Rows : Precedes(s, r)}) = k
      BY <1>2, <2>2
    <2>4. /\ candidates[k] \in Rows
          /\ 1 + Cardinality({s \in Rows : Precedes(s, candidates[k])}) = k
      BY <1>3, <2>3
    <2>. QED BY <1>2, <2>4
  <1>8. candidates \in [1..n -> Rows]
    BY <1>3, <1>7
  <1>9. candidates \in Seq(Rows) /\ Len(candidates) = n
    BY <1>6, <1>8, SeqDef, LenProperties
  <1>. QED BY <1>4, <1>6, <1>7, <1>8, <1>9 DEF n

-----------------------------------------------------------------------------
(* The walk-forward of the candidates.                                     *)

(* The tests are those of the combination's own windows, in their order.   *)
OwnWindows(tests, combo) ==
    \A w \in 1..Len(tests) :
        tests[w] = Metrics(Trades(market[combo], TestFrom(w - 1), TestTo(w - 1)))

(* Where the script stands: what it has judged it has selected before.     *)
Progress ==
    /\ phase \in {"data", "sweep", "judge", "validate", "exit"}
    /\ phase # "exit" => code = None
    /\ phase = "judge" => rows = InGridOrder
    /\ phase \in {"data", "sweep", "judge"} => table = <<>> /\ oos = <<>>
    /\ phase = "validate" => Selected /\ Len(table) < Len(candidates)
                                      /\ OwnWindows(oos, current.combo)
    /\ table # <<>> => Selected /\ Len(table) <= Len(candidates)
    /\ code = 0 /\ table # <<>> => Len(table) = Len(candidates)

(* An entry is about its candidate.                                        *)
EntryIsEarned(entry, candidate) ==
    /\ entry.combo = candidate.combo
    /\ ~entry.error => /\ \E S : entry.tests \in Seq(S)
                       /\ OwnWindows(entry.tests, entry.combo)
                       /\ entry.overfit = Overfit(candidate.metrics.expectancy, entry.tests)

Earned == \A k \in 1..Len(table) : EntryIsEarned(table[k], candidates[k])

SearchInv == Known /\ WindowInv /\ Progress /\ Earned

LEMMA SearchInit == Init => SearchInv
  <1> SUFFICES ASSUME Init PROVE SearchInv
    OBVIOUS
  <1>1. Known
    BY DEF Init, Known
  <1>2. Progress /\ Earned
    <2>1. Len(<<>>) = 0
      BY EmptySeq
    <2>. QED BY <2>1 DEF Init, Progress, Earned, None
  <1>. QED BY <1>1, <1>2, WindowInit DEF SearchInv

(* Steps of the sweep, and the ratchet.                                    *)
LEMMA SearchSame ==
  ASSUME SearchInv, UNCHANGED <<market, options, phase, search, code>>
  PROVE  Known' /\ Progress' /\ Earned'
  <1>1. Known'
    BY DEF SearchInv, Known
  <1>2. Selected' <=> Selected
    BY DEF Selected, search, InGridOrder, Row, HasBaseline, Baseline, BaselineRows, SelectTop
  <1>3. InGridOrder' = InGridOrder
    BY DEF InGridOrder, Row
  <1>4. \A tests, combo : OwnWindows(tests, combo)' <=> OwnWindows(tests, combo)
    BY DEF OwnWindows
  <1>. QED BY <1>1, <1>2, <1>3, <1>4
           DEF SearchInv, Progress, Earned, EntryIsEarned, search, current, OwnWindows

(* A step that leaves the search alone keeps what was selected.            *)
LEMMA SelectedSame ==
  ASSUME UNCHANGED <<market, options, rows, candidates>>
  PROVE  /\ Selected' <=> Selected
         /\ \A tests, combo : OwnWindows(tests, combo)' <=> OwnWindows(tests, combo)
  BY DEF Selected, InGridOrder, Row, HasBaseline, Baseline, BaselineRows, SelectTop, OwnWindows

(* Whatever was accepted, the candidates are a sequence.                   *)
LEMMA TopIsSeq ==
  ASSUME NEW rs, IsFiniteSet(ToSet(rs)), NEW base
  PROVE  \E S : SelectTop(rs, base) \in Seq(S)
  <1> DEFINE passed == {r \in ToSet(rs) : Accepted(r, base)}
             n      == Min({Top, Cardinality(passed)})
             pick(k) == CHOOSE r \in passed :
                           1 + Cardinality({s \in passed : Precedes(s, r)}) = k
  <1>1. SelectTop(rs, base) = [k \in 1..n |-> pick(k)]
    BY DEF SelectTop
  <1>2. passed \in SUBSET ToSet(rs)
    OBVIOUS
  <1>. HIDE DEF passed
  <1>3. Cardinality(passed) \in Nat
    BY <1>2, FS_Subset, FS_CardinalityType
  <1>4. n \in Nat
    BY <1>3, MinOfTwo
  <1>. HIDE DEF n, pick
  <1> DEFINE S == {pick(k) : k \in 1..n}
  <1>5. [k \in 1..n |-> pick(k)] \in [1..n -> S]
    OBVIOUS
  <1>. HIDE DEF S
  <1>6. SelectTop(rs, base) \in Seq(S)
    BY <1>1, <1>4, <1>5, SeqDef
  <1>. QED BY <1>6

(* Outside the validation nothing has been judged yet.                     *)
LEMMA SearchBefore ==
  ASSUME SearchInv, CheckData \/ Collect \/ Judge
  PROVE  Known' /\ Progress' /\ Earned'
  <1>1. /\ table = <<>> /\ oos = <<>> /\ code = None
        /\ UNCHANGED <<market, options, window, oos, table>>
    BY DEF SearchInv, Progress, CheckData, Collect, Judge, search
  <1>2. Known'
    BY <1>1 DEF SearchInv, Known
  <1>3. Earned'
    <2>1. Len(table') = 0
      BY <1>1, EmptySeq
    <2>. QED BY <2>1 DEF Earned
  <1>4. Len(table') = 0 /\ Len(oos') = 0
    BY <1>1, EmptySeq
  <1>5. CASE CheckData
    BY <1>1, <1>2, <1>3, <1>5 DEF CheckData, Exit, Progress, None
  <1>6. CASE Collect
    <2>1. InGridOrder' = InGridOrder
      BY <1>1 DEF InGridOrder, Row
    <2>2. \/ phase' = "judge" /\ rows' = InGridOrder /\ code' = code
          \/ phase' = "exit"
      BY <1>6 DEF Collect, Exit
    <2>. QED BY <1>1, <1>2, <1>3, <2>1, <2>2 DEF Progress
  <1>7. CASE Judge
    <2>1. rows' = rows /\ rows = InGridOrder /\ InGridOrder' = InGridOrder
      BY <1>1, <1>7 DEF Judge, SearchInv, Progress, InGridOrder, Row
    <2>2. CASE phase' = "exit"
      BY <1>1, <1>2, <1>3, <2>2 DEF Progress
    <2>3. CASE phase' # "exit"
      <3>1. /\ phase' = "validate" /\ code' = code /\ HasBaseline(rows)
            /\ candidates' = SelectTop(rows, Baseline(rows)) /\ candidates' # <<>>
        BY <1>7, <2>3 DEF Judge, Exit
      <3>2. Selected'
        <4>1. HasBaseline(rows)' <=> HasBaseline(rows)
          BY <1>1, <2>1 DEF HasBaseline, BaselineRows
        <4>2. Baseline(rows)' = Baseline(rows)
          BY <1>1, <2>1 DEF Baseline, BaselineRows
        <4>3. SelectTop(rows, Baseline(rows))' = SelectTop(rows, Baseline(rows))
          BY <2>1, <4>2 DEF SelectTop
        <4>. QED BY <2>1, <3>1, <4>1, <4>3 DEF Selected
      <3>3. Len(candidates') > 0
        <4>1. ToSet(rows) = {rows[i] : i \in DOMAIN Grid} /\ DOMAIN rows = DOMAIN Grid
          BY <2>1, GridRows DEF InGridOrder, ToSet
        <4>2. IsFiniteSet(ToSet(rows))
          BY <4>1, GridRows, ImageFinite
        <4>3. PICK S : candidates' \in Seq(S)
          BY <3>1, <4>2, TopIsSeq
        <4>. QED BY <3>1, <4>3, EmptySeq, LenProperties
      <3>4. OwnWindows(oos, current.combo)'
        BY <1>4 DEF OwnWindows
      <3>. QED BY <1>1, <1>2, <1>3, <1>4, <3>1, <3>2, <3>3, <3>4 DEF Progress
    <2>. QED BY <2>2, <2>3
  <1>. QED BY <1>2, <1>3, <1>5, <1>6, <1>7

(* An entry is put at the end of the table, and the next one starts anew.  *)
LEMMA SearchJudged ==
  ASSUME SearchInv, phase = "validate", NEW entry, Judged(entry),
         EntryIsEarned(entry, current),
         UNCHANGED <<market, options, pool, rows, candidates>>
  PROVE  Known' /\ Progress' /\ Earned'
  <1>1. Known'
    BY DEF SearchInv, Known
  <1>2. /\ Selected' <=> Selected
        /\ \A tests, combo : OwnWindows(tests, combo)' <=> OwnWindows(tests, combo)
    BY SelectedSame
  <1>3. /\ Selected /\ Len(table) < Len(candidates) /\ code = None
        /\ \E S : table \in Seq(S)
    BY DEF SearchInv, Progress, WindowInv, Entries
  <1>4. /\ table' = Append(table, entry) /\ oos' = <<>> /\ Len(oos') = 0
        /\ Len(table) \in Nat /\ Len(table') = Len(table) + 1
        /\ \A k \in 1..Len(table) : table'[k] = table[k]
        /\ table'[Len(table) + 1] = entry
    BY <1>3, SeqGrows, EmptySeq DEF Judged
  <1>5. Len(candidates) \in Nat /\ candidates' = candidates
    <2>1. PICK S : candidates \in Seq(S)
      BY <1>3, CandidatesAre DEF SearchInv
    <2>. QED BY <2>1, LenProperties
  <1>6. Progress'
    <2>1. CASE Len(table') = Len(candidates)
      <3>1. phase' = "exit" /\ code' = 0
        BY <2>1 DEF Judged, Exit
      <3>. QED BY <1>2, <1>3, <1>4, <1>5, <2>1, <3>1 DEF Progress
    <2>2. CASE Len(table') # Len(candidates)
      <3>1. phase' = "validate" /\ code' = None
        BY <1>3, <2>2 DEF Judged
      <3>2. OwnWindows(oos, current.combo)'
        BY <1>4 DEF OwnWindows
      <3>. QED BY <1>2, <1>3, <1>4, <1>5, <2>2, <3>1, <3>2 DEF Progress, None
    <2>. QED BY <2>1, <2>2
  <1>7. Earned'
    <2> SUFFICES ASSUME NEW k \in 1..Len(table) + 1
                 PROVE  EntryIsEarned(table[k], candidates[k])'
      BY <1>4 DEF Earned
    <2>1. EntryIsEarned(table'[k], candidates[k]) => EntryIsEarned(table[k], candidates[k])'
      BY <1>5 DEF EntryIsEarned, OwnWindows, Overfit
    <2>2. CASE k \in 1..Len(table)
      BY <1>4, <2>1, <2>2 DEF SearchInv, Earned
    <2>3. CASE k = Len(table) + 1
      BY <1>4, <2>1, <2>3 DEF current
    <2>. QED BY <1>4, <2>2, <2>3
  <1>. QED BY <1>1, <1>6, <1>7

(* A window adds the test of its own bars.                                 *)
LEMMA SearchWindow ==
  ASSUME SearchInv, RunWindow
  PROVE  Known' /\ Progress' /\ Earned'
  <1>1. /\ phase = "validate" /\ UNCHANGED <<market, options, phase, rows, candidates, table, code>>
        /\ oos' = Append(oos, Metrics(Trades(market[current.combo],
                                             TestFrom(window), TestTo(window))))
    BY DEF RunWindow
  <1>2. Known'
    BY <1>1 DEF SearchInv, Known
  <1>3. /\ Selected' <=> Selected
        /\ \A tests, combo : OwnWindows(tests, combo)' <=> OwnWindows(tests, combo)
    BY <1>1, SelectedSame
  <1>4. (\E S : oos \in Seq(S)) /\ Len(oos) = window
    BY DEF SearchInv, WindowInv, Passed
  <1>5. OwnWindows(oos', current.combo)
    <2> SUFFICES ASSUME NEW w \in 1..Len(oos')
                 PROVE  oos'[w] = Metrics(Trades(market[current.combo],
                                                 TestFrom(w - 1), TestTo(w - 1)))
      BY DEF OwnWindows
    <2>1. /\ window \in Nat /\ Len(oos') = window + 1
          /\ \A v \in 1..window : oos'[v] = oos[v]
          /\ oos'[window + 1] = Metrics(Trades(market[current.combo],
                                               TestFrom(window), TestTo(window)))
      BY <1>1, <1>4, SeqGrows
    <2>2. CASE w \in 1..window
      BY <1>1, <1>4, <2>1, <2>2 DEF SearchInv, Progress, OwnWindows
    <2>3. CASE w = window + 1
      <3>1. w - 1 = window
        BY <2>1, <2>3
      <3>. QED BY <2>1, <2>3, <3>1
    <2>. QED BY <2>1, <2>2, <2>3
  <1>6. current' = current
    BY <1>1 DEF current
  <1>7. Progress'
    BY <1>1, <1>3, <1>5, <1>6 DEF SearchInv, Progress
  <1>8. Earned'
    BY <1>1, <1>3 DEF SearchInv, Earned, EntryIsEarned, Overfit
  <1>. QED BY <1>2, <1>7, <1>8

LEMMA SearchStep == SearchInv /\ [Next]_vars => SearchInv'
  <1> SUFFICES ASSUME SearchInv, [Next]_vars PROVE SearchInv'
    OBVIOUS
  <1>0. WindowInv'
    BY WindowStep DEF SearchInv
  <1>1. CASE CheckData \/ Collect \/ Judge
    BY <1>0, <1>1, SearchBefore DEF SearchInv
  <1>2. CASE WalkForwardRaises
    <2>1. EntryIsEarned(ErrorEntry, current)
      BY DEF EntryIsEarned, ErrorEntry
    <2>. QED BY <1>0, <1>2, <2>1, SearchJudged DEF WalkForwardRaises, SearchInv
  <1>3. CASE RunWindow
    BY <1>0, <1>3, SearchWindow DEF SearchInv
  <1>4. CASE JudgeCandidate
    <2> DEFINE entry == [combo |-> current.combo, error |-> FALSE,
                         overfit |-> Overfit(current.metrics.expectancy, oos), tests |-> oos]
    <2>1. phase = "validate" /\ Judged(entry)
          /\ UNCHANGED <<market, options, pool, rows, candidates>>
      BY <1>4 DEF JudgeCandidate
    <2>2. EntryIsEarned(entry, current)
      BY <2>1 DEF EntryIsEarned, SearchInv, Progress, WindowInv, Passed
    <2>. HIDE DEF entry
    <2>. QED BY <1>0, <2>1, <2>2, SearchJudged DEF SearchInv
  <1>5. CASE UNCHANGED <<market, options, phase, search, code>>
    BY <1>0, <1>5, SearchSame DEF SearchInv
  <1>. QED
    BY <1>1, <1>2, <1>3, <1>4, <1>5 DEF Next, vars, search, Take, Finish, WorkerDies, Done

LEMMA SearchHolds == Spec => []SearchInv
  BY SearchInit, SearchStep, PTL DEF Spec

(* A candidate is a row of a backtest that worked.                         *)
LEMMA CandidateTyped ==
  ASSUME SearchInv, NEW k \in 1..Len(table)
  PROVE  LET c == candidates[k]
         IN /\ Selected /\ k \in 1..Len(candidates) /\ c \in Rows
            /\ c.combo \in Judgeable /\ c.metrics = MetricsOf(c.combo)
            /\ market[c.combo] \in Seq(Int)
  <1>1. Len(table) \in Nat /\ table # <<>>
    <2>1. PICK S : table \in Seq(S)
      BY DEF SearchInv, WindowInv, Entries
    <2>. QED BY <2>1, EmptySeq, LenProperties
  <1>2. Selected /\ Len(table) <= Len(candidates)
    BY <1>1 DEF SearchInv, Progress
  <1>3. Len(candidates) \in Nat /\ candidates \in [1..Len(candidates) -> Rows]
    BY <1>2, CandidatesAre DEF SearchInv
  <1>4. k \in 1..Len(candidates) /\ candidates[k] \in Rows
    BY <1>1, <1>2, <1>3
  <1>5. candidates[k].combo \in Judgeable /\ candidates[k].metrics = MetricsOf(candidates[k].combo)
    BY <1>4, RowTyped DEF SearchInv
  <1>6. market[candidates[k].combo] \in Seq(Int)
    BY <1>5 DEF SearchInv, Known, Judgeable, Sound
  <1>. QED BY <1>2, <1>4, <1>5, <1>6

(* Whatever the grid, the histories and the lengths of the windows, a      *)
(* candidate is judged on the tests of its own windows, and for one that   *)
(* did not lose in sample an overfit flag, with a ratio of at most 1, means*)
(* a lower mean there.                                                     *)
THEOREM FlagAlwaysEarned ==
  ASSUME OverfitRatio <= 100
  PROVE  Spec => []FlagIsEarned
  <1>1. SearchInv => FlagIsEarned
    <2> SUFFICES ASSUME SearchInv, NEW k \in DOMAIN table, ~table[k].error
                 PROVE  LET combo == table[k].combo
                            n     == Len(table[k].tests)
                            in    == MetricsOf(combo).expectancy
                            sum   == SumOf([w \in 1..n |-> table[k].tests[w].expectancy])
                        IN /\ \A w \in 1..n :
                                table[k].tests[w] = Metrics(Trades(market[combo],
                                                       TestFrom(w - 1), TestTo(w - 1)))
                           /\ (table[k].overfit /\ in >= 0) => sum < in * n
      BY DEF FlagIsEarned
    <2> DEFINE tests == table[k].tests
               combo == table[k].combo
               n     == Len(tests)
               in    == MetricsOf(combo).expectancy
               each  == [w \in 1..n |-> tests[w].expectancy]
    <2>1. k \in 1..Len(table)
      BY LenProperties DEF SearchInv, WindowInv, Entries
    <2>2. EntryIsEarned(table[k], candidates[k])
      BY <2>1 DEF SearchInv, Earned
    <2>3. /\ OwnWindows(tests, combo) /\ combo = candidates[k].combo
          /\ table[k].overfit = Overfit(in, tests)
          /\ market[combo] \in Seq(Int) /\ combo \in Sound
      BY <2>1, <2>2, CandidateTyped DEF EntryIsEarned, Judgeable
    <2>4. n \in Nat /\ DOMAIN tests = 1..n
      BY <2>2, LenProperties DEF EntryIsEarned
    <2>5. SumOf(each) \in Int
      <3>1. \A w \in 1..n : each[w] \in Int
        BY <2>3, MetricsTyped DEF OwnWindows
      <3>2. IsFiniteSet(1..n) /\ DOMAIN each = 1..n
        BY <2>4, FS_Interval
      <3>. HIDE DEF each, n
      <3>. QED BY <3>1, <3>2, SumIsInt DEF SumOf, SumFunction
    <2>6. in \in Int
      BY <2>3, SoundMetrics DEF SearchInv
    <2>7. ASSUME table[k].overfit, in >= 0
          PROVE  SumOf(each) < in * n
      <3>1. 100 * SumOf(each) < OverfitRatio * in * n
        BY <2>3, <2>4, <2>7 DEF Overfit
      <3> DEFINE sum == SumOf(each)
                 p   == in * n
      <3>. HIDE DEF n, in, each, sum
      <3>2. p \in Nat /\ OverfitRatio * in * n = OverfitRatio * p
        BY <2>4, <2>6, <2>7
      <3>. HIDE DEF p
      <3>3. OverfitRatio * p <= 100 * p
        BY <3>2
      <3>4. sum \in Int /\ 100 * sum < OverfitRatio * p /\ OverfitRatio * p \in Int
        BY <2>5, <3>1, <3>2 DEF sum
      <3>5. sum < p
        BY <3>2, <3>3, <3>4
      <3>. QED BY <3>5 DEF sum, p
    <2>. QED BY <2>3, <2>7 DEF OwnWindows
  <1>. QED BY <1>1, SearchHolds, PTL

(* A table the script ends with lists the first Top of the accepted rows   *)
(* in the order of the ratchet.                                            *)
LEMMA TableLists ==
  ASSUME SearchInv, code = 0, table # <<>>
  PROVE  /\ DOMAIN table = 1..Len(candidates) /\ Len(table) = Len(candidates)
         /\ \A k \in DOMAIN table : table[k].combo = candidates[k].combo
  <1>1. Len(table) = Len(candidates)
    BY DEF SearchInv, Progress
  <1>2. DOMAIN table = 1..Len(table)
    BY LenProperties DEF SearchInv, WindowInv, Entries
  <1>. QED BY <1>1, <1>2 DEF SearchInv, Earned, EntryIsEarned

(* Whatever the grid, the number of workers and the order in which they    *)
(* finish or die, the script ends only with a table of combinations that   *)
(* beat a real baseline, each once, at most Top, best first, and of the    *)
(* accepted ones no better one is missing.                                 *)
THEOREM CandidatesAlwaysEarned == Spec => []CandidatesEarned
  <1>1. SearchInv => CandidatesEarned
    <2> SUFFICES ASSUME SearchInv, code = 0, table # <<>>
                 PROVE  CandidatesEarned
      BY DEF CandidatesEarned
    <2> DEFINE listed == {table[k].combo : k \in DOMAIN table}
               AsGood(i, j) == ~Better([metrics |-> MetricsOf(j)], [metrics |-> MetricsOf(i)])
               n == Len(candidates)
               c == candidates
    <2>1. /\ DOMAIN table = 1..n /\ Len(table) = n
          /\ \A k \in 1..n : table[k].combo = c[k].combo
      BY TableLists
    <2>2. Known /\ Selected
      BY DEF SearchInv, Progress
    <2>3. /\ n = Min({Top, Cardinality(Rows)}) /\ Cardinality(Rows) \in Nat /\ n \in Nat
          /\ n <= Top /\ n <= Cardinality(Rows) /\ (n < Top => n = Cardinality(Rows))
          /\ \A k \in 1..n : c[k] \in Rows /\ Place(c[k]) = k
      BY <2>2, CandidatesAre
    <2>. HIDE DEF n, c
    <2>4. \A r \in Rows : /\ r.combo \in Judgeable /\ r = Row(r.combo)
                          /\ r.metrics = MetricsOf(r.combo)
      BY <2>2, RowTyped
    <2>5. \A i \in Judgeable : Row(i) \in Rows /\ Row(i).combo = i
      BY DEF Rows, Row
    <2>6. \A r \in Rows : Place(r) \in 1..Cardinality(Rows)
      BY <2>2, RowsFinite, OrderIsStrict, Ranks DEF Place
    <2>7. \A r, s \in Rows : Precedes(r, s) => Place(r) < Place(s)
      <3>1. \A r, s \in Rows : Precedes(r, s) => <<r, s>> \in Order
        BY DEF Order
      <3>. QED BY <2>2, <3>1, RowsFinite, OrderIsStrict, Ranks DEF Place
    <2>8. \A r, s \in Rows : Place(r) = Place(s) => r = s
      <3> SUFFICES ASSUME NEW r \in Rows, NEW s \in Rows, Place(r) = Place(s), r # s
                   PROVE  FALSE
        OBVIOUS
      <3>1. Precedes(r, s) \/ Precedes(s, r)
        BY <2>2, OrderIsStrict DEF StrictOrder, Order
      <3>. QED BY <2>3, <2>6, <2>7, <3>1
    <2>9. listed \subseteq Judgeable
      <3> SUFFICES ASSUME NEW k \in DOMAIN table PROVE table[k].combo \in Judgeable
        OBVIOUS
      <3>1. k \in 1..n /\ c[k] \in Rows /\ table[k].combo = c[k].combo
        BY <2>1, <2>3
      <3>. QED BY <2>4, <3>1
    <2>10. Cardinality(listed) = Len(table) /\ Len(table) <= Top
      <3> DEFINE f == [k \in 1..n |-> c[k].combo]
      <3>1. f \in Surjection(1..n, listed)
        BY <2>1 DEF Surjection
      <3>2. ASSUME NEW k \in 1..n, NEW m \in 1..n, f[k] = f[m]
            PROVE  k = m
        <4>1. c[k] = c[m]
          BY <2>3, <2>4, <3>2
        <4>. QED BY <2>3, <4>1
      <3>. HIDE DEF f, listed
      <3>3. f \in Injection(1..n, listed)
        BY <3>1, <3>2 DEF Injection, IsInjective, Surjection
      <3>4. IsFiniteSet(1..n) /\ Cardinality(1..n) = n
        BY <2>3, FS_Interval
      <3>. QED BY <2>1, <2>3, <3>1, <3>3, <3>4, FS_Surjection
    <2>11. ASSUME Len(table) < Top
           PROVE  listed = Judgeable
      <3> SUFFICES ASSUME NEW i \in Judgeable PROVE i \in listed
        BY <2>9
      <3>1. Row(i) \in Rows /\ Row(i).combo = i /\ Place(Row(i)) \in 1..n
        BY <2>1, <2>3, <2>5, <2>6, <2>11
      <3>2. c[Place(Row(i))] = Row(i)
        BY <2>3, <2>8, <3>1
      <3>. QED BY <2>1, <3>1, <3>2
    <2>12. ASSUME NEW i \in listed, NEW j \in Judgeable \ listed
           PROVE  AsGood(i, j)
      <3>1. PICK k \in 1..n : i = c[k].combo
        BY <2>1
      <3>2. /\ Row(j) \in Rows /\ Row(j).combo = j /\ Place(Row(j)) \in 1..Cardinality(Rows)
            /\ Row(j).metrics = MetricsOf(j) /\ c[k].metrics = MetricsOf(i)
        BY <2>3, <2>4, <2>5, <2>6, <3>1
      <3>3. Place(Row(j)) > n
        <4> DEFINE p == Place(Row(j))
                   row == Row(j)
        <4>. SUFFICES ASSUME p \in 1..n PROVE FALSE
          BY <2>3, <3>2
        <4>1. c[p] \in Rows /\ Place(c[p]) = p /\ row \in Rows /\ Place(row) = p
          BY <2>3, <3>2
        <4>2. c[p] = row
          <5>. HIDE DEF row, p
          <5>. QED BY <2>8, <4>1
        <4>3. table[p].combo = j /\ p \in DOMAIN table
          BY <2>1, <3>2, <4>2
        <4>. QED BY <2>12, <4>3
      <3>4. ~Precedes(Row(j), c[k])
        <4>0. k \in 1..n /\ n \in Nat
          BY <2>3, <3>1
        <4>1. c[k] \in Rows /\ Place(c[k]) = k /\ k <= n /\ k \in Int
          <5>1. k <= n /\ k \in Int
            BY <4>0
          <5>2. c[k] \in Rows /\ Place(c[k]) = k
            BY <2>3, <4>0
          <5>. QED BY <5>1, <5>2
        <4>2. Precedes(Row(j), c[k]) => Place(Row(j)) < k
          BY <2>7, <3>2, <4>1
        <4>. QED BY <2>3, <3>2, <3>3, <4>1, <4>2
      <3>. QED BY <3>2, <3>4 DEF Precedes, Better
    <2>13. ASSUME NEW k \in DOMAIN table, NEW m \in DOMAIN table, k < m
           PROVE  AsGood(table[k].combo, table[m].combo)
      <3>1. /\ c[k] \in Rows /\ c[m] \in Rows /\ Place(c[k]) = k /\ Place(c[m]) = m
            /\ c[k].metrics = MetricsOf(table[k].combo)
            /\ c[m].metrics = MetricsOf(table[m].combo)
        BY <2>1, <2>3, <2>4
      <3>2. ~Precedes(c[m], c[k])
        BY <2>1, <2>3, <2>7, <2>13, <3>1
      <3>. QED BY <3>1, <3>2 DEF Precedes, Better
    <2>. HIDE DEF listed, AsGood
    <2>14. /\ listed \subseteq Judgeable
           /\ Cardinality(listed) = Len(table) /\ Len(table) <= Top
           /\ Len(table) < Top => listed = Judgeable
           /\ \A i \in listed, j \in Judgeable \ listed : AsGood(i, j)
           /\ \A k, m \in DOMAIN table : k < m => AsGood(table[k].combo, table[m].combo)
      BY <2>9, <2>10, <2>11, <2>12, <2>13
    <2>. QED BY <2>14 DEF CandidatesEarned, listed, AsGood
  <1>. QED BY <1>1, SearchHolds, PTL
=============================================================================
