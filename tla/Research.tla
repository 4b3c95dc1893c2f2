------------------------------ MODULE Research ------------------------------
(***************************************************************************)
(* The parameter search, scripts/calibration_sweep.py: a backtest of every *)
(* combination of the grid in a pool of worker processes, the ratchet that *)
(* picks candidates against a baseline, and the walk-forward validation of *)
(* the candidates (backtest/walk_forward.py) with its overfit flag.        *)
(*                                                                         *)
(* A backtest is the harness of module Harness: here it is known by the    *)
(* R multiples of the trades it closes, one bar each, and by metrics.py's  *)
(* figures over them, fractions written as numerator and denominator.      *)
(***************************************************************************)
EXTENDS Tables, SequencesExt

CONSTANTS
    Grid,           \* the combinations, each with its sl_min_atr_multiple
    Workers,        \* worker processes; one is the serial path
    Histories,      \* what a combination's backtest may be
    Bars,           \* M15 bars of the data set
    TrainBars, TestBars, StepBars,
    MinWindows,     \* _MIN_WINDOWS
    Top,            \* n of select_top_candidates
    Production,     \* the sl_min_atr_multiple whose row is the baseline
    Baselines,      \* the three --baseline-* values, or NoBaseline
    DdTolerance,    \* max_dd_tolerance, in percent
    OverfitRatio,   \* overfit_ratio, in percent
    Equity,         \* initial_equity, in units of the risk of a trade
    Scale           \* a common multiple of all trade counts

(* The history of a combination whose backtest ends with an exception.     *)
Raises == <<"raises">>

ASSUME ResearchAssumption ==
    /\ TrainBars \in Nat \ {0} /\ TestBars \in Nat \ {0} /\ StepBars \in Nat \ {0}
    /\ Bars \in Nat /\ MinWindows \in Nat /\ Top \in Nat \ {0}
    /\ OverfitRatio \in Nat /\ Equity \in Nat /\ Scale \in Nat \ {0}
    /\ Grid \in Seq(ToSet(Grid))
    /\ IsFiniteSet(Workers)
    /\ \A h \in Histories : h = Raises \/ h \in Seq(Int)
    /\ \A b \in Baselines : b.given \in BOOLEAN

VARIABLES
    market,     \* the history of every combination
    options,    \* [walkForward, baseline], from the command line
    phase,
    next,       \* first combination no worker has taken
    running,    \* what every worker works on, None when idle
    completed,  \* combinations whose future has its result, in that order
    broken,     \* a worker died: the pool fails every future that is left
    rows,       \* what run_sweep returned
    candidates, \* what the ratchet accepted, best first
    window,     \* next walk-forward window of the first one not yet judged
    oos,        \* test metrics of its windows so far
    table,      \* wf_results
    code        \* exit code of the script, None while it runs

vars == <<market, options, phase, next, running, completed, broken, rows, candidates,
          window, oos, table, code>>

None == -1
NoBaseline == [given |-> FALSE]
NoMetrics  == [none |-> TRUE]

-----------------------------------------------------------------------------
(* backtest/metrics.py *)

(* The trades of a run over the bars from first to last, cut at the end.   *)
Trades(history, first, last) ==
    Kept(history, {i \in (first..last) \cap DOMAIN history : history[i] # 0})

SumOf(rs) == SumFunction(rs)

(* win% x average win - loss% x average loss, times Scale.                 *)
Expectancy(rs) ==
    LET wins   == SumFunctionOnSet(rs, {i \in DOMAIN rs : rs[i] > 0})
        losses == -SumFunctionOnSet(rs, {i \in DOMAIN rs : rs[i] < 0})
    IN IF rs = <<>> THEN 0 ELSE ((wins - losses) * Scale) \div Len(rs)

Curve(rs) == [i \in 1..Len(rs) + 1 |-> Equity + SumFunctionOnSet(rs, 1..i - 1)]

(* _max_drawdown: the deepest fall from a running peak; 1 when ruined.     *)
MaxDrawdown(curve) ==
    LET Fall(i) == [num |-> Max({curve[j] : j \in 1..i}) - curve[i],
                    den |-> Max({curve[j] : j \in 1..i})]
        Deeper(a, b) == a.num * b.den >= b.num * a.den
    IN IF \E i \in DOMAIN curve : curve[i] <= 0 THEN [num |-> 1, den |-> 1]
       ELSE LET falls == {Fall(i) : i \in DOMAIN curve}
            IN CHOOSE f \in falls : \A g \in falls : Deeper(f, g)

Metrics(rs) == [expectancy |-> Expectancy(rs), count |-> Len(rs),
                drawdown |-> MaxDrawdown(Curve(rs))]

-----------------------------------------------------------------------------
(* run_sweep *)

(* _run_one_combo: an exception becomes an error row.                      *)
Row(i) ==
    [combo |-> i, error |-> market[i] = Raises,
     metrics |-> IF market[i] = Raises THEN NoMetrics ELSE Metrics(Trades(market[i], 1, Bars))]

(* Mutant: rows as the futures complete.                                   *)
AsCompleted == [k \in 1..Len(completed) |-> Row(completed[k])]

(* Futures are read in the order of submission, each to its index.         *)
InGridOrder == [i \in 1..Len(Grid) |-> Row(i)]

(* select_top_candidates' ratchet *)
Accepted(row, base) ==
    /\ ~row.error
    /\ row.metrics.expectancy >= base.expectancy
    /\ row.metrics.count > base.count
    /\ 100 * row.metrics.drawdown.num * base.drawdown.den
         <= DdTolerance * base.drawdown.num * row.metrics.drawdown.den

Better(r, s) ==
    \/ r.metrics.expectancy > s.metrics.expectancy
    \/ r.metrics.expectancy = s.metrics.expectancy /\ r.metrics.count > s.metrics.count

(* The order of the stable sort: among equals the earlier row.             *)
Precedes(r, s) == Better(r, s) \/ (~Better(s, r) /\ r.combo < s.combo)

(* The accepted rows, best first, cut after Top.                           *)
SelectTop(rs, base) ==
    LET passed == {r \in ToSet(rs) : Accepted(r, base)}
        Rank(r) == 1 + Cardinality({s \in passed : Precedes(s, r)})
    IN [k \in 1..Min({Top, Cardinality(passed)}) |-> CHOOSE r \in passed : Rank(r) = k]

(* Where the rows of the production value without an error stand.          *)
BaselineRows(rs) ==
    {i \in DOMAIN rs : Grid[rs[i].combo] = Production /\ ~rs[i].error}

HasBaseline(rs) == options.baseline.given \/ BaselineRows(rs) # {}

Baseline(rs) ==
    IF options.baseline.given THEN options.baseline.metrics
    ELSE rs[Min(BaselineRows(rs))].metrics

-----------------------------------------------------------------------------
(* backtest/walk_forward.py *)

(* Mutant: one window more than fits.                                      *)
OneWindowMore == (Bars - (TrainBars + TestBars)) \div StepBars + 2

Windows == (Bars - (TrainBars + TestBars)) \div StepBars + 1

EnoughBars == TrainBars + TestBars <= Bars /\ Windows >= MinWindows

TestFrom(w) == w * StepBars + TrainBars + 1
TestTo(w)   == w * StepBars + TrainBars + TestBars

(* Mutant: the ratio is applied to the other side.                         *)
OverfitOtherSide(inSample, tests) ==
    OverfitRatio * SumOf([k \in DOMAIN tests |-> tests[k].expectancy])
      < 100 * inSample * Len(tests)

(* run_walk_forward_validation: 100 sum < ratio * in-sample * windows.     *)
Overfit(inSample, tests) ==
    100 * SumOf([k \in DOMAIN tests |-> tests[k].expectancy])
      < OverfitRatio * inSample * Len(tests)

-----------------------------------------------------------------------------
Init ==
    /\ market \in [DOMAIN Grid -> Histories]
    /\ options \in [walkForward : BOOLEAN, baseline : Baselines]
    /\ phase = "data" /\ next = 1
    /\ running = [w \in Workers |-> None] /\ completed = <<>> /\ broken = FALSE
    /\ rows = <<>> /\ candidates = <<>>
    /\ window = 0 /\ oos = <<>> /\ table = <<>> /\ code = None

pool   == <<next, running, completed, broken>>
search == <<rows, candidates, window, oos, table>>

Exit(c) == phase' = "exit" /\ code' = c

(* _assert_btc_parquet_exists *)
CheckData ==
    /\ phase = "data"
    /\ \/ phase' = "sweep" /\ UNCHANGED code
       \/ Exit(2)
    /\ UNCHANGED <<market, options, pool, search>>

Take(w) ==
    /\ phase = "sweep" /\ ~broken
    /\ running[w] = None /\ next <= Len(Grid)
    /\ running' = [running EXCEPT ![w] = next]
    /\ next' = next + 1
    /\ UNCHANGED <<market, options, phase, completed, broken, search, code>>

Finish(w) ==
    /\ phase = "sweep" /\ ~broken
    /\ running[w] # None
    /\ completed' = Append(completed, running[w])
    /\ running' = [running EXCEPT ![w] = None]
    /\ UNCHANGED <<market, options, phase, next, broken, search, code>>

(* A worker process is killed: BrokenProcessPool for all that is left.     *)
WorkerDies(w) ==
    /\ phase = "sweep" /\ ~broken /\ Cardinality(Workers) > 1
    /\ running[w] # None
    /\ broken' = TRUE
    /\ UNCHANGED <<market, options, phase, next, running, completed, search, code>>

Collect ==
    /\ phase = "sweep"
    /\ \/ /\ Len(completed) = Len(Grid)
          /\ rows' = InGridOrder
          /\ phase' = "judge"
          /\ UNCHANGED code
       \/ broken /\ Exit(1) /\ UNCHANGED rows
    /\ UNCHANGED <<market, options, pool, candidates, window, oos, table>>

(* main after the CSV is written *)
AllFailed == rows # <<>> /\ \A r \in ToSet(rows) : r.error

Judge ==
    /\ phase = "judge"
    /\ IF AllFailed THEN Exit(3) /\ UNCHANGED candidates
       ELSE IF ~options.walkForward THEN Exit(0) /\ UNCHANGED candidates
       ELSE IF ~HasBaseline(rows) THEN Exit(2) /\ UNCHANGED candidates
       ELSE /\ candidates' = SelectTop(rows, Baseline(rows))
            /\ IF candidates' = <<>> THEN Exit(0) ELSE phase' = "validate" /\ UNCHANGED code
    /\ UNCHANGED <<market, options, pool, rows, window, oos, table>>

current == candidates[Len(table) + 1]

Judged(entry) ==
    /\ table' = Append(table, entry)
    /\ window' = 0 /\ oos' = <<>>
    /\ IF Len(table') = Len(candidates) THEN Exit(0) ELSE UNCHANGED <<phase, code>>

ErrorEntry == [combo |-> current.combo, error |-> TRUE, overfit |-> FALSE, tests |-> <<>>]

(* walk_forward raises: too few bars or windows, or a run fails.           *)
WalkForwardRaises ==
    /\ phase = "validate"
    /\ ~EnoughBars \/ window < Windows
    /\ Judged(ErrorEntry)
    /\ UNCHANGED <<market, options, pool, rows, candidates>>

(* One window: the train run, whose metrics nobody uses, and the test run. *)
RunWindow ==
    /\ phase = "validate" /\ EnoughBars /\ window < Windows
    /\ oos' = Append(oos, Metrics(Trades(market[current.combo],
                                         TestFrom(window), TestTo(window))))
    /\ window' = window + 1
    /\ UNCHANGED <<market, options, phase, pool, rows, candidates, table, code>>

JudgeCandidate ==
    /\ phase = "validate" /\ EnoughBars /\ window = Windows
    /\ Judged([combo |-> current.combo, error |-> FALSE,
               overfit |-> Overfit(current.metrics.expectancy, oos), tests |-> oos])
    /\ UNCHANGED <<market, options, pool, rows, candidates>>

Done == phase = "exit" /\ UNCHANGED vars

Next ==
    \/ CheckData \/ Collect \/ Judge
    \/ \E w \in Workers : Take(w) \/ Finish(w) \/ WorkerDies(w)
    \/ WalkForwardRaises \/ RunWindow \/ JudgeCandidate
    \/ Done

Spec == Init /\ [][Next]_vars

-----------------------------------------------------------------------------
(* Properties *)

MetricsOf(i) == Metrics(Trades(market[i], 1, Bars))

Sound == {i \in DOMAIN Grid : market[i] # Raises}

(* The baseline the documentation promises: the operator's, or the first   *)
(* combination of the production value whose backtest worked.              *)
TrueBaseline ==
    IF options.baseline.given THEN options.baseline.metrics
    ELSE MetricsOf(Min({i \in Sound : Grid[i] = Production}))

Judgeable == {i \in Sound : Accepted([error |-> FALSE, metrics |-> MetricsOf(i)], TrueBaseline)}

(* Whatever the order in which the workers finish, a table the script ends *)
(* with names combinations that beat a real baseline, each once, at most   *)
(* Top, best first, and none that was left out is better than one of them  *)
(* (run_sweep: the output does not depend on the number of workers; main:  *)
(* no no-op ratchet that would falsely validate every combo).              *)
CandidatesEarned ==
    code = 0 /\ table # <<>> =>
      LET listed == {table[k].combo : k \in DOMAIN table}
          AsGood(i, j) == ~Better([metrics |-> MetricsOf(j)], [metrics |-> MetricsOf(i)])
      IN /\ listed \subseteq Judgeable
         /\ Cardinality(listed) = Len(table) /\ Len(table) <= Top
         /\ Len(table) < Top => listed = Judgeable
         /\ \A i \in listed, j \in Judgeable \ listed : AsGood(i, j)
         /\ \A k, m \in DOMAIN table : k < m => AsGood(table[k].combo, table[m].combo)

(* A judged candidate rests on at least MinWindows test windows, all inside*)
(* the data, after a full train window and as long as asked, and no further*)
(* window would have fitted (walk_forward).                                *)
WindowsAreWhole ==
    \A k \in DOMAIN table : ~table[k].error =>
        LET n == Len(table[k].tests)
        IN /\ n >= MinWindows
           /\ TestTo(n - 1) <= Bars /\ TestTo(n) > Bars
           /\ \A w \in 1..n : TestFrom(w - 1) > TrainBars

(* A candidate is judged on its own windows, with none left from the one   *)
(* before, and for one that did not lose in sample the overfit flag means  *)
(* that its mean expectancy is lower there (run_walk_forward_validation).  *)
FlagIsEarned ==
    \A k \in DOMAIN table : ~table[k].error =>
        LET combo == table[k].combo
            n     == Len(table[k].tests)
            in    == MetricsOf(combo).expectancy
            sum   == SumOf([w \in 1..n |-> table[k].tests[w].expectancy])
        IN /\ \A w \in 1..n :
                table[k].tests[w] = Metrics(Trades(market[combo], TestFrom(w - 1), TestTo(w - 1)))
           /\ (table[k].overfit /\ in >= 0) => sum < in * n
=============================================================================
