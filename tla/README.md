# smc-engine in TLA+

Specifications of smc-engine's trading core, the TLC runs that check them and
the TLAPS proofs about them. The reference is the code: every definition is
translated from the lines `PROJECT.json` names under `map`.

## 1. The system

smc-engine finds "smart money" setups on Binance USDT-M futures candles and,
when `execution.enabled` is set, trades them. `examples/run_live.py` is the
service: every M15 close plus a few seconds a scheduler calls `_tick`, which for
each symbol runs the analysis (`LiveRunner.run_once`) and then, for each symbol,
`tick_timeout_watcher` and `tick_fill_polling` of its `OrderManager`. One job,
`max_instances=1`: the service's logic is one thread. What runs beside it is the
exchange, the operator's scripts (other processes that share
`kill_switch_state.json`), and systemd, which restarts the service.

| component | state | operations | talks to | hard behaviour | what makes it correct |
|---|---|---|---|---|---|
| OrderManager | none of its own; the locals of a handler between two REST calls | `process_setup`, `tick_timeout_watcher`, `tick_fill_polling` (`_on_fill`, rollback, `_on_position_close`) | tracker, client, kill switch | the exchange moves between any two calls; calls fail, lie, are repeated; an unexpected exception ends a tick anywhere | cap held, own exits, one protection per entry, true outcomes, no position given up in silence |
| PositionTracker | order id -> record | `add`, `on_fill`, `on_timeout`, `on_reject`, `on_tp_hit`, `on_sl_hit`, `on_manual_close`, `on_drift`, `save_state`, `load_state` | OrderManager | illegal transitions raise; the file is never written | each record follows the state diagram |
| KillSwitch | loss streak, daily PnL, triggered, reasons; a file | `check_after_trade`, `trigger_external`, `reset`, load, save | OrderManager, ReconcileLoop, scripts | several processes write the whole file; crash or failed write before the save | a limit reached means triggered; a trip survives |
| ReconcileLoop | none | `tick` | client, tracker, kill switch | orders and positions read by separate calls; its only caller, `scripts/reconcile_check.py`, sees the files and not the service's memory | naked positions are drift |
| BinanceOrderClient | exchange_info cache | place, cancel, get_* with retry | exchange | a retry may repeat what took effect | bounded retries, true error classes |
| MainnetGuard | cached mode | `check`, `is_approved` | run_live, client | environment changes after the cached answer | mainnet only if all layers agree |
| PositionSizing | none (pure) | `calc_position_size`, `quantize_to_tick` | OrderManager | rounding, minimum notional, margin | risk never above the budget |
| LiveRunner, scheduler | per-symbol HTF caches, one job | `run_once`, `start`, `stop` | candle source, orchestrator, risk guard, OrderManager | bars close between any two calls of a tick; fires dropped during a tick; stale cache entries | only closed M15 bars, bars in order, higher time frames never out of date |
| Harness, backtest positions | a pending setup, an open position, loss streak, equity | one bar step: fill, exit, expiry, new setup | orchestrator, risk guard | order of events inside one bar; partial take-profits | no trade out of order, parts sum to the whole |
| RiskGuard | none (reads the account state) | `validate` | runner, harness | gate order, gates that read counters | first failing gate wins |
| SetupBuilder, Orchestrator, Detectors | the caller's HTF cache | `analyze`, `build_with_diagnostics`, detectors | each other | look-ahead, confirmation lag, findings taken back, a cache keyed by less than what the result depends on | the cache changes nothing, only confirmed structure is used, a setup's prices are on the right sides |
| Calibration sweep, WalkForward | futures of a process pool, the table of results | `run_sweep`, the ratchet, `walk_forward` | harness, metrics | workers finish in any order or die; last window, overlap | the table does not depend on the order, windows in range |
| TimeUtils | none (pure) | calendar, sessions, funding windows | level detector, risk guard | wrap at midnight | windows mean what they say |
| audit and signal logs, TradingView export, reports | files | output | - | - | - |

`PROJECT.json` lists the hazards of this code at their lines, the properties that
would catch each, and for those without one the reason.

## 2. Modules

| module | models | composed of |
|---|---|---|
| `PositionLifecycle` | abstract: the state machine each record of PositionTracker promises | - |
| `OrderManager` | one symbol's OrderManager and PositionTracker, driven by the tick, against an account | implements `PositionLifecycle` (`Tracker == INSTANCE ...`) |
| `KillSwitch` | `kill_switch.py` as the service and a script share its file | - |
| `TradingService` | OrderManager plus crash and restart, the kill switch's file, `reconcile_check.py` with `ReconcileLoop.tick` | extends `OrderManager` |
| `LiveTick` | the service's process over all symbols: scheduler, candle calls, HTF caches, `MainnetGuard` | - |
| `Bars`, `Detectors`, `Analysis`, `SetupBuilder`, `RiskGuard` | candles; the six detectors; the orchestrator; the setup builder; the gates, sizing and the tick grid | each extends the one before it |
| `Replay` | the analysis stack bar by bar, as the runner or as the backtest feeds it | extends `RiskGuard` |
| `TradeCycle` | abstract: the three-state loop of a backtest trade and the lots it has sold | - |
| `Harness` | `backtest/harness.py`, `backtest/position_manager.py`, the account gates of `risk_guard.py` | implements `TradeCycle` (`Cycle == INSTANCE ...`) |
| `Research` | `calibration_sweep.py` and `walk_forward.py`, with the figures of `metrics.py` they decide by | - |
| `Tables` | rows picked by a mask, as pandas and list comprehensions do | extended by `Bars` |
| `OrderManagerProofs`, `TradingServiceProofs`, `KillSwitchProofs`, `LiveTickProofs`, `HarnessProofs`, `ResearchProofs`, `ReplayProofs` | theorems | extend the module they are about; the second extends the first |
| `TablesProofs` | lemmas on picked rows, extrema and sums of finite sets, ranks, `FoldFunction`s, and the recursion of functions over `0..n` | extended by the last two |
| `MC...` | values for the constants | extend the module they instantiate |

### OrderManager

The state of the exchange (`orders`, `nextId`, `net`) is external and is modelled
by what `src/` relies on: ids are handed out in order, a LIMIT order may fill in
parts, a STOP_MARKET fills at once, an order that is over refuses a cancel, the
position is one signed number (ONE_WAY mode). `pos` is
`PositionTracker._positions`. `pc`, `todo`, `cur`, `slId`, `setup` and `tpFilled`
are the service thread: where it stands between two REST calls and the locals
that live across them. `faulted` is a history variable: a call that guards a
position has failed or was repeated. `audit` holds what the code writes to its
audit log about positions it gives up: the three alarms of failed cancels and
closes, and a rollback that succeeded.

One action is one REST call with everything the code does before the next one:

| actions | code in `order_manager.py` |
|---|---|
| `BeginTick` ... `EndTick` | `_tick` of `run_live.py`: at most one setup, then the watchers |
| `SkipSetup`, `AdmitSetup`, `CheckMark`, `SizeOrder`, `PlaceEntry` | `process_setup`, 77-203, and `_mark_price_passed_entry`, 416-468 |
| `SkipYoung`, `CancelOverdue`, `TimeoutsDone` | `tick_timeout_watcher`, 209-227 |
| `PollEntry`, `PlaceSl`, `PlaceTp`, `CancelSl`, `Rollback`, `PollDone` | `tick_fill_polling`, first loop; `_on_fill`, 246-325; `_rollback_filled_order`, 327-370 |
| `PollActive`, `ReadTp`, `ReadSl`, `CancelOther`, `Notify` | second loop; `_on_position_close`, 372-414; `_notify_kill_switch`, 481-488 |
| `QueryFails` | a `get_order` or `get_position` that raises: the handler of `_tick` ends the symbol's tick |

A call ends in `"ok"`, in `"error"` (BinanceOrderError, which most handlers
catch) or in `"escape"` (any other exception, such as the timeouts of `requests`,
which `order_client.py` does not wrap). With `"lost"` a failed call may have
taken effect, and a retried one may have taken effect several times (`Copies`).
What is abstracted: prices, coin quantities and money. Sizing and the mark price
comparison are free choices; a trade's effect on the kill switch in this module
is a free choice of firing, and `KillSwitch` models the counters.

### KillSwitch

Each process is a copy of `KillSwitchState` and a `pc`: `"saving"` lies between a
mutation in memory and `os.replace`, which makes the file change atomic. A crash
there loses the mutation, `SaveFails` keeps it in memory only.

### TradingService

`ThreadStep` is a step of OrderManager's thread. When it trips the switch (or
counts a trade) `saver` says that the thread has still to write the file: `Save`
writes it, `SaveFails` raises, and how far the exception goes depends on the
caller. `Restart` can happen at every program point, inside a save too, and
finds what the files hold: in `kill_switch_state.json` what the last finished
save wrote, and for the tracker nothing, since `PositionTracker.save_state` has
no caller outside the tests (`SavedTracker`). `StartCheck`, `ReadOrders`, `Verdict` are
`reconcile_check.py`, which reads open orders and positions by separate calls
while the service runs.

### LiveTick

One run of `run_live.py` from its start. Time is counted in M15 closes, a bar is
named by its open time, and of an analysis only what it was made of is kept: for
each frame the last bar and how many closes the exchange had seen when it
replied, and for H4 and M15 the D1 bar that gave the levels. `CloseBar` may fall
between any two steps of a turn.

| actions | code |
|---|---|
| `Fire` | the cron job of `scheduler.py`: `max_instances=1` drops a fire during a tick |
| `BeginTurn` | the head of `run_once`: `at_bar` from the clock |
| `Reply`, `RequestFails`, `FetchRaises`, `Parse` | one candle call of `client.py` with its retries; `data.py` drops the forming bar by a clock read after the reply; for the time frames in `Lacking` the reply may hold no closed bar (`NoFrame`) |
| `AnalyzeFrames`, `AnalyzeRaises` | `orchestrator.analyze`: slice, cache lookup and fill, frame by frame, an empty frame skipped; an exception leaves the entries made before it |
| `NotValidated`, `PlaceOrder`, `Placed` | build, validate, emit, `process_setup` |
| `EndTick` | the watchers |

`account` is what `MainnetGuard.check` answered at the start and the process keeps;
no property is about it (section 6).

### The analysis stack

The detectors, the orchestrator, the builder and the gates keep no state: they are
operators, each from the function it is named after. Prices are integers, ratios
of the configuration are integers with a named unit, so comparisons are exact
where the code rounds floats. The state is `Replay`'s: the series so far and what
the caller keeps between bars. With `Live` the frames are closed candles of each
time frame, fetched on time: the half-seen bar that a late clock lets in
(`data.py:40`) is in `LiveTick` only, which is about time and not about prices.
Otherwise they are the backtest's resampled ones, which hold `Ahead` bars of
future. The calendar has months and years of a fixed length; Mondays are grouped
by the year and the ISO week, as `level_detector.py:229` does, so the last days
of December can fall into the group of the January before. Left out are H8 (a second middle frame only backtests supply) and the
hints only the log shows.

### Research

`market` gives each combination the R multiples of its backtest, or `Raises`.
Workers take combinations in order and finish in any; a worker that dies breaks
the pool and the script ends without a table. `Judge` is the ratchet against the
baseline; `RunWindow` one walk-forward window; `JudgeCandidate` the overfit flag.
Expectancy and drawdown are exact fractions.

### Harness

`pc` is the step of the loop's body for the current `bar`:

| actions | code |
|---|---|
| `NextBar` | the head of the loop in `run`; any bar with low <= open <= high |
| `StopOut`, `StopHolds` | `update`, part 1: the stop takes all that is left, before any target |
| `TakeProfit`, `SkipTarget` | part 2, one step per target: slice, stop to the entry after the first |
| `EndUpdate` | part 3 |
| `Fill`, `NotFilled`, `NothingPending` | `run`, step 2, for both values of `fill_model`; a fill goes on to `update` with the same bar |
| `Seek`, `SeekNothing` | step 3: whether the bar gives a setup that passes the other gates is free, the drawdown breaker is not |
| `MarkToMarket` | step 4 |

`Book` is `_make_trade` with what `run` does for each trade; the code has that
loop twice (lines 158-165 and 210-217) and the model once, since the two are the
same. `sold` and `last` are history variables. Prices are ticks and sizes lots;
costs, percentages of the price in the code, are ticks per fill and per lot. Of
the equity only `drawdown` is left, the fact that the limit was reached, and any
bar after the first fill may be the one to reach it. The loop has no scheduler and
nothing runs beside it: its hazards are the order of its steps and its edges.

Two things the model shows and no text of the repository settles: with
`next_open` an open beyond the stop or a target makes a stop with a profit or a
target with a loss (so `ReasonTellsResult` is about limit orders), and once the breaker has
fired nothing re-arms it (`BreakerIsFinal`). A position still open after the
last bar stays open and is in no trade.

## 3. Runs

| run | bounds | shows |
|---|---|---|
| `OrderManagerSingle` | 5 orders of 2 lots, cap 1, errors, expiry, manual close | `ExposureIsAudited`, `ResultsCounted` |
| `OrderManagerEscape` | 5 orders, cap 2, every fault of a call, 2 copies per request | `CapRespected`, `ExitsAreOwn`, `OutcomeIsTrue`, `CountedOnce`, and `Lifecycle`: the module implements `PositionLifecycle` |
| `ServiceRestart` | 4 orders, errors, failing saves, restarts, a concurrent reconcile check | `ProtectedOnce` (Bug D), `TripStopsEntries`, `EntryDecided` (liveness) |
| `KillSwitchShared` | loss limit 2, daily limit 3, both scripts | `LimitsTrip`, `TripPersists` |
| `LiveTick` | 2 symbols, H4 of 2 and D1 of 4 M15 bars, 2 closes, one of them within a turn, 2 attempts, M15 replies that may hold no closed bar | `WholeM15Bars`, `HtfIsCurrent`, `BarsInOrder`, `TickEnds` (liveness) |
| `AnalysisLive` | ten histories of 4 to 27 bars and any of four moves for three bars more | `CacheTransparent`, `BreaksAreFinal`, `SwingSweepsAreFinal`, `ImbalanceGoneOnlyByAtr`, `PoisOnlyAge`, `SetupSound`, `RiskWithinTick`, `FirstOpensConfirmThemselves` |
| `Backtest` | 4 bars, 7 price levels, a long and a short setup, window 2, 2 losses, slippage 1, both fill models | `SignalIsResolved`, `StreakIsTrue`, `ReasonTellsResult`, `StreakBounded`, `BreakerIsFinal`, and `CycleSpec`: the module implements `TradeCycle` |
| `Research` | 3 combinations out of 6 histories, 2 workers, 8 bars, windows 2 + 3, step 1 | `CandidatesEarned`, `WindowsAreWhole`, `FlagIsEarned` |
| `PartialFill` | violation | the filled part of a timed-out entry is dropped |
| `NakedUnseen` | violation | the drift the code expects reconcile to catch is not seen |
| `LookAhead` | violation | a backtest analyses H4 and D1 bars that have not closed |
| `FormingSeen` | violation | the live runner analyses a D1 or H4 bar it saw before its end |

Every module has its type invariant in one of the passing runs, except the
analysis stack and Research, whose states are built by operators.

Bounds. `MaxOrders` caps what the exchange accepts. A position with its exits
takes three ids, so five orders hold a trade and an entry with its SL after it
(a leftover of the first meets the second), or two entries at once with an exit
pair and the first exit of the other; four are enough for a trade plus a
duplicate or a post-restart entry. `Room` accepts an entry only while ids for its exits are left. `Timeout` is in M15 bars: with 3 an order lives
through the next tick, so that a refused exit can be polled again; 2, where the state
space is the limit, makes it overdue there;
the configured 60 minutes are 4. `Qty` is 2 lots where partial fills are the
question (`OrderManagerSingle`, `PartialFill`) and 1 elsewhere. The runs are long
only: with both sides five orders are too many states, and the theorems of
section 5 cover both.

In `LiveTick` the clock starts at 11: the first turns meet the close of an H4
bar and of a day (12), the later ones a bar after it. One close per turn is
fewer than an H4 bar has, the case `HtfIsCurrent` is about. `Lacking` is M15
alone: with any other frame the states are too many, and the theorems cover all. In `AnalysisLive` each history was chosen because its continuations reach one
outcome: a setup on a zone, a level, an imbalance, a rejection by volatility or
funding, a daily range, H4 breaks; windows of 12 and 8 bars, so that the early
ones grow and the long ones slide. The properties that hold while the window
stands (`BreaksAreFinal`, `SwingSweepsAreFinal`, `ImbalanceGoneOnlyByAtr`,
`PoisOnlyAge`) speak of a live symbol only until its history has reached the
lookback; from then on every bar slides the window. In `Backtest` four bars hold a signal, its
whole retest window and its expiry, or two trades and a fired breaker; the
levels lie on, between and beyond the prices of the setups; the weights leave
a rest for the last target (2 + 1 + 1 of 5 lots). In `Research` windows overlap,
four fit and three are required; the two workers are interchangeable (symmetry).
`NetBound`, `MaxStreak` and `MaxPnl` cap counters.

`Backtest`, `AnalysisLive`, `LookAhead`, `LiveTick` and `FormingSeen` end when their
data or their clock do, so they do not check for deadlock. The other runs do.

Each property of a passing run has a mutant in `PROJECT.json`: a definition of
the model changed as a plausible bug would change the code, under which TLC finds
the property violated. Mutant operators stand before the definition they change,
with a comment that begins "Mutant".

## 4. Fairness

`FairSpecAll` (TradingService): weak fairness of the service's next step, saves included. The code
is one loop with timeouts on its calls, and the unit file restarts it on failure
after 5 s; a crash loop (`StartLimitBurst`) is not modelled. Nothing is
assumed of the exchange: `EntryDecided` holds with no fill, no successful cancel and
restarts at will. A restart decides an entry by forgetting it.

`LiveTick!Spec`: weak fairness of the tick's thread, for the same reason: straight-line
code whose calls return or raise, since the HTTP client has a timeout, and
whose retries are counted. Neither the clock nor the scheduler is fair.

## 5. Proofs

For every value of the constants that satisfies the assumptions named in each
module (`BoundsAssumption` and `ConfigAssumption` in OrderManager, `LiveTickAssumption`,
`ResearchAssumption`, three in KillSwitch, six in Harness, and for the analysis
stack one in each of its modules):

| theorem | states |
|---|---|
| `OrderManagerProofs!TypeCorrect` | `Spec => []TypeOK` |
| `ExitsAlwaysOwn`, `OutcomeAlwaysTrue`, `CapAlwaysRespected` | the invariants `ExitsAreOwn`, `OutcomeIsTrue`, `CapRespected`, under all faults |
| `NeverCountedTwice` | the action property `CountedOnce` |
| `ImplementsLifecycle` | the refinement `Spec => Lifecycle` |
| `AlwaysProtectedOnce` | `ProtectedOnce`, if failures are BinanceOrderErrors and replies are true (`TrueReplies`) |
| `ResultsAlwaysCounted` | `ResultsCounted`, under all faults |
| `ExposureAlwaysAudited` | `ExposureIsAudited`, if replies are true (`TrueReplies`), for every order size |
| `TradingServiceProofs!InvAllHolds`, `TypeCorrectAll` | OrderManager's invariant and `TypeOKAll` through any number of restarts and failed saves |
| `TripAlwaysStops` | `TripStopsEntries`, with the trip in memory and its save two steps, the second of which may fail or never come |
| `ProtectedAcrossRestarts` | `ProtectedOnce` of the whole service, with `TrueReplies` |
| `KillSwitchProofs!LimitsAlwaysTrip`, `TripAlwaysPersists` | `LimitsTrip`, `TripPersists` |
| `LiveTickProofs!TypeCorrect`, `M15AlwaysWhole`, `TurnsInOrder` | `TypeOK`, `WholeM15Bars`, `BarsInOrder`, for any symbols, bar lengths and number of closes in a turn |
| `HtfAlwaysCurrent` | `HtfIsCurrent`, if fewer closes fall into a turn than an H4 bar has |
| `HarnessProofs!SignalsAreResolved`, `StreakCorrect` | the invariants `SignalIsResolved`, `StreakIsTrue` |
| `ReasonIsTrue`, `StreakStaysBounded` | `ReasonTellsResult`, `StreakBounded`, the second for costs below the targets |
| `BreakerStops`, `ImplementsCycle` | `BreakerIsFinal`, the refinement `Spec => CycleSpec` |
| `ResearchProofs!WindowsAlwaysWhole` | `WindowsAreWhole` for every length of data, windows and step |
| `CandidatesAlwaysEarned` | `CandidatesEarned`, for every grid, number of workers and order in which they end or die |
| `FlagAlwaysEarned` | `FlagIsEarned`, for an overfit ratio of at most 1 (the code's is 0.60, `calibration_sweep.py:156`) |
| `ReplayProofs!SetupAlwaysSound` | `SetupSound`, for the runner and for the backtest, if one of the two buffers of the stop is positive (`Buffered`; `config.py:141-142` has 0.25 and 0.003) |
| `RiskAlwaysWithinTick` | `RiskWithinTick`, for both |
| `BreaksAlwaysFinal`, `SwingSweepsAlwaysFinal`, `ImbalanceGoneAlwaysByAtr` | the action properties `BreaksAreFinal`, `SwingSweepsAreFinal`, `ImbalanceGoneOnlyByAtr`, for both |
| `CacheAlwaysTransparent` | `CacheTransparent`, for the runner (`Live`) |
| `FirstOpensAlwaysConfirm`, `PoisAlwaysAge` | `FirstOpensConfirmThemselves`, the action property `PoisOnlyAge`, for the runner |

The argument for OrderManager. None of the properties is inductive: that
`_on_position_close` records the truth depends on what the thread knew when it
got there. `Inv` adds `FreshIds` (ids not handed out are unused on both sides),
`EntriesReal`, `CountedClosed` and `Handling`, which says for each program point
what `cur`, `slId`, `tpFilled` and the rest of the loop's list (`todo`) still
mean although the exchange has moved since they were read. That it is preserved
rests on two lemmas about one step: `ExchangeStep` (accepted orders keep kind,
side and owner, a filled order stays filled) and `TrackerStep` (at most one record
moves, along one edge of the diagram, justified by its orders). `CapInv` adds
that past the guard there is still room for one more, because only the thread
itself adds; `ProtectInv` adds that an exit of a PENDING entry exists only while
`_on_fill` is at work on it, the reason why an error must end in ABORTED and
never return to the poll.

`Reported` adds that a closed record was counted unless the thread is at it or a
guarding call has failed. For `ExposureIsAudited`, `AuditInv` adds what the
exchange and the audit log know of a record given up: a stop that has not
filled has not filled in part (`SlWhole`), and when the emergency close comes,
every exit is gone or the log has an alarm (`BeforeClose`). An order that is over
never changes (`OverStays`), so what holds at the call that gives the record up
holds for good.

For TradingService the same `Inv` survives a restart, because what a restart
forgets it forgets at once: tracker, place and locals. Ids are never reused, so a
forgotten order cannot come back. `SaverKnown` says where the thread stands while it
saves, so that a save that fails leaves it at a point `Inv` allows. A trip is not
in the file as soon as it is in memory, and a restart in between loses it; hence
`TripStopsEntries` is about `Tripped`, both at once. `TrippedStays` shows that no
save, failed save, verdict of the script or restart undoes it, `CheckedFirst` that
no setup gets past the check, `AddedOnce` that a setup past it adds one record.

For LiveTick, `Inv` says what the clock and the frames know of each other:
`Thread` (a turn's bar lies before the clock, a reply after it), `FramesOK`, `CachesOK`
(an entry is the snapshot of the bar in its key, an M15 one whole), `PictureOK`. Order
needs `Behind`: the last turn of a symbol is at least one close old, and more
if a fire is due and its turn is still to come. `HtfIsCurrent`
needs arithmetic on bars: two bars of one frame that overlap are one
(`OpenUnique`), a frame parsed in a turn is at most one bar behind the turn's
(`Settled`, `Fetched`, `Near`), and the D1 frame of an H4 snapshot is that of the
day before its close or of the day that closed with it (`LevelsNear`).

For KillSwitch the invariant is `TypeOK /\ LimitsTrip`; the action property
follows because each of the places a state can be loaded or saved from is
triggered once all are.

For Harness, `Inv` is the type with `Shape`: a position excludes a signal, what
was sold and what is left add up to the size, and a position outside the target
loop has something left, which needs that the last target takes the rest.
`LimitShape` adds that under limit orders a position has the prices of some setup, and `Room`
that while a trade is under way the streak is short of its limit. `SignalAge` says how
old a signal can be at each step of the loop's body. The streak
is a cardinality, and one lemma says what appending a result does to it.

For Research, a window passed is a test appended (`Passed`), and division by
the step bounds the number of windows (`WindowsFit`). `SearchInv` adds what a row of
the sweep says of its combination (`Known`), where the script stands in the list of
candidates (`Progress`), and that each entry of the table was made of its own
candidate's windows (`Earned`). The ratchet's sort is by rank: the rank of a row is
the number of rows that precede it, a bijection between a finite, totally ordered
set and `1..n` (`TablesProofs`), so the cut after `Top` leaves out none that is better.

For the analysis stack the order is that of the pipeline. `Good` says that a
frame is a sequence of candles in the order of time; resampling, dropping the
forming candle and slicing preserve it. Each detector, the enrichment, the six
factors and the builder then get a lemma on what they return on such a frame
(`ZoneOk`, `ImbalanceOk`, `LevelOk`, `SnapshotOk`, `PictureOk`). `StackInv` says this of the state,
and that the setup is the builder's and the verdict the gates' answer to it; it
is inductive for both callers, and `SetupSound` and `RiskWithinTick` follow by arithmetic.

The cache needs more, since an entry was made of an earlier frame. `Current` says
that an entry whose key is the last bar of a frame is the snapshot of that frame,
and that all others are for earlier bars. It is preserved because the closed
candles after one more bar are the old ones or those and one more (`ClosedNext`):
a frame with a new candle has a new key. An H4 snapshot depends on the D1 frame
too, whose levels it is given; that is safe because a D1 candle closes only when
an H4 candle does (`DayClosesHours`, from the spans being multiples). `LiveInv` is `StackInv`
with `Current`.

The action properties rest on what a window that still starts where it did can
have become: the same, or longer by its new bar (`WindowGrows`). The scan for breaks
then takes one more step from the state it ended in (`ScanGrows`), since a swing
known at a bar depends on the bars up to it only (`KnownSame`); of the swings before a
bar, those it takes are the ones it could know (`TakenKnown`): one it cannot know
yet stands out above it; a gap passes any
threshold its old ATR let it pass (`GapPasses`); a zone and a gap stay at their bars,
and fills are maxima over more bars than before (`FillsGrow`).

Functions defined by recursion (`Kept`, `Scan`) and folds (`SumFunction`, `FoldFunction`) are reached by
induction on the set of indices that satisfy the claim: had the set of the others
a member, it had a least one. That is stated without an operator as a parameter,
which the provers could not instantiate.

Model-checked only: the liveness properties (`EntryDecided`, `TickEnds`), since
fairness and ENABLED are out of the prover's reach. Every other property of a
passing run is a theorem.

## 6. Disagreements between code and documents

Four have a violation run and an entry under `findings`: a partial fill is
dropped; reconcile does not see a naked position of an aborted record; a
backtest looks ahead in its higher frames; and the live runner, which "never
sees a forming bar" (`runner.py:4-5`), analyses and caches a D1 or H4 bar that
closed between the exchange's reply and the clock reading of `data.py:40` as it
was before its end. Of M15 the promise holds (`WholeM15Bars`).

Met while reading and modelling, without a run:

- SL and TP are two orders without `reduceOnly`, and the poll looks at them only
  when the position is 0 (`order_manager.py:243`). When both fill between two ticks
  the position is reversed and the record of a filled TP stays ACTIVE for ever.
- After a restart the tracker is empty (`SavedTracker`): entries and exits the
  exchange still holds belong to no record, against `position_tracker.py:12-13`.
- `kill_switch.py:8-9` locks the service until a manual reset after a drift. The
  running service keeps the copy it read at its start, and its next save
  overwrites the trip that `reconcile_check.py` wrote (`kill_switch.py:137`).
- `execution_testnet` forces nothing (`config.py:192`): the account is chosen by
  `SMC_ALLOW_LIVE` and `execution_live_enabled` alone (`run_live.py:230`).
- The sweep of equal levels looks ahead, against `liquidity_detector.py:85-86`: the
  level has the time of its second touch and the price of all of them. A wick that
  swept it can be a touch of it one bar later, and then there was no sweep. For
  swings `SwingSweepsAreFinal` holds.
- `order_manager.py:8` speaks of 60 minutes, and since `timeout_at` counts from the
  open of the last closed bar (line 181) the watcher acts after about 45.
- `kill_switch.py:5` sums by day, and `daily_pnl` is never reset (line 124).
- `PositionTracker.on_manual_close` and `on_drift` have no caller outside the tests.
- `reconcile_check.py` calls itself read-only by default and saves a trip; when the
  switch is already triggered it prints that there is no drift.
- The HTF cache is never pruned: every closed bar adds an entry for the life of
  the process.
- `min_rr` and the independent-factor gate cannot refuse what they look like
  refusing (`SetupSound`, `FirstOpensConfirmThemselves`); SFP and SWEEP have the same
  condition; a setup is confirmed by the oldest M15 break of its direction, not
  the newest; Monday's high and low are stamped at its first bar; an equal level
  moves when its cluster grows; a sliding window can change the kind of a break
  it kept; the imbalance detector has an ATR period of its own.
- `position_sizing.py` sizes by the exact prices, and the order goes out on the
  grid: the loss can exceed the budget by a tick per lot (`RiskWithinTick` says no more).
- A killed pool worker loses the whole sweep, no table is written; the windows
  called out-of-sample lie inside the data the sweep ranked by
  (`calibration_sweep.py:396`); for a candidate with a negative in-sample expectancy the
  overfit rule passes a worse result and can flag a better one.
- `analyze_combined.py` joins by `at_bar` alone, and life cycle events carry none;
  `analyze_trades.py` counts events without a symbol twice and every TP_HIT as a win.

## 7. Plan

Done: the execution core, the service with restarts, the live tick, the analysis
stack, the backtest loop and the research scripts. Next, in this order:

1. `OrderClient`: `_call_with_retry` with its backoff against a lossy network,
   refining the one-step calls (`Copies`) of OrderManager.
2. Several symbols' OrderManagers on one account and one kill switch, composed
   with LiveTick's queue.
3. The equity of the harness: drawdown from the peak of the marked equity.
4. OrderManager's free choice of a size refined by `CalcPositionSize`, with its margin check.
5. HEDGE position mode, once `get_position` is asked by side.

## 8. Not modelled

HEDGE position mode (`order_client.py:357` returns the first entry of the symbol);
the backoff of the retries and the `exchange_info` cache; H8; funding rate and open
interest, which no decision reads; trading sessions (`is_in_session` has no caller that
decides); partial `--baseline-*` overrides; Sharpe, Sortino, profit factor and the
text of the reports; the `analyze_*` scripts; of the audit log all but the four
events about positions given up; leap years; a kill-switch file of another schema
version; content and rotation of logs; TradingView templates; shell scripts.

Hazards seen and left out of the list, because another entry stands for them: an
exception in `get_order` that ends the tick before the later records are polled
(`order_manager.py:236`, modelled by `QueryFails`); an SL that triggers between a TP's
failure and the rollback (`order_manager.py:298`, its cancel is refused and the
alarm is in the log); `next_open` beyond stop or target (`position_manager.py:185`); the stop
that is checked on the bar of the fill itself (`harness.py:208`, modelled in
`Harness`); orders and positions read by separate calls (`reconcile.py:43`, modelled in `Verdict`).
