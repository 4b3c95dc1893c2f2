------------------------------ MODULE Harness ------------------------------
(***************************************************************************)
(* The backtest: the bar loop of backtest/harness.py with the position     *)
(* rules of backtest/position_manager.py and the account gates of          *)
(* smc_engine/risk_guard.py.                                               *)
(*                                                                         *)
(* A bar is any opening, low and high price with low <= open <= high; the  *)
(* setups, and whether a bar gives one that passes the gates that look at  *)
(* the market, are free.  Prices are whole ticks and sizes whole lots.     *)
(* Spread with slippage costs Slip ticks a fill and the commission Comm    *)
(* ticks a lot and round trip (percentages of the price in the code).      *)
(* The equity is not kept: the drawdown is whether max_drawdown_pct has    *)
(* been reached, which any bar after the first fill may be the one to do.  *)
(***************************************************************************)
EXTENDS Integers, Sequences, FiniteSets

CONSTANTS
    Prices,      \* the price levels a bar may touch
    Setups,      \* what setup_builder.build may return, with a stop that
                 \* passes risk_guard's no_sl gate
    N,           \* bound: the number of M15 bars
    Lots,        \* position_size
    TpLots,      \* position_size times tp_weights, in lots
    Slip, Comm,  \* costs
    MaxLosses,   \* config.max_consecutive_losses
    LimitBars,   \* config.limit_retest_bars
    FillModels   \* the values of config.fill_model to explore

Targets == 1..Len(TpLots)

Setup == [side : {1, -1}, entry : Int, sl : Int, tp : [Targets -> Int]]

\* The stop is behind the entry and the targets are ahead of it, each
\* farther than the one before.
WellShaped(s) ==
    /\ s.side * s.sl < s.side * s.entry
    /\ \A k \in Targets : s.side * s.tp[k] > s.side * s.entry
    /\ \A j, k \in Targets : j < k => s.side * s.tp[j] < s.side * s.tp[k]

ASSUME SizeAssumption  == N \in Nat /\ Lots \in Nat \ {0} /\ TpLots \in Seq(Nat)
                          /\ TpLots # << >>
ASSUME CostAssumption  == Slip \in Nat /\ Comm \in Nat
ASSUME LimitAssumption == MaxLosses \in Nat /\ LimitBars \in Nat
ASSUME ModelAssumption == FillModels \subseteq {"next_open", "limit_retest"}
ASSUME PriceAssumption == Prices \subseteq Int
ASSUME SetupAssumption == Setups \subseteq Setup /\ \A s \in Setups : WellShaped(s)

VARIABLES
    fillModel,  \* config.fill_model, fixed for the run
    i,          \* the index of the bar, from 1; 0 before the first
    bar,        \* its prices
    pc,         \* the step of the loop's body
    k,          \* the target position_manager.update looks at
    pos,        \* the open position
    pending,    \* the validated setup that waits for its fill
    results,    \* recent_results: the sign of each trade's r_multiple
    losses,     \* consecutive_losses
    drawdown,   \* max_dd_pct >= config.max_drawdown_pct
    sold,       \* history: lots of the latest position in its trades
    last        \* history: the trade closed last on this bar

account == <<results, losses, sold, last>>
vars == <<fillModel, i, bar, pc, k, pos, pending, results, losses, drawdown,
          sold, last>>

Bars == {b \in [open : Prices, low : Prices, high : Prices] :
            b.low <= b.open /\ b.open <= b.high}

Position == [side : {1, -1}, entry : Int, sl : Int, stop : Int,
             tp : [Targets -> Int], left : 0..Lots, hits : SUBSET Targets,
             opened : 1..N]

NoBar     == [none |-> TRUE]
NoPos     == [side |-> 0]
NoPending == [created |-> 0]
NoTrade   == [r |-> 0, reason |-> "none"]

Init ==
    /\ fillModel \in FillModels
    /\ i = 0 /\ bar = NoBar /\ pc = "top" /\ k = 1
    /\ pos = NoPos /\ pending = NoPending
    /\ results = << >> /\ losses = 0 /\ drawdown = FALSE
    /\ sold = Lots /\ last = NoTrade

-----------------------------------------------------------------------------
(* position_manager                                                        *)

\* The extreme of the bar that is worst, or best, for a side.
Worst(side) == IF side = 1 THEN bar.low ELSE bar.high
Best(side)  == IF side = 1 THEN bar.high ELSE bar.low

Reaches(side, price) == side * Best(side) >= side * price
FallsTo(side, price) == side * Worst(side) <= side * price

OpenPosition(p, price) ==
    [side |-> p.setup.side, entry |-> price + p.setup.side * Slip,
     sl |-> p.setup.sl, stop |-> p.setup.sl, tp |-> p.setup.tp,
     left |-> Lots, hits |-> {}, opened |-> i]

(* Mutant: the exit's slippage is in the trader's favour.                  *)
NetFlattered(price) == pos.side * (price - pos.entry) + Slip - Comm

\* What a lot sold at the price brings, after costs.
Net(price) == pos.side * (price - pos.entry) - Slip - Comm

\* The sign of r_multiple; a zero denominator makes it 0.
RSign(price, size) ==
    IF pos.entry = pos.sl \/ size = 0 \/ Net(price) = 0 THEN 0
    ELSE IF Net(price) < 0 THEN -1 ELSE 1

(* Mutant: an even trade ends the streak as well.                          *)
StreakOverEven(r) == IF r < 0 THEN losses + 1 ELSE 0

\* consecutive_losses after a trade.
Streak(r) == IF r < 0 THEN losses + 1 ELSE IF r > 0 THEN 0 ELSE losses

\* _make_trade, and what run does with each trade that update returns.
Book(price, size, reason) ==
    LET r == RSign(price, size)
    IN  /\ results' = Append(results, r)
        /\ losses' = Streak(r)
        /\ sold' = sold + size
        /\ last' = [r |-> r, reason |-> reason]

\* After update the loop goes on to step 2 of its body, or to step 3 when
\* the update was that of a position filled on this bar.
AfterUpdate == IF pos.opened = i THEN "seek" ELSE "resolve"

\* The stop is looked at first and takes all that is left.
StopOut ==
    /\ pc = "update" /\ FallsTo(pos.side, pos.stop)
    /\ Book(pos.stop, pos.left,
            IF pos.hits # {} /\ pos.stop = pos.entry THEN "BREAKEVEN" ELSE "SL")
    /\ pos' = NoPos
    /\ pc' = AfterUpdate
    /\ UNCHANGED <<fillModel, i, bar, k, pending, drawdown>>

StopHolds ==
    /\ pc = "update" /\ ~FallsTo(pos.side, pos.stop)
    /\ pc' = "targets" /\ k' = 1
    /\ UNCHANGED <<fillModel, i, bar, pos, pending, drawdown, account>>

(* Mutant: the last target takes no more than its own weight.              *)
SliceByWeight == IF TpLots[k] > pos.left THEN pos.left ELSE TpLots[k]

\* The last target takes the rest.
Slice ==
    IF k = Len(TpLots) \/ TpLots[k] > pos.left THEN pos.left ELSE TpLots[k]

Hit == k \notin pos.hits /\ Reaches(pos.side, pos.tp[k])

(* Mutant: remaining_size is not reduced.                                  *)
TakeProfitTwice ==
    /\ pc = "targets" /\ k \in Targets /\ Hit
    /\ Book(pos.tp[k], Slice, "TP")
    /\ pos' = [pos EXCEPT !.hits = @ \cup {k},
                          !.stop = IF k = 1 THEN pos.entry ELSE @]
    /\ k' = k + 1
    /\ UNCHANGED <<fillModel, i, bar, pc, pending, drawdown>>

TakeProfit ==
    /\ pc = "targets" /\ k \in Targets /\ Hit
    /\ Book(pos.tp[k], Slice, "TP")
    /\ pos' = [pos EXCEPT !.left = @ - Slice,
                          !.hits = @ \cup {k},
                          !.stop = IF k = 1 THEN pos.entry ELSE @]
    /\ k' = k + 1
    /\ UNCHANGED <<fillModel, i, bar, pc, pending, drawdown>>

SkipTarget ==
    /\ pc = "targets" /\ k \in Targets /\ ~Hit
    /\ k' = k + 1
    /\ UNCHANGED <<fillModel, i, bar, pc, pos, pending, drawdown, account>>

EndUpdate ==
    /\ pc = "targets" /\ k \notin Targets
    /\ pos' = IF pos.left = 0 \/ pos.hits = Targets THEN NoPos ELSE pos
    /\ pc' = AfterUpdate
    /\ k' = 1
    /\ UNCHANGED <<fillModel, i, bar, pending, drawdown, account>>

-----------------------------------------------------------------------------
(* harness.run                                                             *)

NextBar ==
    /\ pc = "top" /\ i < N
    /\ i' = i + 1
    /\ bar' \in Bars
    /\ pc' = IF pos # NoPos THEN "update" ELSE "resolve"
    /\ last' = NoTrade
    /\ UNCHANGED <<fillModel, k, pos, pending, drawdown, results, losses, sold>>

Age == i - pending.created

Waiting == pc = "resolve" /\ pos = NoPos /\ pending # NoPending

InWindow == IF fillModel = "next_open" THEN Age = 1 ELSE Age \in 1..LimitBars

\* next_open takes the open, limit_retest waits for the entry price.
Fillable ==
    /\ InWindow
    /\ fillModel = "limit_retest" =>
            FallsTo(pending.setup.side, pending.setup.entry)

FillPrice == IF fillModel = "next_open" THEN bar.open ELSE pending.setup.entry

\* A fill opens the position, and goes on to update it with the same bar.
Fill ==
    /\ Waiting /\ Fillable
    /\ pos' = OpenPosition(pending, FillPrice)
    /\ pending' = NoPending
    /\ sold' = 0
    /\ pc' = "update"
    /\ UNCHANGED <<fillModel, i, bar, k, drawdown, results, losses, last>>

\* An old limit order expires, one bar after its last chance to be filled.
NotFilled ==
    /\ Waiting /\ ~Fillable
    /\ pending' = IF fillModel = "limit_retest" /\ Age > LimitBars
                  THEN NoPending ELSE pending
    /\ pc' = "seek"
    /\ UNCHANGED <<fillModel, i, bar, k, pos, drawdown, account>>

NothingPending ==
    /\ pc = "resolve" /\ (pos # NoPos \/ pending = NoPending)
    /\ pc' = "seek"
    /\ UNCHANGED <<fillModel, i, bar, k, pos, pending, drawdown, account>>

(* Mutant: the breaker trips one loss late.                                *)
BreakerLate == losses > MaxLosses \/ drawdown

\* risk_guard's drawdown breaker; its averaging gate is given
\* open_position = False.
Breaker == losses >= MaxLosses \/ drawdown

(* Mutant: the drawdown is not looked at.                                  *)
ValidateLosses(s) == s \in Setups /\ losses < MaxLosses

Validate(s) == s \in Setups /\ ~Breaker

(* Mutant: a setup is looked for while a position is open.                 *)
SeekWhileOpen ==
    /\ pc = "seek" /\ pending = NoPending
    /\ \E s \in Setups : Validate(s) /\ pending' = [setup |-> s, created |-> i]
    /\ pc' = "mark"
    /\ UNCHANGED <<fillModel, i, bar, k, pos, drawdown, account>>

Seek ==
    /\ pc = "seek" /\ pos = NoPos /\ pending = NoPending
    /\ \E s \in Setups : Validate(s) /\ pending' = [setup |-> s, created |-> i]
    /\ pc' = "mark"
    /\ UNCHANGED <<fillModel, i, bar, k, pos, drawdown, account>>

\* There is a position or a signal already, or no setup, or a gate refuses it.
SeekNothing ==
    /\ pc = "seek"
    /\ pc' = "mark"
    /\ UNCHANGED <<fillModel, i, bar, k, pos, pending, drawdown, account>>

\* Step 4: the equity falls only once something was bought.
MarkToMarket ==
    /\ pc = "mark"
    /\ drawdown' \in IF pos # NoPos \/ results # << >> THEN {drawdown, TRUE}
                     ELSE {drawdown}
    /\ bar' = NoBar
    /\ pc' = "top"
    /\ UNCHANGED <<fillModel, i, k, pos, pending, account>>

Next ==
    \/ NextBar
    \/ StopOut \/ StopHolds
    \/ TakeProfit \/ SkipTarget \/ EndUpdate
    \/ Fill \/ NotFilled \/ NothingPending
    \/ Seek \/ SeekNothing
    \/ MarkToMarket

Spec == Init /\ [][Next]_vars

-----------------------------------------------------------------------------
(* Properties                                                              *)

(* Every variable keeps its type.                                          *)
TypeOK ==
    /\ fillModel \in FillModels
    /\ i \in 0..N
    /\ bar \in Bars \cup {NoBar}
    /\ pc \in {"top", "update", "targets", "resolve", "seek", "mark"}
    /\ k \in 1..Len(TpLots) + 1
    /\ pos \in Position \cup {NoPos}
    /\ pending \in [setup : Setups, created : 1..N] \cup {NoPending}
    /\ results \in Seq({-1, 0, 1})
    /\ losses \in Nat
    /\ drawdown \in BOOLEAN
    /\ sold \in 0..Lots
    /\ last \in [r : {-1, 0, 1}, reason : {"none", "SL", "BREAKEVEN", "TP"}]

\* The losing trades that no winning one has followed.
LossesSinceWin ==
    {j \in 1..Len(results) :
        results[j] < 0 /\ \A m \in j..Len(results) : results[m] <= 0}

(* The counter the breaker reads is the number of losing trades since the  *)
(* last winning one, whichever of the two copies of the counting code in   *)
(* run counted them; a trade that is exactly even changes nothing.         *)
StreakIsTrue == losses = Cardinality(LossesSinceWin)

\* Bars that may end before a signal is filled or has expired.
Patience == IF fillModel = "next_open" THEN 0 ELSE LimitBars

(* No signal waits for ever: a next_open signal is resolved on the very    *)
(* next bar, and a limit order within its window and one bar.  next_open   *)
(* tests for that one bar and has no expiry, so a signal that met it with  *)
(* a position open would block every later entry of the backtest.          *)
SignalIsResolved ==
    pc = "top" /\ pending # NoPending => Age <= Patience

\* Every target is farther from its entry than the costs of a round trip.
CostsAreSmall ==
    \A s \in Setups : \A t \in Targets :
        s.side * (s.tp[t] - s.entry) > 2 * Slip + Comm

(* With limit orders the reason of an exit tells its result: a stop loses, *)
(* a target farther than the costs does not, and a breakeven exit brings   *)
(* minus the costs of the exit: a loss for the breaker if there are any.   *)
ReasonTellsResult ==
    fillModel = "limit_retest" =>
        /\ last.reason = "SL" => last.r < 0
        /\ last.reason = "BREAKEVEN" => last.r = IF Slip + Comm > 0 THEN -1 ELSE 0
        /\ last.reason = "TP" /\ CostsAreSmall => last.r >= 0

(* With limit orders and small costs the breaker is never overshot: a      *)
(* position adds one loss at most to a streak that was short of the limit, *)
(* however many parts it was sold in.                                      *)
StreakBounded ==
    fillModel = "limit_retest" /\ CostsAreSmall => losses <= MaxLosses

\* The breaker has fired with nothing open and nothing pending.
Stopped == Breaker /\ pos = NoPos /\ pending = NoPending

(* Once that is so the rest of the backtest never trades again: a counter  *)
(* that only moves when a trade closes re-arms nothing.                    *)
BreakerIsFinal == [][Stopped => Stopped']_vars

\* The state of the loop's head comment; a position whose last lot was sold
\* is gone already, though update has yet to return None for it.
Phase == IF pos # NoPos /\ pos.left > 0 THEN "open"
         ELSE IF pending # NoPending THEN "pending" ELSE "none"

Cycle == INSTANCE TradeCycle WITH phase <- Phase

(* The loop is the three-state cycle its head comment promises, and a      *)
(* position is gone exactly when its trades add up to its size.            *)
CycleSpec == Cycle!Spec
=============================================================================
