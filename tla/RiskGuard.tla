------------------------------ MODULE RiskGuard -----------------------------
(***************************************************************************)
(* smc_engine/risk_guard.py and execution/position_sizing.py: the gates a  *)
(* setup has to pass, in their order, the size of the position the order   *)
(* manager asks for, and the price grid the order client puts it on.       *)
(***************************************************************************)
EXTENDS SetupBuilder

CONSTANTS
    MinFactors,       \* min_confluence_factors
    MinRr,            \* min_rr, hundredths
    MaxLosses,        \* max_consecutive_losses
    MaxDrawdown,      \* max_drawdown_pct, percent
    AssetClass,       \* asset_class
    FundingBuffer,    \* funding_buffer_minutes
    M15Minutes,       \* minutes of one M15 bar: 1440 \div Span["D1"] makes a day
    RegimeFilter,     \* atr_regime_filter_enabled
    RegimeThreshold,  \* atr_percentile_threshold, percent
    TickSize,         \* SymbolMeta.tick_size, thousandths of the price unit
    LotSize,          \* SymbolMeta.lot_size
    RiskDollar,       \* execution_risk_per_trade_dollar
    MinNotional,      \* SymbolMeta.min_notional
    Leverage          \* execution_leverage

ASSUME GuardAssumption == /\ TickSize \in Nat \ {0} /\ LotSize \in Nat \ {0}
                          /\ RiskDollar \in Nat /\ Leverage \in Nat \ {0} /\ MinRr \in Nat
                          /\ M15Minutes * Span["D1"] = 1440

-----------------------------------------------------------------------------
(* Gates: each says whether it rejects *)

MinuteOfDay(t) == (t % Span["D1"]) * M15Minutes

FundingHours == {0, 8, 16}

(* time_utils.is_near_funding, around midnight as well                     *)
NearFunding(t) ==
    \E hour \in FundingHours, wrap \in {-1440, 0, 1440} :
        Distance(MinuteOfDay(t), 60 * hour + wrap) <= FundingBuffer

IsWeekend(t) == Weekday(t) >= 5

WrongRegime(s) == s.bias # IF s.side = "LONG" THEN "BULLISH" ELSE "BEARISH"

BadStop(s) ==
    \/ s.side = "LONG"  /\ s.sl >= PriceUnit * s.entry
    \/ s.side = "SHORT" /\ s.sl <= PriceUnit * s.entry

Breaker(account) == account.losses >= MaxLosses \/ account.drawdown >= MaxDrawdown

HighVolatility(s) == RegimeFilter /\ s.percentile # NoRank /\ s.percentile > RegimeThreshold

GateOrder == << "confluence", "regime", "deviation", "no_sl", "min_rr", "averaging",
                "drawdown_breaker", "session", "funding", "volatility_regime" >>

Rejects(gate, s, account) ==
    CASE gate = "confluence"        -> s.factors < MinFactors
      [] gate = "regime"            -> WrongRegime(s)
      [] gate = "deviation"         -> s.confirmation = NoTime
      [] gate = "no_sl"             -> BadStop(s)
      [] gate = "min_rr"            -> s.rr < MinRr
      [] gate = "averaging"         -> account.open
      [] gate = "drawdown_breaker"  -> Breaker(account)
      [] gate = "session"           -> AssetClass = "forex" /\ IsWeekend(s.at)
      [] gate = "funding"           -> AssetClass = "crypto" /\ NearFunding(s.at)
      [] gate = "volatility_regime" -> HighVolatility(s)

Passed == "validated"

(* validate: the first gate that rejects, or Passed.                       *)
Validate(s, account) ==
    LET failing == {i \in DOMAIN GateOrder : Rejects(GateOrder[i], s, account)}
    IN IF failing = {} THEN Passed ELSE GateOrder[Min(failing)]

-----------------------------------------------------------------------------
(* Sizing, and the price grid of the exchange *)

(* Mutant: the lots are rounded up.                                        *)
LotsRoundedUp(risk, dist) == (risk * PriceUnit + dist * LotSize - 1) \div (dist * LotSize)

(* Whole lots the risk budget buys, at a stop distance in thousandths.     *)
Lots(risk, dist) == (risk * PriceUnit) \div (dist * LotSize)

(* calc_position_size: lots, or 0 with the exception that stops the entry. *)
CalcPositionSize(entry, dist, margin) ==
    LET lots     == Lots(RiskDollar, dist)
        notional == lots * LotSize * entry
    IN IF dist = 0 THEN [lots |-> 0, error |-> "InvalidStopLoss"]
       ELSE IF notional < MinNotional THEN [lots |-> 0, error |-> "OrderSizeBelowMinimum"]
       ELSE IF 100 * notional > 80 * margin * Leverage
            THEN [lots |-> 0, error |-> "InsufficientMargin"]
       ELSE [lots |-> lots, error |-> "none"]

(* quantize_to_tick: to the nearest tick, a tie towards zero (prices > 0). *)
Quantize(price, tick) ==
    LET n == price \div tick
        r == price % tick
    IN IF 2 * r > tick THEN (n + 1) * tick ELSE n * tick

=============================================================================
