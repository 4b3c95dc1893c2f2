----------------------------- MODULE Analysis ------------------------------
(***************************************************************************)
(* smc_engine/orchestrator.py: the cascade D1 -> H4 -> M15 that turns the  *)
(* frames of one symbol into a MarketPicture.  It keeps no state of its    *)
(* own; the caller's `cache` is a function from (time frame, last time     *)
(* stamp) to the snapshot computed for it.  Left out: H8, a second middle  *)
(* time frame treated like H4 that only backtests supply, and score_hint   *)
(* and htf_aligned, which only the log shows.                              *)
(***************************************************************************)
EXTENDS Detectors

CONSTANTS
    AtrPeriod,        \* atr_period
    AtrWindow,        \* atr_percentile_window
    UseEma,           \* bias_use_d1_ema_trend
    EmaPeriod,        \* bias_d1_ema_period
    MaxZoneAge        \* max_zone_age_bars

ASSUME AnalysisAssumption == /\ AtrPeriod \in Nat \ {0} /\ AtrWindow \in Nat \ {0}
                             /\ UseEma \in BOOLEAN /\ EmaPeriod \in Nat \ {0}
                             /\ MaxZoneAge \in Nat

-----------------------------------------------------------------------------
(* _bias_from_snapshot *)

(* ewm(span, adjust=False) with alpha = 2/(span+1), times (span+1)^(n-1).  *)
Ema(frame, span) ==
    LET ema[i \in 1..Len(frame)] ==
          IF i = 1 THEN frame[1].c
          ELSE (span - 1) * ema[i - 1] + 2 * frame[i].c * (span + 1)^(i - 2)
    IN ema[Len(frame)]

BelowEma(frame) ==
    Price(frame) * (EmaPeriod + 1)^(Len(frame) - 1) < Ema(frame, EmaPeriod)

CloseTrend(frame) ==
    LET change == 1000 * (Price(frame) - frame[1].c)
    IN IF change > 5 * frame[1].c THEN "BULLISH"
       ELSE IF change < -5 * frame[1].c THEN "BEARISH" ELSE "NEUTRAL"

BiasOf(frame, breaks, tf) ==
    IF UseEma /\ tf = "D1" /\ Len(frame) >= EmaPeriod
       THEN IF BelowEma(frame) THEN "BEARISH" ELSE "BULLISH"
    ELSE IF breaks # {}
       THEN IF LastBreakSide(breaks) = "LONG" THEN "BULLISH" ELSE "BEARISH"
    ELSE IF Len(frame) >= 2 THEN CloseTrend(frame) ELSE "NEUTRAL"

-----------------------------------------------------------------------------
(* _run_all_detectors *)

EmptySnapshot ==
    [range |-> NoRange, bias |-> "NEUTRAL", zones |-> {}, imbalances |-> {},
     levels |-> {}, events |-> {}, structure |-> {}, atr |-> NoAtr, history |-> <<>>]

RangeLevels(range) == IF range = NoRange THEN <<>> ELSE <<range.high, range.low>>

AtrHistory(frame) ==
    LET n == Len(frame)
        first == Max({1, n - AtrWindow + 1})
    IN [i \in 1..n - first + 1 |-> AtrAt(frame, AtrPeriod, first + i - 1)]

Snapshot(frame, tf, knownLevels) ==
    LET range  == DominantRange(frame)
        breaks == Structure(frame)
        levels == Levels(frame)
        known  == knownLevels \o RangeLevels(range) \o LevelPrices(levels)
    IN [range      |-> range,
        bias       |-> BiasOf(frame, breaks, tf),
        zones      |-> Zones(frame),
        imbalances |-> Imbalances(frame),
        levels     |-> levels,
        events     |-> Liquidity(frame, known),
        structure  |-> breaks,
        atr        |-> Atr(frame, AtrPeriod),
        history    |-> IF tf = "H4" /\ Len(frame) >= 2 THEN AtrHistory(frame) ELSE <<>>]

-----------------------------------------------------------------------------
(* _cached_or_run *)

(* Mutant: the key forgets the time stamp.                                 *)
KeyOfFrame(tf, frame) == <<tf, 0>>

CacheKey(tf, frame) == <<tf, LastT(frame)>>

CachedOrRun(cache, tf, frame, known) ==
    LET key == CacheKey(tf, frame)
    IN IF key \in DOMAIN cache THEN cache[key] ELSE Snapshot(frame, tf, known)

-----------------------------------------------------------------------------
(* Enrichment of a (possibly cached) snapshot by the frame it was run on.  *)

PositionOf(frame, t) == {i \in DOMAIN frame : frame[i].t = t}

EnrichZone(z, frame) ==
    IF PositionOf(frame, z.at) = {} THEN z
    ELSE LET age == Len(frame) - Max(PositionOf(frame, z.at))
         IN [z EXCEPT !.age = age,
                      !.status = IF @ = "FRESH" /\ age > MaxZoneAge THEN "MITIGATED" ELSE @]

Depths(imb, frame, later) ==
    {IF imb.side = "LONG" THEN imb.hi - frame[j].l ELSE frame[j].h - imb.lo : j \in later}

(* Mutant: only the last bar counts.                                       *)
FillByLastBar(imb, frame) ==
    [imb EXCEPT !.fill = Max({0, Min({imb.hi - imb.lo,
        IF imb.side = "LONG" THEN imb.hi - Price(frame) ELSE Price(frame) - imb.lo})})]

(* fill_ratio, as the filled depth of the band.                            *)
EnrichImbalance(imb, frame) ==
    LET at     == PositionOf(frame, imb.at)
        later  == Max(at) + 1..Len(frame)
        deepest == Max({0} \cup Depths(imb, frame, later))
    IN IF at = {} THEN imb ELSE [imb EXCEPT !.fill = Min({deepest, imb.hi - imb.lo})]

Enriched(s, frame) ==
    [s EXCEPT !.zones = {EnrichZone(z, frame) : z \in @},
              !.imbalances = {EnrichImbalance(m, frame) : m \in @}]

-----------------------------------------------------------------------------
(* Points of interest *)

SideOfBias(bias) == CASE bias = "BULLISH" -> {"LONG"}
                      [] bias = "BEARISH" -> {"SHORT"}
                      [] OTHER            -> {"LONG", "SHORT"}

(* _filter_pois_by_bias; no detector or enrichment makes a zone BROKEN.    *)
FilterPois(s, bias) ==
    {p \in s.zones \cup s.imbalances : p.side \in SideOfBias(bias)} \cup s.levels

(* _price_near_poi: half the band's width, or 0.5% of the price.           *)
PriceNear(price, p) ==
    LET buffer == Max({500 * (p.hi - p.lo), 5 * price})
    IN 1000 * p.lo - buffer <= 1000 * price /\ 1000 * price <= 1000 * p.hi + buffer

-----------------------------------------------------------------------------
(* analyze: frames maps a time frame to its sliced DataFrame, M15 is never *)
(* empty.  The result carries the picture and the cache after the call.    *)

HtfSnapshot(frames, cache) ==
    IF frames["D1"] = <<>> THEN EmptySnapshot
    ELSE CachedOrRun(cache, "D1", frames["D1"], <<>>)

HtfKnownLevels(d1) == RangeLevels(d1.range) \o LevelPrices(d1.levels)

MtfSnapshot(frames, cache, d1) ==
    IF frames["H4"] = <<>> THEN EmptySnapshot
    ELSE CachedOrRun(cache, "H4", frames["H4"], HtfKnownLevels(d1))

Nearby(frames, pois) == {p \in pois : PriceNear(Price(frames["M15"]), p)}

(* The M15 detectors run only when the price is near a point of interest.  *)
LtfSnapshot(frames, cache, d1, nearby) ==
    IF nearby = {} THEN EmptySnapshot
    ELSE CachedOrRun(cache, "M15", frames["M15"], HtfKnownLevels(d1))

Completed(frames, cache, d1, h4, h4rich, nearby, m15) ==
    LET ran  == {tf \in {"D1", "H4"} : frames[tf] # <<>>}
                \cup (IF nearby = {} THEN {} ELSE {"M15"})
        snap == [D1 |-> d1, H4 |-> h4, M15 |-> m15]
        keys == {CacheKey(tf, frames[tf]) : tf \in ran} \ DOMAIN cache
    IN [picture |-> [d1 |-> Enriched(d1, frames["D1"]), h4 |-> h4rich, m15 |-> m15,
                     bias |-> d1.bias, range |-> d1.range, pois |-> nearby,
                     at |-> LastT(frames["M15"]), price |-> Price(frames["M15"])],
        cache   |-> [k \in keys \cup DOMAIN cache |->
                        IF k \in keys THEN snap[k[1]] ELSE cache[k]]]

(* The three layers, each with what the one before it found.               *)
LtfLayer(frames, cache, d1, h4, h4rich, nearby) ==
    Completed(frames, cache, d1, h4, h4rich, nearby,
              LtfSnapshot(frames, cache, d1, nearby))

PoiLayer(frames, cache, d1, h4, h4rich) ==
    LtfLayer(frames, cache, d1, h4, h4rich,
             Nearby(frames, FilterPois(h4rich, d1.bias)))

MtfLayer(frames, cache, d1, h4) ==
    PoiLayer(frames, cache, d1, h4, Enriched(h4, frames["H4"]))

HtfLayer(frames, cache, d1) == MtfLayer(frames, cache, d1, MtfSnapshot(frames, cache, d1))

Analyze(frames, cache) == HtfLayer(frames, cache, HtfSnapshot(frames, cache))

=============================================================================
