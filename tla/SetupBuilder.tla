---------------------------- MODULE SetupBuilder ----------------------------
(***************************************************************************)
(* smc_engine/setup_builder.py: from a MarketPicture to one Setup or the   *)
(* reason there is none.  Factors and scores are kept per mille; prices of *)
(* a setup are exact: entry in the unit of the bars, the stop in           *)
(* thousandths of it, targets in hundred-thousandths.                      *)
(***************************************************************************)
EXTENDS Analysis

CONSTANTS
    KindQuality,      \* poi_kind_quality, per mille
    StatusFactor,     \* zone_status_factor, per mille
    OteLow, OteHigh,  \* ote_low, ote_high, per mille
    ClusterTolerance, \* cluster_tolerance_pct, per mille
    Weights,          \* confluence_weights, percent, in the factors' order
    MinScore,         \* confluence_min_score, per mille
    SlBandBuffer,     \* sl_band_buffer_mult, per mille
    SlAbsBuffer,      \* sl_abs_buffer_pct, per mille
    SlMinAtr,         \* sl_min_atr_multiple, tenths
    TpMultiples       \* tp_r_multiples, hundredths

ASSUME BuilderAssumption == /\ SlBandBuffer \in Nat /\ SlAbsBuffer \in Nat
                            /\ KindQuality \in [{"ZONE", "LEVEL", "IMBALANCE"} -> Nat]
                            /\ StatusFactor \in
                                 [{"FRESH", "TESTED", "MITIGATED", "BROKEN"} -> Nat]
                            /\ ClusterTolerance \in Nat /\ MinScore \in Nat
                            /\ Weights \in Seq(Nat) /\ Len(Weights) = 6
                            /\ TpMultiples \in Seq(Nat \ {0}) /\ TpMultiples # <<>>

PriceUnit == 1000      \* of a stop
TpUnit    == 100000    \* of a target

-----------------------------------------------------------------------------
(* Confluence factors of the candidate p, each in 0..1000 *)

Clamp(x) == Max({0, Min({1000, x})})

FactorPoiQuality(p) ==
    Clamp(IF p.class = "ZONE" THEN (KindQuality["ZONE"] * StatusFactor[p.status]) \div 1000
                              ELSE KindQuality[p.class])

(* How deep the middle of p lies in the half of the range its side wants.  *)
FactorPremiumDiscount(p, side, range) ==
    LET span  == range.high - range.low
        above == p.lo + p.hi - 2 * range.low      \* 2 * span * frac
        depth == Min({1000, (1000 * IF side = "LONG" THEN span - above
                                                     ELSE above - span) \div span})
    IN IF range = NoRange \/ depth < 0         THEN 0
       ELSE IF OteLow <= depth /\ depth <= OteHigh THEN 1000
       ELSE Clamp(600 + (2 * depth) \div 5)

(* A price, doubled, within max(width, |mid| * tolerance) of the band of p.*)
NearBand(p, twice) ==
    LET tol == Max({2000 * (p.hi - p.lo), (p.lo + p.hi) * ClusterTolerance})
    IN 1000 * (2 * p.lo - twice) <= tol /\ 1000 * (twice - 2 * p.hi) <= tol

FactorLiquidity(p, side, h4) ==
    LET hits == {e \in h4.events : e.side = side /\ NearBand(p, 2 * e.price)}
        Strength(e) == ((IF e.high THEN 1000 ELSE 600) * (IF Reclaimed(e) THEN 10 ELSE 7)) \div 10
    IN Max({0} \cup {Strength(e) : e \in hits})

SameLevel(x, p) == p.class = "LEVEL" /\ x.kind = p.kind /\ x.at = p.at

(* A level of D1 is never the H4 level p itself.                           *)
FactorLevel(p, h4, d1) ==
    IF \/ \E x \in h4.levels : ~SameLevel(x, p) /\ NearBand(p, 2 * x.lo)
       \/ \E x \in d1.levels : NearBand(p, 2 * x.lo)
    THEN 1000 ELSE 0

FactorImbalance(p, side, h4) ==
    Max({0} \cup {1000 - (1000 * m.fill) \div (m.hi - m.lo) :
        m \in {x \in h4.imbalances : x.side = side /\ NearBand(p, x.lo + x.hi)}})

FactorClustering(p, pois, h4) ==
    LET mid == p.lo + p.hi
        Close(x) == 1000 * Distance(x.lo + x.hi, mid) <= mid * ClusterTolerance
        count == Cardinality({x \in pois \ {p} : Close(x)})
                 + Cardinality({x \in h4.levels : ~SameLevel(x, p) /\ Close(x)})
    IN IF count = 0 THEN 0 ELSE IF count = 1 THEN 600 ELSE 1000

Factors(p, side, picture) ==
    << FactorPoiQuality(p),
       FactorPremiumDiscount(p, side, picture.range),
       FactorLiquidity(p, side, picture.h4),
       FactorLevel(p, picture.h4, picture.d1),
       FactorImbalance(p, side, picture.h4),
       FactorClustering(p, picture.pois, picture.h4) >>

Score(factors) ==
    Clamp(SumFunction([i \in 1..6 |-> Weights[i] * factors[i]]) \div 100)

(* Mutant: the positions are counted from 0.                               *)
ShiftedFactors == {2, 3, 4, 5}

IndependentFactors == {3, 4, 5, 6}

FactorCount(factors) == Cardinality({i \in IndependentFactors : factors[i] > 0})

-----------------------------------------------------------------------------
(* Entry, stop and targets *)

Entry(p, side) == IF side = "LONG" THEN p.hi ELSE p.lo

SlBuffer(p, side) ==
    Max({SlBandBuffer * (p.hi - p.lo), SlAbsBuffer * Entry(p, side)})

(* Mutant: the buffer is put on the profit side of a short.                *)
SlAlwaysBelow(p, side) == PriceUnit * p.lo - SlBuffer(p, side)

StructuralSl(p, side) ==
    IF side = "LONG" THEN PriceUnit * p.lo - SlBuffer(p, side)
                     ELSE PriceUnit * p.hi + SlBuffer(p, side)

SlDistance(p, side) == Distance(PriceUnit * Entry(p, side), StructuralSl(p, side))

TpLadder(p, side) ==
    [k \in DOMAIN TpMultiples |->
        IF side = "LONG" THEN TpUnit * Entry(p, side) + TpMultiples[k] * SlDistance(p, side)
                         ELSE TpUnit * Entry(p, side) - TpMultiples[k] * SlDistance(p, side)]

(* _compute_rr, in hundredths                                              *)
ComputeRr(entry, dist, tp1, side) ==
    (IF side = "LONG" THEN tp1 - TpUnit * entry ELSE TpUnit * entry - tp1) \div dist

TooTight(dist, atr) == atr.sum > 0 /\ 10 * dist * atr.n < PriceUnit * SlMinAtr * atr.sum

-----------------------------------------------------------------------------
(* build_with_diagnostics *)

NoTime == -1

(* _bind_confirmation: the first break of the M15 snapshot in that         *)
(* direction, the oldest one it holds.                                     *)
BindConfirmation(m15, side) ==
    LET breaks == {b \in m15.structure : b.side = side}
    IN IF breaks = {} THEN NoTime ELSE Min({b.at : b \in breaks})

NoRank == -1

(* atr_percentile, in percent; none before half a window of history.       *)
AtrPercentile(h4) ==
    LET n == Len(h4.history)
        below == {i \in 1..n : h4.history[i].sum * h4.atr.n <= h4.atr.sum * h4.history[i].n}
    IN IF n = 0 \/ n < AtrWindow \div 2 THEN NoRank
       ELSE (100 * Cardinality(below)) \div n

Direction(bias) == IF bias = "BULLISH" THEN "LONG" ELSE "SHORT"

(* candidates: the zones and imbalances of that side, and every level.     *)
CandidatePois(picture, side) == {p \in picture.pois : p.side \in {side, "ANY"}}

(* The order of the candidate list: zones, then imbalances, then levels.   *)
ClassRank == [ZONE |-> 1, IMBALANCE |-> 2, LEVEL |-> 3]

PoiBefore(p, q) ==
    \/ ClassRank[p.class] < ClassRank[q.class]
    \/ p.class = q.class /\ p.at < q.at
    \/ p.class = "LEVEL" /\ q.class = "LEVEL" /\ LevelBefore(p, q)

(* Highest score, ties to the first in list order.                         *)
BestPoi(pois, score) ==
    LET top == {p \in pois : \A q \in pois : score[q] <= score[p]}
    IN CHOOSE p \in top : \A q \in top : ~PoiBefore(q, p)

NoSetup(reason) == [ok |-> FALSE, reason |-> reason]

MakeSetup(p, side, picture, score, factors) ==
    LET tp == TpLadder(p, side)
    IN [ok |-> TRUE, side |-> side, entry |-> Entry(p, side), sl |-> StructuralSl(p, side),
        dist |-> SlDistance(p, side), tp |-> tp, poi |-> p,
        confirmation |-> BindConfirmation(picture.m15, side),
        bias |-> picture.bias, score |-> score, factors |-> FactorCount(factors),
        rr |-> ComputeRr(Entry(p, side), SlDistance(p, side), tp[1], side),
        percentile |-> AtrPercentile(picture.h4), at |-> picture.at]

Build(picture) ==
    LET side    == Direction(picture.bias)
        pois    == CandidatePois(picture, side)
        factors == [p \in pois |-> Factors(p, side, picture)]
        score   == [p \in pois |-> Score(factors[p])]
        best    == BestPoi(pois, score)
        dist    == SlDistance(best, side)
    IN IF picture.bias = "NEUTRAL"            THEN NoSetup("NO_HTF_BIAS")
       ELSE IF pois = {}                      THEN NoSetup("NO_POI")
       ELSE IF score[best] < MinScore         THEN NoSetup("LOW_CONFLUENCE")
       ELSE IF TooTight(dist, picture.h4.atr) THEN NoSetup("SL_GEOMETRY_TOO_TIGHT")
       ELSE IF dist <= 0                      THEN NoSetup("SL_GEOMETRY_INVALID")
       ELSE MakeSetup(best, side, picture, score[best], factors[best])

=============================================================================
