----------------------------- MODULE Detectors -----------------------------
(***************************************************************************)
(* smc_engine/detectors: pure functions from a frame to what they find in  *)
(* it.  A swing is the position of its bar; zones, imbalances, levels and  *)
(* liquidity events carry the time stamp the code gives them, so that the  *)
(* results on two frames can be compared.  Ratios of the configuration are *)
(* integers: in tenths (ATR multiples, body threshold) or per mille.       *)
(***************************************************************************)
EXTENDS Bars

CONSTANTS
    SwingLookback,     \* swing_lookback
    ObBreakout,        \* ob_breakout_threshold, tenths
    FvgMinGap,         \* fvg_min_gap_atr, tenths
    LiqVoidGap,        \* liq_void_gap_atr, tenths
    InefficiencyGap,   \* inefficiency_gap_atr, tenths
    EqualTolerance,    \* equal_level_tolerance, per mille
    DetectorAtr,       \* ATR_DEFAULT_PERIOD
    ZoneAnchor,        \* zone_anchor, "BODY" unless configured
    FirstWeekday,      \* calendar: weekday of day 0, 0 is Monday
    SundayOpenHour,    \* calendar: 21:00 of a day, in M15 bars after midnight
    MonthDays,         \* calendar: days in a month
    YearDays           \* calendar: days in a year

ASSUME DetectorAssumption ==
    /\ SwingLookback \in Nat \ {0} /\ DetectorAtr \in Nat \ {0} /\ FvgMinGap \in Nat
    /\ ZoneAnchor \in {"BODY", "WICK"} /\ FirstWeekday \in 0..6

Body(b) == Distance(b.c, b.o)
Up(b)   == b.c > b.o
Down(b) == b.c < b.o

-----------------------------------------------------------------------------
(* find_swings *)

Candidates(frame) == SwingLookback + 1 .. Len(frame) - SwingLookback

SwingHighs(frame) ==
    {i \in Candidates(frame) : \A k \in 1..SwingLookback :
        frame[i].h > frame[i - k].h /\ frame[i].h > frame[i + k].h}

SwingLows(frame) ==
    {i \in Candidates(frame) : \A k \in 1..SwingLookback :
        frame[i].l < frame[i - k].l /\ frame[i].l < frame[i + k].l}

(* confirm_timestamp: the bar at which a replay can know the swing.        *)
ConfirmedBy(swings, i) == {s \in swings : s + SwingLookback <= i}

(* Mutant: the time of the confirmation is not looked at.                  *)
EverySwing(swings, i) == swings

(* structure_detector _is_known: confirm_timestamp <= ts                   *)
KnownBy(swings, i) == ConfirmedBy(swings, i)

-----------------------------------------------------------------------------
(* cluster_by_price: in price order, a gap above the tolerance starts a    *)
(* new cluster.  at[p] is the price of point p.                            *)

Clusters(points, at) ==
    LET Gap(p) == \A q \in points :
                      at[q] > at[p] => 1000 * (at[q] - at[p]) > EqualTolerance * at[p]
        Joined(p, q) == \A r \in points :
                      (at[p] <= at[r] /\ at[r] < at[q]) => ~Gap(r)
    IN {{q \in points : Joined(p, q) /\ Joined(q, p)} : p \in points}

-----------------------------------------------------------------------------
(* structure_detector *)

PriorTrend(frame, highs, lows) ==
    LET Prev(S) == Max(S \ {Max(S)})
    IN IF Cardinality(lows) >= 2 /\ frame[Max(lows)].l > frame[Prev(lows)].l
          THEN "BULLISH"
       ELSE IF Cardinality(highs) >= 2 /\ frame[Max(highs)].h < frame[Prev(highs)].h
          THEN "BEARISH" ELSE "NEUTRAL"

(* The most recent known swing, unless it is not after the last broken one.*)
ActiveSwing(known, lastBroken) ==
    IF known # {} /\ Max(known) > lastBroken THEN Max(known) ELSE 0

BreakKind(trend, prior, against) ==
    IF trend = against \/ (trend = "NEUTRAL" /\ prior = against) THEN "CHoCH" ELSE "BOS"

(* detect: the state of the scan, and what bar i makes of it.              *)
ScanStart == [trend |-> "NEUTRAL", high |-> 0, low |-> 0, breaks |-> {}]

ScanStep(frame, highs, lows, i, s) ==
    LET kh    == KnownBy(highs, i)
        kl    == KnownBy(lows, i)
        high  == ActiveSwing(kh, s.high)
        low   == ActiveSwing(kl, s.low)
        prior == PriorTrend(frame, kh, kl)
        up    == high # 0 /\ frame[i].c > frame[high].h
        down  == low # 0 /\ frame[i].c < frame[low].l
        mid   == IF up THEN "BULLISH" ELSE s.trend
        Break(side, swing, price, kind) ==
           [at |-> frame[i].t, side |-> side, price |-> price,
            swing |-> frame[swing].t, kind |-> kind]
    IN [trend  |-> IF down THEN "BEARISH" ELSE mid,
        high   |-> IF up THEN high ELSE s.high,
        low    |-> IF down THEN low ELSE s.low,
        breaks |-> s.breaks
          \cup (IF up THEN {Break("LONG", high, frame[high].h,
                              BreakKind(s.trend, prior, "BEARISH"))} ELSE {})
          \cup (IF down THEN {Break("SHORT", low, frame[low].l,
                              BreakKind(mid, prior, "BULLISH"))} ELSE {})]

Scan(frame) ==
    LET highs == SwingHighs(frame)
        lows  == SwingLows(frame)
        scan[i \in 0..Len(frame)] ==
          IF i = 0 THEN ScanStart ELSE ScanStep(frame, highs, lows, i, scan[i - 1])
    IN scan[Len(frame)]

Structure(frame) == Scan(frame).breaks

(* structure[-1]: a SHORT break of the same bar is appended after a LONG.  *)
LastBreakSide(breaks) ==
    LET last == Max({b.at : b \in breaks})
    IN IF \E b \in breaks : b.at = last /\ b.side = "SHORT" THEN "SHORT" ELSE "LONG"

-----------------------------------------------------------------------------
(* zone_detector *)

ZoneAt(kind, b) ==
    [class  |-> "ZONE", kind |-> kind, at |-> b.t,
     side   |-> IF kind = "DEMAND" THEN "LONG" ELSE "SHORT",
     hi     |-> IF ZoneAnchor = "WICK" THEN b.h ELSE Max({b.o, b.c}),
     lo     |-> IF ZoneAnchor = "WICK" THEN b.l ELSE Min({b.o, b.c}),
     status |-> "FRESH", age |-> 0]

(* An order block and the breakout bar after it.                           *)
OrderBlock(frame, i) ==
    /\ frame[i].h > frame[i].l
    /\ 10 * Body(frame[i + 1]) >= ObBreakout * (frame[i].h - frame[i].l)
    /\ \/ Down(frame[i]) /\ Up(frame[i + 1]) /\ i \in SwingLows(frame)
       \/ Up(frame[i]) /\ Down(frame[i + 1]) /\ i \in SwingHighs(frame)

Indecision(frame, i) ==
    /\ \/ Up(frame[i - 1]) /\ Down(frame[i]) /\ Up(frame[i + 1])
       \/ Down(frame[i - 1]) /\ Up(frame[i]) /\ Down(frame[i + 1])
    /\ Body(frame[i]) < Body(frame[i - 1])

Zones(frame) ==
    LET blocks == {i \in 1..Len(frame) - 1 : OrderBlock(frame, i)}
        small  == {i \in 2..Len(frame) - 1 : i \notin blocks /\ Indecision(frame, i)}
        Kind(i) == IF Down(frame[i]) THEN "DEMAND" ELSE "SUPPLY"
    IN {ZoneAt(Kind(i), frame[i]) : i \in blocks \cup small}

-----------------------------------------------------------------------------
(* imbalance_detector: the ATR is the one of the last bar of the frame.    *)

GapKind(gap, atr) ==
    LET AtLeast(tenths) == tenths * atr.sum > 0 /\ 10 * gap * atr.n >= tenths * atr.sum
    IN IF AtLeast(InefficiencyGap) THEN "INEFFICIENCY"
       ELSE IF AtLeast(LiqVoidGap) THEN "LIQ_VOID" ELSE "FVG"

(* Mutant: only the newest three bars are examined.                        *)
NewestTriple(frame) == {Len(frame) - 2} \ {0, -1, -2}

Triples(frame) == 1..Len(frame) - 2

Imbalances(frame) ==
    LET atr == Atr(frame, DetectorAtr)
        Gap(i, side, lo, hi) ==
            IF lo < hi /\ 10 * (hi - lo) * atr.n > FvgMinGap * atr.sum
            THEN {[class |-> "IMBALANCE", kind |-> GapKind(hi - lo, atr),
                   side |-> side, at |-> frame[i + 1].t, lo |-> lo, hi |-> hi,
                   fill |-> 0]}
            ELSE {}
    IN UNION {Gap(i, "LONG", frame[i].h, frame[i + 2].l)
              \cup Gap(i, "SHORT", frame[i + 2].h, frame[i].l) : i \in Triples(frame)}

-----------------------------------------------------------------------------
(* range_detector *)

NoRange == [high |-> 0, low |-> 0, formed |-> -1]

DominantRange(frame) ==
    LET Highs == [i \in SwingHighs(frame) |-> frame[i].h]
        Lows  == [i \in SwingLows(frame) |-> frame[i].l]
        Big(clusters) == {c \in clusters : Cardinality(c) >= 2}
        pairs == Big(Clusters(DOMAIN Highs, Highs)) \X Big(Clusters(DOMAIN Lows, Lows))
        Cand(p) == [high   |-> Max({Highs[i] : i \in p[1]}),
                    low    |-> Min({Lows[i] : i \in p[2]}),
                    formed |-> frame[Max(p[1] \cup p[2])].t]
        cands == {r \in {Cand(p) : p \in pairs} : r.high > r.low}
        \* wider first, then later formed, then the first in price order
        Better(r, q) == LET w == (r.high - r.low) - (q.high - q.low)
                        IN \/ w > 0
                           \/ w = 0 /\ r.formed > q.formed
                           \/ w = 0 /\ r.formed = q.formed /\ r.high <= q.high
    IN IF cands = {} THEN NoRange
       ELSE CHOOSE r \in cands : \A q \in cands : Better(r, q)

-----------------------------------------------------------------------------
(* level_detector and the calendar of time_utils *)

DayOf(t)     == t \div Span["D1"]
Weekday(t)   == (DayOf(t) + FirstWeekday) % 7
MonthOf(t)   == DayOf(t) \div MonthDays
YearOf(t)    == DayOf(t) \div YearDays

(* A week has the number its Thursday gives it, but the key of a Monday has*)
(* the year of that day: the last Monday of a year may have the key of its *)
(* first.                                                                  *)
IsoWeek(t)   == ((DayOf(t) - Weekday(t) + 3) % YearDays) \div 7
CalendarWeek(t) == <<YearOf(t), IsoWeek(t)>>

WeekOpen(t) ==
    LET day    == DayOf(t) * Span["D1"]
        sunday == day - ((Weekday(t) - 6) % 7) * Span["D1"] + SundayOpenHour
    IN IF sunday > t THEN sunday - 7 * Span["D1"] ELSE sunday

NoEnd == -1

RawLevels(frame) ==
    LET N == DOMAIN frame
        Level(kind, price, i) == [kind |-> kind, price |-> price, from |-> frame[i].t]
        Turns(Key(_)) == {i \in N : i = 1 \/ Key(frame[i].t) # Key(frame[i - 1].t)}
        Opens(kind, S) == {Level(kind, frame[i].o, i) : i \in S}
        Previous(kind, S) ==
            {Level(kind, frame[Max({j \in S : j < i})].o, i) : i \in S \ {1}}
        months  == Turns(MonthOf)
        weeks   == Turns(WeekOpen)
        mondays == {i \in N : Weekday(frame[i].t) = 0}
        Group(i) == {j \in mondays : CalendarWeek(frame[j].t) = CalendarWeek(frame[i].t)}
        aths    == {i \in N : \A j \in 1..i - 1 : frame[j].h < frame[i].h}
    IN IF N = {} THEN {}
       ELSE Opens("YO", {1}) \cup Opens("MO", months) \cup Opens("DO", Turns(DayOf))
            \cup Opens("WO", weeks) \cup Previous("PMO", months) \cup Previous("PWO", weeks)
            \cup {Level("MONDAY_H", Max({frame[j].h : j \in Group(i)}), Min(Group(i))) :
                     i \in mondays}
            \cup {Level("MONDAY_L", Min({frame[j].l : j \in Group(i)}), Min(Group(i))) :
                     i \in mondays}
            \cup {Level("OLD_ATH", frame[i].h, i) : i \in aths}
            \cup {Level("PREV_ATH", frame[Max({j \in aths : j < i})].h, i) :
                     i \in aths \ {1}}

Later(raw, lv) == {x.from : x \in {y \in raw : y.kind = lv.kind /\ y.from > lv.from}}

(* _close_valid_windows *)
Levels(frame) ==
    LET raw == RawLevels(frame)
    IN {[class |-> "LEVEL", kind |-> lv.kind, side |-> "ANY", at |-> lv.from,
         lo |-> lv.price, hi |-> lv.price,
         until |-> LET later == Later(raw, lv)
                   IN IF later = {} THEN NoEnd ELSE Min(later)] : lv \in raw}

(* kind.value in string order                                              *)
KindRank == [DO |-> 1, MO |-> 2, MONDAY_H |-> 3, MONDAY_L |-> 4, OLD_ATH |-> 5,
             PMO |-> 6, PREV_ATH |-> 7, PWO |-> 8, WO |-> 9, YO |-> 10]

LevelBefore(x, y) ==
    x.at < y.at \/ (x.at = y.at /\ KindRank[x.kind] < KindRank[y.kind])

LevelPrices(levels) ==
    LET seq == Ordered(levels, LevelBefore) IN [i \in DOMAIN seq |-> seq[i].lo]

-----------------------------------------------------------------------------
(* liquidity_detector *)

DeviationLookahead == 3

(* Equal highs: clusters of local maxima; the level is formed at the second*)
(* touch and priced at the cluster's extreme.                              *)
EqualLevels(at, Beyond(_, _), Extreme(_)) ==
    LET pivots == {i \in 2..Cardinality(DOMAIN at) - 1 :
                      ~Beyond(at[i - 1], at[i]) /\ ~Beyond(at[i + 1], at[i])}
    IN {[price |-> Extreme({at[i] : i \in c}), formed |-> Min(c \ {Min(c)})] :
           c \in {d \in Clusters(pivots, at) : Cardinality(d) >= 2}}

EqualHighs(frame) ==
    EqualLevels([i \in DOMAIN frame |-> frame[i].h], LAMBDA x, y : x > y, Max)
EqualLows(frame) ==
    EqualLevels([i \in DOMAIN frame |-> frame[i].l], LAMBDA x, y : x < y, Min)

(* A bar's wick takes liquidity above (below) a level it closes back from. *)
TakenAbove(b, levels) == {p \in levels : b.h > p /\ b.c < p}
TakenBelow(b, levels) == {p \in levels : b.l < p /\ b.c > p}

(* Mutant: swings and equal levels of any time can be taken.               *)
ReachableEver(swingPrices, equals, known, i) ==
    {swingPrices[s] : s \in DOMAIN swingPrices}
    \cup {e.price : e \in equals} \cup ToSet(known)

(* The levels bar i can take: swings and equal levels before it, known ones.*)
Reachable(swingPrices, equals, known, i) ==
    {swingPrices[s] : s \in {j \in DOMAIN swingPrices : j < i}}
    \cup {e.price : e \in {x \in equals : x.formed < i}} \cup ToSet(known)

Liquidity(frame, known) ==
    LET sh == [i \in SwingHighs(frame) |-> frame[i].h]
        sl == [i \in SwingLows(frame) |-> frame[i].l]
        eh == EqualHighs(frame)
        el == EqualLows(frame)
        High(p) == \E q \in {e.price : e \in eh \cup el} \cup ToSet(known) :
                       1000 * Distance(p, q) <= EqualTolerance * q
        Event(kind, price, side, t, high) ==
            [kind |-> kind, price |-> price, side |-> side, at |-> t, high |-> high]
        Taken(side, price, i) ==
            {Event(kind, price, side, frame[i].t, High(price)) : kind \in {"SFP", "SWEEP"}}
        At(i) == LET above == TakenAbove(frame[i], Reachable(sh, eh, known, i))
                     below == TakenBelow(frame[i], Reachable(sl, el, known, i))
                 IN (IF above # {} THEN Taken("SHORT", Max(above), i) ELSE {})
                    \cup (IF below # {} THEN Taken("LONG", Min(below), i) ELSE {})
        \* bar i closes beyond known[k], and bar j is the first of the next
        \* three to close back; of two failures the scan reports the first
        Broke(i, k, side) ==
            LET b == frame[i]
            IN IF side = "SHORT" THEN b.c > known[k] /\ (b.o <= known[k] \/ b.l <= known[k])
                                 ELSE b.c < known[k] /\ (b.o >= known[k] \/ b.h >= known[k])
        Back(i, k, side) ==
            {j \in i + 1..Min({i + DeviationLookahead, Len(frame)}) :
                IF side = "SHORT" THEN frame[j].c < known[k] ELSE frame[j].c > known[k]}
        failures == {f \in (DOMAIN frame) \X (DOMAIN known) \X {"LONG", "SHORT"} :
                        Broke(f[1], f[2], f[3]) /\ Back(f[1], f[2], f[3]) # {}}
        ReturnBar(f) == Min(Back(f[1], f[2], f[3]))
        Earlier(f, g) == /\ f[3] = g[3] /\ ReturnBar(f) = ReturnBar(g)
                         /\ f[1] < g[1] \/ (f[1] = g[1] /\ f[2] < g[2])
        Deviations == {Event("DEVIATION", known[f[2]], f[3], frame[ReturnBar(f)].t, TRUE) :
                          f \in {g \in failures : \A e \in failures : ~Earlier(e, g)}}
    IN IF Len(frame) < 3 THEN {}
       ELSE Deviations \cup UNION {At(i) : i \in DOMAIN frame}

Reclaimed(event) == event.kind = "SFP"

=============================================================================
