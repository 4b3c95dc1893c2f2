------------------------------- MODULE Replay -------------------------------
(***************************************************************************)
(* The analysis stack bar by bar: a new M15 bar closes, the caller cuts    *)
(* its frames, analyze runs on them with the caller's cache, build makes a *)
(* setup of the picture and validate gates it.                             *)
(*   Live      the runner: native candles of every time frame, the ones    *)
(*             still forming dropped when they are fetched.                *)
(*   ~Live     the backtest harness: the HTF frames are resampled from the *)
(*             whole series before the replay starts; `Ahead` bars of it   *)
(*             lie after the bar being replayed.                           *)
(* The market is free to make any of Moves after any of Histories.         *)
(***************************************************************************)
EXTENDS RiskGuard

CONSTANTS
    Live,         \* which of the two callers
    Ahead,        \* bars of the series after the replayed one; 0 when Live
    Histories,    \* the series a replay may start with
    Moves,        \* how the next bar may move, see NextBar
    MaxSteps,     \* bound: bars a replay adds to its history
    Accounts,     \* the account states validate may be given
    Margin        \* available_margin

ASSUME ReplayAssumption == /\ Live \in BOOLEAN /\ Ahead \in Nat /\ (Live => Ahead = 0)
                           /\ \A s \in Histories : /\ s \in Seq(Candles) /\ InOrder(s)
                                                  /\ Len(s) > Ahead
                           /\ \A m \in Moves : m.d \in Int /\ m.u \in Nat /\ m.w \in Nat

VARIABLES
    series,       \* the M15 bars of the market, the last Ahead not yet replayed
    cache,        \* HTF cache of the caller
    picture,      \* the last MarketPicture
    setup,        \* build's result on it
    verdict       \* validate's answer, or why it was not asked

vars == <<series, cache, picture, setup, verdict>>

-----------------------------------------------------------------------------
(* A bar opens at the last close, closes d away, with wicks u and w.       *)
NextBar(s, m) ==
    LET o == Price(s)
        c == o + m.d
    IN Bar(LastT(s) + 1, o, Max({o, c}) + m.u, Min({o, c}) - m.w, c)

(* Prices stay positive.                                                   *)
LastLow(s) == s[Len(s)].l

Replayed(s) == SubSeq(s, 1, Len(s) - Ahead)

(* The frames handed to analyze, and the bars of them it looks at.         *)
HtfFrame(s, tf) == IF Live THEN ClosedBars(Resample(s, tf), tf, LastT(s) + 1)
                           ELSE Resample(s, tf)

Frames(s) ==
    LET atBar == LastT(Replayed(s))
    IN [tf \in {"M15", "H4", "D1"} |->
           SliceToAtBar(IF tf = "M15" THEN s ELSE HtfFrame(s, tf), tf, atBar)]

NoCache == [k \in {} |-> EmptySnapshot]

Answer(s, account) == IF s.ok THEN Validate(s, account) ELSE s.reason

(* One bar of the replay: the cursor stands at the end of Replayed(s).     *)
Built(result, setupMade, account) ==
    [cache |-> result.cache, picture |-> result.picture, setup |-> setupMade,
     verdict |-> Answer(setupMade, account)]

Observed(s, c, account) ==
    LET With(result) == Built(result, Build(result.picture), account)
    IN With(Analyze(Frames(s), c))

Init ==
    \E s \in Histories, account \in Accounts :
        \E seen \in {Observed(s, NoCache, account)} :
           /\ series = s
           /\ cache = seen.cache
           /\ picture = seen.picture
           /\ setup = seen.setup
           /\ verdict = seen.verdict

NextM15 ==
    \E m \in Moves, account \in Accounts :
        LET s == Append(series, NextBar(series, m))
        IN /\ LastLow(s) > 0
           /\ \E h \in Histories : IsPrefix(h, s) /\ Len(s) <= Len(h) + MaxSteps
           /\ \E seen \in {Observed(s, cache, account)} :
                /\ series' = s
                /\ cache' = seen.cache
                /\ picture' = seen.picture
                /\ setup' = seen.setup
                /\ verdict' = seen.verdict

Next == NextM15

Spec == Init /\ [][Next]_vars

-----------------------------------------------------------------------------
(* Properties *)

(* analyze with the cache gives the picture it would give without one,     *)
(* although entries were made by earlier calls on shorter series           *)
(* (orchestrator: the cache only spares repeated computation).             *)
CacheTransparent == picture = Analyze(Frames(series), NoCache).picture

(* Only closed bars are analysed (orchestrator's module comment and        *)
(* _slice_to_at_bar): no bar of any time frame ends after the close of the *)
(* replayed M15 bar.                                                       *)
ClosedBarsOnly ==
    LET frames == Frames(series)
    IN \A tf \in {"M15", "H4", "D1"} : \A b \in ToSet(frames[tf]) :
        b.t + Span[tf] <= picture.at + 1

M15 == Frames(series)["M15"]
H4  == Frames(series)["H4"]

(* The window of a time frame still starts where it did.                   *)
Anchored(frame, next) == frame # <<>> /\ next[1].t = frame[1].t

(* Until the window slides, a structure break is final: none disappears or *)
(* changes its kind, and a new one is confirmed by the new bar.  (When the *)
(* window slides the swing it broke may leave it and the scan's trend      *)
(* starts over: kinds may change then.)                                    *)
BreaksAreFinal ==
    [][Anchored(M15, M15') =>
          LET old == Structure(M15)
              new == Structure(M15')
          IN old \subseteq new /\ \A b \in new \ old : b.at = LastT(M15')]_vars

(* The swings whose liquidity bar i of a frame takes.                      *)
SwingsTaken(frame, i) ==
    LET highs == [s \in SwingHighs(frame) |-> frame[s].h]
        lows  == [s \in SwingLows(frame) |-> frame[s].l]
    IN [above |-> TakenAbove(frame[i], Reachable(highs, {}, <<>>, i)),
        below |-> TakenBelow(frame[i], Reachable(lows, {}, <<>>, i))]

(* liquidity_detector filters swings by their own time stamp and not by    *)
(* confirm_timestamp, so a swing is put before bars that could not know it.*)
(* Still no bar is given other swings to take once the swing is confirmed: *)
(* until the window slides, what a bar took is what it took.               *)
SwingSweepsAreFinal ==
    [][Anchored(M15, M15') =>
          \A i \in DOMAIN M15 : SwingsTaken(M15', i) = SwingsTaken(M15, i)]_vars

(* An imbalance found once is found again, as long as the window stands,   *)
(* unless the ATR of the last bar, which sets the threshold for all of     *)
(* them, has grown.                                                        *)
ImbalanceGoneOnlyByAtr ==
    [][Anchored(M15, M15') =>
          \/ LET next == Imbalances(M15')
             IN \A m \in Imbalances(M15) : \E n \in next :
                  n.at = m.at /\ n.side = m.side /\ n.lo = m.lo /\ n.hi = m.hi
          \/ LET a == Atr(M15, DetectorAtr)
                 b == Atr(M15', DetectorAtr)
             IN b.sum * a.n > a.sum * b.n]_vars

(* The first bar of a picture's H4 window: its yearly open.                *)
WindowStart(p) == {x.at : x \in {y \in p.h4.levels : y.kind = "YO"}}

(* As long as the H4 window starts where it did, a point of interest only  *)
(* gets older: its fill never shrinks, its age never drops and a mitigated *)
(* zone is not fresh again.  (A window that slides forgets bars.)          *)
PoisOnlyAge ==
    [][WindowStart(picture') = WindowStart(picture) =>
        /\ \A m \in picture.h4.imbalances, n \in picture'.h4.imbalances :
              n.at = m.at /\ n.side = m.side => n.fill >= m.fill
        /\ \A y \in picture.h4.zones, z \in picture'.h4.zones :
              z.at = y.at => z.age >= y.age /\ (y.status = "MITIGATED" => z.status = y.status)]_vars

(* A setup trades with the bias, stops strictly on the losing side of its  *)
(* entry and outside the POI, takes profit on the other side in order, and *)
(* its R:R is the first multiple: the regime, no_sl and (when that multiple*)
(* reaches min_rr) min_rr gates cannot reject what the builder makes.      *)
SetupSound ==
    setup.ok =>
      LET dir == IF setup.side = "LONG" THEN 1 ELSE -1
      IN /\ setup.side = Direction(setup.bias)
         /\ dir * (PriceUnit * setup.entry - setup.sl) > 0
         /\ setup.sl \notin PriceUnit * setup.poi.lo..PriceUnit * setup.poi.hi
         /\ setup.entry \in setup.poi.lo..setup.poi.hi
         /\ \A k \in DOMAIN setup.tp : dir * (setup.tp[k] - TpUnit * setup.entry) > 0
         /\ setup.rr = TpMultiples[1]
         /\ verdict \notin {"regime", "no_sl"} \cup
                           IF TpMultiples[1] >= MinRr THEN {"min_rr"} ELSE {}

(* A position sized for the setup loses at most the risk budget, and one   *)
(* tick per lot, when the prices go out on the exchange's grid: sizing     *)
(* uses the exact prices, place_order quantizes them.                      *)
RiskWithinTick ==
    setup.ok =>
      LET size == CalcPositionSize(setup.entry, setup.dist, Margin).lots * LotSize
          moved == Distance(Quantize(PriceUnit * setup.entry, TickSize),
                            Quantize(setup.sl, TickSize))
      IN size * moved <= RiskDollar * PriceUnit + size * TickSize

(* The yearly, monthly, weekly and daily opens of the window's first H4 bar*)
(* are one price: each confirms the others, so the gate on independent     *)
(* confluence factors (two by default) never rejects such a level.         *)
FirstOpensConfirmThemselves ==
    LET first == H4[1].t
    IN \A p \in picture.pois :
        p.class = "LEVEL" /\ p.kind \in {"YO", "MO", "WO", "DO"} /\ p.at = first
        => FactorCount(Factors(p, "LONG", picture)) >= 2

=============================================================================
