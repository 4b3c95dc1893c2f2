------------------------------- MODULE Bars -------------------------------
(***************************************************************************)
(* Candles.  A frame is a sequence of bars in time order, the DataFrame of *)
(* one time frame; a bar is stamped with its OPEN time, counted in M15     *)
(* bars.  Prices are positive integers.                                    *)
(***************************************************************************)
EXTENDS Tables, SequencesExt

CONSTANTS
    Span,       \* TF_MINUTES: length of a bar of each time frame, in M15 bars
    Lookback    \* TF_LOOKBACK: how many bars of each time frame are analysed

ASSUME SpanAssumption == /\ {"M15", "H4", "D1"} \subseteq DOMAIN Span
                         /\ \A tf \in DOMAIN Span : Span[tf] \in Nat \ {0}
                         /\ Lookback \in [DOMAIN Span -> Nat \ {0}]
                         /\ Span["M15"] = 1 /\ Span["D1"] % Span["H4"] = 0

Bar(t, o, h, l, c) == [t |-> t, o |-> o, h |-> h, l |-> l, c |-> c]

(* Candles as the exchange makes them, and series of them.                 *)
Candles ==
    {b \in [t : Nat, o : Nat, h : Nat, l : Nat \ {0}, c : Nat] :
        b.l <= b.o /\ b.o <= b.h /\ b.l <= b.c /\ b.c <= b.h}

InOrder(frame) == \A i, j \in DOMAIN frame : i < j => frame[i].t < frame[j].t

LastT(frame) == frame[Len(frame)].t
Price(frame) == frame[Len(frame)].c

Distance(x, y) == IF x > y THEN x - y ELSE y - x

(* The elements of the finite set S in the strict total order Before.      *)
Ordered(S, Before(_, _)) ==
    [k \in 1..Cardinality(S) |->
        CHOOSE x \in S : Cardinality({y \in S : Before(y, x)}) = k - 1]

(* resample_ohlcv: label="left", closed="left"; an empty period has no row.*)
Stamp(t, tf) == (t \div Span[tf]) * Span[tf]

(* The bars that open a period, and the row of the period bar i lies in.   *)
Openings(frame, tf) ==
    {i \in DOMAIN frame : i = 1 \/ Stamp(frame[i - 1].t, tf) # Stamp(frame[i].t, tf)}

PeriodOf(frame, tf, i) ==
    {j \in DOMAIN frame : Stamp(frame[j].t, tf) = Stamp(frame[i].t, tf)}

RowOf(frame, tf, i) ==
    LET rows == PeriodOf(frame, tf, i)
    IN Bar(Stamp(frame[i].t, tf), frame[i].o, Max({frame[j].h : j \in rows}),
           Min({frame[j].l : j \in rows}), frame[Max(rows)].c)

Resample(frame, tf) ==
    LET firsts == Kept([i \in DOMAIN frame |-> i], Openings(frame, tf))
    IN [k \in DOMAIN firsts |-> RowOf(frame, tf, firsts[k])]

(* klines_to_dataframe: rows whose close_time is after now are dropped.    *)
ClosedBars(frame, tf, now) ==
    Kept(frame, {i \in DOMAIN frame : frame[i].t + Span[tf] <= now})

(* _slice_to_at_bar: index <= at_bar, then the last lookback_bars(tf).     *)
SliceToAtBar(frame, tf, atBar) ==
    LET known == Kept(frame, {i \in DOMAIN frame : frame[i].t <= atBar})
        n     == Len(known)
    IN IF n > Lookback[tf] THEN SubSeq(known, n - Lookback[tf] + 1, n) ELSE known

TrueRange(frame, i) ==
    LET b == frame[i]
    IN IF i = 1 THEN b.h - b.l
       ELSE Max({b.h - b.l, Distance(b.h, frame[i - 1].c),
                            Distance(b.l, frame[i - 1].c)})

(* atr_series at bar i, as the rational sum / n of its rolling window.     *)
AtrAt(frame, period, i) ==
    LET window == Max({1, i - period + 1})..i
    IN [sum |-> SumFunction([j \in window |-> TrueRange(frame, j)]),
        n   |-> Cardinality(window)]

NoAtr == [sum |-> 0, n |-> 1]

Atr(frame, period) ==
    IF Len(frame) < 2 THEN NoAtr ELSE AtrAt(frame, period, Len(frame))

=============================================================================
