----------------------------- MODULE MCResearch -----------------------------
(* Instance of Research: three combinations, two of the production value,   *)
(* on eight bars, and walk-forward windows that overlap.                   *)
EXTENDS Research, TLC

CONSTANTS w1, w2

GridVal == <<"low", "prod", "prod">>

Interchangeable == Permutations({w1, w2})

(* R multiples bar by bar: a good, a better and a losing combination, one  *)
(* that fades out of sample, one without trades, and one that raises.      *)
Good    == <<1, 0, -1, 2, 0, 1, -1, 1>>
Better2 == <<2, -1, 0, 2, 1, 0, 2, -1>>
Losing  == <<-1, 0, 1, -1, 0, 0, -1, 0>>
Fading  == <<2, 2, 2, 0, -1, -1, 0, -1>>
Quiet   == <<0, 0, 0, 0, 0, 0, 0, 0>>

HistoriesVal == {Good, Better2, Losing, Fading, Quiet, Raises}

BaselinesVal ==
    {NoBaseline,
     [given |-> TRUE, metrics |-> [expectancy |-> 0, count |-> 3, drawdown |-> [num |-> 1, den |-> 2]]]}
=============================================================================
