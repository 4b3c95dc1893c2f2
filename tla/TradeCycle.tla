----------------------------- MODULE TradeCycle -----------------------------
(***************************************************************************)
(* What the bar-replay backtest promises of one trade: the three-state     *)
(* loop in the head comment of backtest/harness.py.  There is no position, *)
(* then a signal waits for its fill, then a position is open, and the only *)
(* way out of an open position is to sell the whole of it, in parts.       *)
(***************************************************************************)
EXTENDS Integers

CONSTANT Lots             \* the size of a position

VARIABLES
    phase,    \* "none", "pending" or "open"
    sold      \* lots of the latest position that a Trade has closed

Init == phase = "none" /\ sold = Lots

Signal == phase = "none" /\ phase' = "pending" /\ UNCHANGED sold
Expire == phase = "pending" /\ phase' = "none" /\ UNCHANGED sold
Fill   == phase = "pending" /\ phase' = "open" /\ sold' = 0

Sell(n) ==
    /\ phase = "open"
    /\ sold + n <= Lots
    /\ sold' = sold + n
    /\ phase' = IF sold' = Lots THEN "none" ELSE "open"

Next == Signal \/ Expire \/ Fill \/ \E n \in 1..Lots : Sell(n)

Spec == Init /\ [][Next]_<<phase, sold>>
=============================================================================
