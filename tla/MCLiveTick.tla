----------------------------- MODULE MCLiveTick -----------------------------
(* Instance of LiveTick: an H4 bar is two M15 bars, a day two H4 bars.     *)
EXTENDS LiveTick

CONSTANTS btc, eth

SymbolsVal  == <<btc, eth>>
SpanVal     == [M15 |-> 1, H4 |-> 2, D1 |-> 4]
Setting(testnet, live, env) == [testnet |-> testnet, live |-> live, env |-> env]
DefaultVal  == {Setting(TRUE, FALSE, FALSE)}
=============================================================================
