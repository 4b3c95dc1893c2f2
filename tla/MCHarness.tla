----------------------------- MODULE MCHarness -----------------------------
(* Model-checking instance of Harness: a long and a short setup on a grid  *)
(* of price levels that lie below, on, between and above their levels.     *)
EXTENDS Harness

MCPrices == {2, 3, 6, 9, 12, 15, 16}

Long  == [side |-> 1,  entry |-> 6,  sl |-> 3,  tp |-> <<9, 12, 15>>]
Short == [side |-> -1, entry |-> 12, sl |-> 15, tp |-> <<9, 6, 3>>]

MCSetups == {Long, Short}
MCTpLots == <<2, 1, 1>>
MCModels == {"next_open", "limit_retest"}
=============================================================================
