-------------------------- MODULE MCTradingService --------------------------
(* Model-checking instance of TradingService. *)
EXTENDS TradingService

LongOnly   == {1}
ErrorsAndDisk == {"error", "disk"}
NoFaults   == {}
=============================================================================
