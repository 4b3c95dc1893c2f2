--------------------------- MODULE MCOrderManager ---------------------------
(* Model-checking instance of OrderManager: the values its configurations  *)
(* give to the constants.                                                  *)
EXTENDS OrderManager

LongOnly  == {1}

NoFaults   == {}
ApiFaults  == {"error", "expire", "manual"}
CallFaults == {"error", "escape", "lost"}
=============================================================================
