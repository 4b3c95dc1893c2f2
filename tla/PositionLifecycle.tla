------------------------- MODULE PositionLifecycle -------------------------
(***************************************************************************)
(* What PositionTracker promises about one record: the state machine of    *)
(* smc_engine/execution/position_tracker.py.  A mutation whose source      *)
(* state is wrong raises IllegalStateTransition (or ValueError for a       *)
(* second add) and changes nothing, so here it is simply not enabled.      *)
(* "NONE" is an order id the tracker has never been given.                 *)
(***************************************************************************)
CONSTANT OrderId          \* the ids the exchange hands out

VARIABLE state            \* OrderId -> PositionState

Closed == {"CLOSED_WIN", "CLOSED_LOSS", "CLOSED_MANUAL", "CLOSED_DRIFT"}

Terminal == Closed \cup {"ABORTED"}

PositionState == {"NONE", "PENDING", "ACTIVE"} \cup Terminal

Init == state = [i \in OrderId |-> "NONE"]

Transition(i, from, to) ==
    /\ state[i] = from
    /\ state' = [state EXCEPT ![i] = to]

Add(i)           == Transition(i, "NONE", "PENDING")
OnFill(i)        == Transition(i, "PENDING", "ACTIVE")
OnTimeout(i)     == Transition(i, "PENDING", "ABORTED")
OnReject(i)      == Transition(i, "PENDING", "ABORTED")
OnTpHit(i)       == Transition(i, "ACTIVE", "CLOSED_WIN")
OnSlHit(i)       == Transition(i, "ACTIVE", "CLOSED_LOSS")
OnManualClose(i) == Transition(i, "ACTIVE", "CLOSED_MANUAL")
OnDrift(i)       == Transition(i, "ACTIVE", "CLOSED_DRIFT")

Next == \E i \in OrderId :
    \/ Add(i)
    \/ OnFill(i)
    \/ OnTimeout(i)
    \/ OnReject(i)
    \/ OnTpHit(i)
    \/ OnSlHit(i)
    \/ OnManualClose(i)
    \/ OnDrift(i)

Spec == Init /\ [][Next]_state
=============================================================================
