---------------------------- MODULE OrderManager ----------------------------
(***************************************************************************)
(* One symbol's execution stack: OrderManager and its PositionTracker,     *)
(* driven by the tick of examples/run_live.py, against a Binance futures   *)
(* account in ONE_WAY position mode.                                       *)
(*                                                                         *)
(* The service is one thread.  `pc` is where it stands between two REST    *)
(* calls; the exchange moves freely between any two of its steps.  A REST  *)
(* call has up to three outcomes:                                          *)
(*   "ok"      the reply arrives;                                          *)
(*   "error"   BinanceOrderError, which most handlers catch;               *)
(*   "escape"  any other exception (requests' timeouts and connection      *)
(*             errors are not BinanceOrderErrors): nothing below the tick  *)
(*             or run_once catches it, so it ends the handler there.       *)
(* Prices, quantities in coin and money are abstracted: a setup has a side *)
(* and a size of Qty lots, and whether the mark price has passed, sizing   *)
(* fails or a metric fires is a free choice.                               *)
(***************************************************************************)
EXTENDS Integers, FiniteSets

CONSTANTS
    MaxOrders,   \* bound: the exchange accepts at most this many orders
    Qty,         \* lots per entry; above 1 an order can fill in parts
    Sides,       \* the directions a setup may have: 1 is BUY, -1 is SELL
    Cap,         \* execution_max_concurrent_positions; 0 switches it off
    Timeout,     \* execution_order_timeout_minutes, counted in M15 bars
    MarkGuard,   \* execution_pre_place_mark_guard
    Attempts,    \* most copies of one request that reach the exchange
    Faults       \* what the environment may do, a subset of FaultKind

FaultKind == {"error",    \* calls fail with BinanceOrderError
              "escape",   \* calls fail with another exception
              "lost",     \* a failed call may have taken effect
              "expire",   \* the exchange or the operator ends open orders
              "manual",   \* the operator closes the position by hand
              "disk"}     \* the kill switch's file cannot be written

ASSUME BoundsAssumption == MaxOrders \in Nat /\ Qty \in Nat \ {0}
                           /\ Timeout \in Nat /\ Attempts \in Nat \ {0}
ASSUME ConfigAssumption == Sides \subseteq {1, -1} /\ Cap \in Int
                           /\ MarkGuard \in BOOLEAN /\ Faults \subseteq FaultKind

VARIABLES
    orders,      \* exchange: order id -> order
    nextId,      \* exchange: the next order id
    net,         \* exchange: signed position of the symbol, in lots
    pos,         \* PositionTracker._positions: order id -> record
    killSwitch,  \* KillSwitch.is_triggered()
    counted,     \* records whose result reached check_after_trade
    pc,          \* where the service thread stands
    todo,        \* what the loop it is in still has to visit
    cur,         \* the record being handled
    slId,        \* _on_fill's sl_resp.order_id
    setup,       \* the side of the setup being processed
    tpFilled,    \* the TP status read by _on_position_close
    faulted,     \* history: a call that guards a position has failed
    audit        \* audit_log: how records were given up, as <<event, order id>>

exchange == <<orders, nextId, net>>
local    == <<cur, slId, setup, tpFilled>>
vars     == <<orders, nextId, net, pos, killSwitch, counted, pc, todo, cur,
              slId, setup, tpFilled, faulted, audit>>

OrderId == 1..MaxOrders
NoId    == 0
NetBound == 2 * MaxOrders * Qty    \* bound: reached only by repeated lost replies
BarLag  == 1     \* at_bar is the open time of the last closed bar

-----------------------------------------------------------------------------
(* Data *)

OrderKind   == {"NONE", "ENTRY", "SL", "TP"}
OrderStatus == {"NONE", "NEW", "PARTIALLY_FILLED", "FILLED", "CANCELED", "EXPIRED"}

Order == [kind : OrderKind, side : {-1, 0, 1}, status : OrderStatus,
          filled : 0..Qty, entry : OrderId \cup {NoId}]

NoOrder == [kind |-> "NONE", side |-> 0, status |-> "NONE", filled |-> 0, entry |-> NoId]

NewOrder(kind, side, entry) ==
    [NoOrder EXCEPT !.kind = kind, !.side = side, !.status = "NEW", !.entry = entry]

Closed   == {"CLOSED_WIN", "CLOSED_LOSS"}
Terminal == Closed \cup {"ABORTED"}

Record == [state : {"NONE", "PENDING", "ACTIVE"} \cup Terminal,
           sl : OrderId \cup {NoId}, tp : OrderId \cup {NoId}, age : 0..Timeout]

NoRecord == [state |-> "NONE", sl |-> NoId, tp |-> NoId, age |-> 0]

InState(tracker, s) == {i \in OrderId : tracker[i].state = s}

(* Mutants: aborted records are polled, closed records stay active.        *)
PendingOrAborted == InState(pos, "PENDING") \cup InState(pos, "ABORTED")
ActiveOrClosed == InState(pos, "ACTIVE") \cup {i \in OrderId : pos[i].state \in Closed}

Pending == InState(pos, "PENDING")
Active  == InState(pos, "ACTIVE")

Open(o) == orders[o].status \in {"NEW", "PARTIALLY_FILLED"}

Filled(o) == orders[o].status = "FILLED"

IsFirst(i) == i \in todo /\ \A j \in todo : i <= j     \* dict order is id order

(* ORDER_ROLLBACK stands for the event with emergency_close_placed=True.   *)
Alarm      == {"ORDER_CANCEL_FAILED", "ROLLBACK_SL_CANCEL_FAILED",
               "ROLLBACK_EMERGENCY_CLOSE_FAILED"}
AuditEvent == Alarm \cup {"ORDER_ROLLBACK"}

-----------------------------------------------------------------------------
(* Effects of REST calls *)

Reply == {"ok"} \cup (Faults \cap {"error", "escape"})

(* _call_with_retry sends a request again when an attempt fails in the     *)
(* network, so with "lost" one place_order can leave several orders behind,*)
(* and a failed one can leave some.  The reply names the last of them.     *)
Copies(reply) ==
    IF reply = "ok" THEN IF "lost" \in Faults THEN 1..Attempts ELSE {1}
                    ELSE IF "lost" \in Faults THEN 0..Attempts ELSE {0}

Submit(order, n) ==
    /\ nextId + n <= MaxOrders + 1
    /\ orders' = [o \in OrderId |-> IF o \in nextId..(nextId + n - 1) THEN order ELSE orders[o]]
    /\ nextId' = nextId + n
    /\ UNCHANGED net

LastId(n) == nextId + n - 1

(* Mutant: a cancel the exchange ignores.                                  *)
CancelNothing(o, reply) == UNCHANGED exchange

Cancel(o, reply) ==
    /\ \/ reply = "ok" /\ Open(o) /\ orders' = [orders EXCEPT ![o].status = "CANCELED"]
       \/ reply # "ok" /\ UNCHANGED orders
       \/ reply # "ok" /\ "lost" \in Faults /\ Open(o)
          /\ orders' = [orders EXCEPT ![o].status = "CANCELED"]
    /\ UNCHANGED <<nextId, net>>

(* An order that is no longer open cannot be cancelled: -2011.             *)
CancelReply(o) == Reply \cup (IF Open(o) THEN {} ELSE {"error"})

-----------------------------------------------------------------------------
(* Program points *)

PC == {"idle", "setup", "mark", "size", "place", "timeout", "poll", "sl", "tp",
       "cancelSl", "rollback", "close", "readTp", "readSl", "cancelOther", "notify"}

Goto(l) == pc' = l

GotoTimeouts(tracker) ==  \* list(self.position_tracker.pending())
    Goto("timeout") /\ todo' = InState(tracker, "PENDING")

Abandon ==                \* an exception reaches the handler of _tick
    Goto("idle") /\ todo' = {}

(* The locals of a handler die with it; forgetting them keeps states few.  *)
ClearExits  == cur' = NoId /\ slId' = NoId /\ tpFilled' = FALSE
ClearLocals == ClearExits /\ setup' = 0

(* Mutant, Bug D: an error leaves the record as it is, to be polled again. *)
BranchRetry(reply, onOk, onError) ==
    IF reply = "escape" THEN Abandon
    ELSE Goto(IF reply = "ok" THEN onOk ELSE "poll") /\ UNCHANGED todo

Branch(reply, onOk, onError) ==
    IF reply = "escape" THEN Abandon
    ELSE Goto(IF reply = "ok" THEN onOk ELSE onError) /\ UNCHANGED todo

Note(reply) == faulted' = (faulted \/ reply # "ok")

(* An except BinanceOrderError clause writes what failed to the audit log. *)
Alarmed(reply, event, i) ==
    IF reply = "error" THEN audit \cup {<<event, i>>} ELSE audit

-----------------------------------------------------------------------------
(* The tick: runner.run_once, then the two watchers.  A bar has passed for *)
(* every waiting order.                                                    *)

Aged(r) == IF r.state = "PENDING" /\ r.age < Timeout THEN [r EXCEPT !.age = @ + 1] ELSE r

BeginTick ==
    /\ pc = "idle"
    /\ pos' = [i \in OrderId |-> Aged(pos[i])]
    /\ \/ GotoTimeouts(pos) /\ setup' = 0                               \* no setup
       \/ \E side \in Sides : setup' = side /\ Goto("setup") /\ UNCHANGED todo
    /\ ClearExits
    /\ UNCHANGED <<exchange, killSwitch, counted, faulted, audit>>

-----------------------------------------------------------------------------
(* process_setup *)

(* Mutant: pending orders do not count.                                    *)
BlockedByActive == killSwitch \/ (Cap > 0 /\ Cardinality(Active) >= Cap)

Blocked == killSwitch \/ (Cap > 0 /\ Cardinality(Pending) + Cardinality(Active) >= Cap)

SkipSetup ==              \* SKIPPED_KILL_SWITCH, SKIPPED_MAX_CONCURRENT
    /\ pc = "setup" /\ Blocked
    /\ GotoTimeouts(pos)
    /\ UNCHANGED <<exchange, pos, killSwitch, counted, local, faulted, audit>>

AdmitSetup ==
    /\ pc = "setup" /\ ~Blocked
    /\ Goto(IF MarkGuard THEN "mark" ELSE "size")
    /\ UNCHANGED <<exchange, pos, killSwitch, counted, todo, local, faulted, audit>>

(* _mark_price_passed_entry: a failed fetch lets the order through, even   *)
(* one whose error has just triggered the kill switch.                     *)
CheckMark ==
    /\ pc = "mark"
    /\ \/ GotoTimeouts(pos) /\ UNCHANGED killSwitch                      \* price passed
       \/ Goto("size") /\ UNCHANGED <<todo, killSwitch>>            \* not passed, or fetch failed
       \/ "error" \in Faults /\ killSwitch' = TRUE /\ Goto("size") /\ UNCHANGED todo
    /\ UNCHANGED <<exchange, pos, counted, local, faulted, audit>>

SizeOrder ==
    /\ pc = "size"
    /\ \/ Goto("place") /\ UNCHANGED todo
       \/ GotoTimeouts(pos)                            \* SIZING_FAILED, or a call failed
    /\ UNCHANGED <<exchange, pos, killSwitch, counted, local, faulted, audit>>

(* The bound on ids: an entry is accepted only while ids are left for its  *)
(* exits.  With more entries waiting, exits that find none left fail, so   *)
(* that a Cap other than 1 needs "error" or "escape" in Faults.            *)
Room(n) == nextId + n + 2 <= MaxOrders + 1

Added(i) == [pos EXCEPT ![i] = [NoRecord EXCEPT !.state = "PENDING"]]

PlaceEntry ==
    /\ pc = "place"
    /\ \E reply \in Reply \cup {"error"} : \E n \in Copies(reply) :  \* REJECTED is always possible
        /\ reply = "ok" => Room(n)
        /\ Submit(NewOrder("ENTRY", setup, NoId), n)
        /\ LET tracker == IF reply = "ok" THEN Added(LastId(n)) ELSE pos
           IN pos' = tracker /\ GotoTimeouts(tracker)
        /\ \/ UNCHANGED killSwitch
           \/ reply = "error" /\ killSwitch' = TRUE                 \* kill_switch_signal
        /\ faulted' = (faulted \/ n > (IF reply = "ok" THEN 1 ELSE 0))  \* untracked copies
    /\ UNCHANGED <<counted, local, audit>>

-----------------------------------------------------------------------------
(* tick_timeout_watcher: aborts the record whatever the cancel answered    *)

Overdue(i) == pos[i].age + BarLag >= Timeout

SkipYoung ==
    /\ pc = "timeout"
    /\ \E i \in todo : IsFirst(i) /\ ~Overdue(i) /\ todo' = todo \ {i}
    /\ UNCHANGED <<exchange, pos, killSwitch, counted, pc, local, faulted, audit>>

(* Mutant: a refused cancel keeps the record waiting.                      *)
GiveUpIfCancelled(i, reply) ==
    /\ pos' = IF reply = "ok" THEN [pos EXCEPT ![i].state = "ABORTED", ![i].age = 0] ELSE pos
    /\ todo' = todo \ {i} /\ UNCHANGED pc

GiveUp(i, reply) ==       \* on_timeout, whatever the cancel answered
    /\ pos' = [pos EXCEPT ![i].state = "ABORTED", ![i].age = 0]
    /\ todo' = todo \ {i} /\ UNCHANGED pc

CancelOverdue ==
    /\ pc = "timeout"
    /\ \E i \in todo : \E reply \in CancelReply(i) :
        /\ IsFirst(i) /\ Overdue(i)
        /\ Cancel(i, reply)
        /\ Note(reply)
        /\ audit' = Alarmed(reply, "ORDER_CANCEL_FAILED", i)
        /\ IF reply = "escape" THEN Abandon /\ UNCHANGED pos ELSE GiveUp(i, reply)
    /\ UNCHANGED <<killSwitch, counted, local>>

TimeoutsDone ==
    /\ pc = "timeout" /\ todo = {}
    /\ Goto("poll") /\ todo' = Pending
    /\ ClearLocals
    /\ UNCHANGED <<exchange, pos, killSwitch, counted, faulted, audit>>

-----------------------------------------------------------------------------
(* tick_fill_polling, first loop, and _on_fill                             *)

CallFails == Faults \cap {"error", "escape"} # {}

PollEntry ==              \* get_order
    /\ pc = "poll"
    /\ \E i \in todo :
        /\ IsFirst(i)
        /\ todo' = todo \ {i}
        /\ IF Filled(i) THEN Goto("sl") /\ cur' = i ELSE UNCHANGED <<pc, cur>>
    /\ UNCHANGED <<exchange, pos, killSwitch, counted, slId, setup, tpFilled, faulted, audit>>

(* get_order, get_position: nothing on the way up to _tick catches these.  *)
QueryFails ==
    /\ CallFails
    /\ \/ pc \in {"poll", "close"} /\ todo # {}
       \/ pc \in {"readTp", "readSl"}
    /\ Abandon
    /\ faulted' = TRUE
    /\ UNCHANGED <<exchange, pos, killSwitch, counted, local, audit>>

(* Mutants: the side of the exits is not turned round, or twice.           *)
ExitSameSide(kind, i) == NewOrder(kind, orders[i].side, i)
ExitReversing(kind, i) == NewOrder(kind, -2 * orders[i].side, i)

Exit(kind, i) == NewOrder(kind, -orders[i].side, i)

PlaceSl ==
    /\ pc = "sl"
    /\ \E reply \in Reply : \E n \in Copies(reply) :
        /\ Submit(Exit("SL", cur), n)
        /\ slId' = IF reply = "ok" THEN LastId(n) ELSE slId
        /\ Note(IF n > 1 THEN "lost" ELSE reply)
        /\ Branch(reply, "tp", "rollback")
    /\ UNCHANGED <<pos, killSwitch, counted, cur, setup, tpFilled, audit>>

PlaceTp ==
    /\ pc = "tp"
    /\ \E reply \in Reply : \E n \in Copies(reply) :
        /\ Submit(Exit("TP", cur), n)
        /\ pos' = IF reply = "ok"
                  THEN [pos EXCEPT ![cur] = [state |-> "ACTIVE", sl |-> slId,
                                             tp |-> LastId(n), age |-> 0]]
                  ELSE pos
        /\ Note(IF n > 1 THEN "lost" ELSE reply)
        /\ Branch(reply, "poll", "cancelSl")
    /\ UNCHANGED <<killSwitch, counted, local, audit>>

CancelSl ==
    /\ pc = "cancelSl"
    /\ \E reply \in CancelReply(slId) :
        /\ Cancel(slId, reply)
        /\ audit' = Alarmed(reply, "ROLLBACK_SL_CANCEL_FAILED", cur)
        /\ IF reply = "escape" THEN Abandon ELSE Goto("rollback") /\ UNCHANGED todo
    /\ UNCHANGED <<pos, killSwitch, counted, local, faulted>>

(* _rollback_filled_order: a MARKET order of the pending size; the record  *)
(* is aborted whether or not it went through.                              *)
Rollback ==
    /\ pc = "rollback"
    /\ \E reply \in Reply : \E n \in Copies(reply) :
        /\ net' = net - n * orders[cur].side * Qty
        /\ net' \in -NetBound..NetBound
        /\ audit' = (IF reply = "ok" THEN audit \cup {<<"ORDER_ROLLBACK", cur>>}
                     ELSE Alarmed(reply, "ROLLBACK_EMERGENCY_CLOSE_FAILED", cur))
        /\ IF reply = "escape"
           THEN Abandon /\ UNCHANGED pos
           ELSE /\ pos' = [pos EXCEPT ![cur] = [NoRecord EXCEPT !.state = "ABORTED"]]
                /\ Goto("poll") /\ UNCHANGED todo
    /\ UNCHANGED <<orders, nextId, killSwitch, counted, local, faulted>>

PollDone ==
    /\ pc = "poll" /\ todo = {}
    /\ Goto("close") /\ todo' = Active
    /\ ClearLocals
    /\ UNCHANGED <<exchange, pos, killSwitch, counted, faulted, audit>>

-----------------------------------------------------------------------------
(* tick_fill_polling, second loop, and _on_position_close                  *)

PollActive ==             \* get_position
    /\ pc = "close"
    /\ \E i \in todo :
        /\ IsFirst(i)
        /\ todo' = todo \ {i}
        /\ IF net = 0 /\ pos[i].tp # NoId /\ pos[i].sl # NoId
           THEN Goto("readTp") /\ cur' = i
           ELSE UNCHANGED <<pc, cur>>
    /\ UNCHANGED <<exchange, pos, killSwitch, counted, slId, setup, tpFilled, faulted, audit>>

(* Mutant: the ids of the exits are swapped.                               *)
ReadTpFromSl ==
    /\ pc = "readTp"
    /\ tpFilled' = Filled(pos[cur].sl)
    /\ Goto("readSl")
    /\ UNCHANGED <<exchange, pos, killSwitch, counted, todo, cur, slId, setup, faulted, audit>>

ReadTp ==
    /\ pc = "readTp"
    /\ tpFilled' = Filled(pos[cur].tp)
    /\ Goto("readSl")
    /\ UNCHANGED <<exchange, pos, killSwitch, counted, todo, cur, slId, setup, faulted, audit>>

(* The TP is looked at first; with neither filled nothing is done.         *)
ReadSl ==
    /\ pc = "readSl"
    /\ IF tpFilled \/ Filled(pos[cur].sl)
       THEN /\ pos' = [pos EXCEPT ![cur].state =
                          IF tpFilled THEN "CLOSED_WIN" ELSE "CLOSED_LOSS"]
            /\ Goto("cancelOther")
       ELSE Goto("close") /\ UNCHANGED pos
    /\ UNCHANGED <<exchange, killSwitch, counted, todo, local, faulted, audit>>

Leftover(i) == IF pos[i].state = "CLOSED_WIN" THEN pos[i].sl ELSE pos[i].tp

CancelOther ==
    /\ pc = "cancelOther"
    /\ \E reply \in CancelReply(Leftover(cur)) :
        /\ Cancel(Leftover(cur), reply)
        /\ Note(reply)
        /\ Branch(reply, "notify", "notify")
    /\ UNCHANGED <<pos, killSwitch, counted, local, audit>>

(* Mutant: a switch that has tripped stops counting.                       *)
CheckUntilTripped ==
    IF killSwitch THEN UNCHANGED <<counted, killSwitch>>
    ELSE counted' = counted \cup {cur} /\ killSwitch' \in BOOLEAN

CheckAfterTrade ==
    /\ counted' = counted \cup {cur}
    /\ \E fires \in BOOLEAN : killSwitch' = (killSwitch \/ fires)

(* _notify_kill_switch: if get_account fails the trade is never counted.   *)
Notify ==
    /\ pc = "notify"
    /\ \/ CheckAfterTrade /\ UNCHANGED faulted
       \/ CallFails /\ faulted' = TRUE /\ UNCHANGED <<counted, killSwitch>>
    /\ Goto("close")
    /\ UNCHANGED <<exchange, pos, todo, local, audit>>

EndTick ==
    /\ pc = "close" /\ todo = {}
    /\ Goto("idle")
    /\ ClearLocals
    /\ UNCHANGED <<exchange, pos, killSwitch, counted, todo, faulted, audit>>

Service ==
    \/ BeginTick \/ SkipSetup \/ AdmitSetup \/ CheckMark \/ SizeOrder \/ PlaceEntry
    \/ SkipYoung \/ CancelOverdue \/ TimeoutsDone
    \/ PollEntry \/ QueryFails \/ PlaceSl \/ PlaceTp \/ CancelSl \/ Rollback \/ PollDone
    \/ PollActive \/ ReadTp \/ ReadSl \/ CancelOther \/ Notify \/ EndTick

-----------------------------------------------------------------------------
(* The exchange, the operator and the other symbols                        *)

service == <<pos, counted, pc, todo, local, faulted, audit>>

(* A LIMIT order fills by q lots, a STOP_MARKET order all at once.         *)
Fill(o, q) ==
    LET filled == orders[o].filled + q
    IN /\ Open(o)
       /\ filled <= Qty
       /\ orders[o].kind = "SL" => filled = Qty
       /\ orders' = [orders EXCEPT ![o].filled = filled,
             ![o].status = IF filled = Qty THEN "FILLED" ELSE "PARTIALLY_FILLED"]
       /\ net' = net + orders[o].side * q
       /\ UNCHANGED <<nextId, killSwitch, service>>

(* A GTX entry that would cross, or an order cancelled by hand.            *)
Expire(o) ==
    /\ "expire" \in Faults /\ Open(o)
    /\ orders' = [orders EXCEPT ![o].status = "EXPIRED"]
    /\ UNCHANGED <<nextId, net, killSwitch, service>>

CloseByHand ==
    /\ "manual" \in Faults /\ net # 0
    /\ net' = 0
    /\ UNCHANGED <<orders, nextId, killSwitch, service>>

(* The kill switch is shared by all symbols' managers.                     *)
OtherSymbolTrips ==
    /\ ~killSwitch /\ killSwitch' = TRUE
    /\ UNCHANGED <<exchange, service>>

Environment ==
    \/ \E o \in OrderId : (\E q \in 1..Qty : Fill(o, q)) \/ Expire(o)
    \/ CloseByHand
    \/ OtherSymbolTrips

Init ==
    /\ orders = [o \in OrderId |-> NoOrder] /\ nextId = 1 /\ net = 0
    /\ pos = [i \in OrderId |-> NoRecord]
    /\ killSwitch = FALSE /\ counted = {}
    /\ pc = "idle" /\ todo = {}
    /\ cur = NoId /\ slId = NoId /\ setup = 0 /\ tpFilled = FALSE
    /\ faulted = FALSE /\ audit = {}

Next == Service \/ Environment

Spec == Init /\ [][Next]_vars

-----------------------------------------------------------------------------
(* Properties *)

(* Every variable keeps its type.                                          *)
TypeOK ==
    /\ orders \in [OrderId -> Order] /\ nextId \in 1..(MaxOrders + 1) /\ net \in Int
    /\ pos \in [OrderId -> Record]
    /\ killSwitch \in BOOLEAN /\ counted \subseteq OrderId
    /\ pc \in PC /\ todo \subseteq OrderId
    /\ cur \in OrderId \cup {NoId} /\ slId \in OrderId \cup {NoId}
    /\ setup \in Sides \cup {0} /\ tpFilled \in BOOLEAN /\ faulted \in BOOLEAN
    /\ audit \subseteq AuditEvent \X OrderId

(* The concurrent-position guard is a check that REST calls separate from  *)
(* the add it protects, and a fill turns PENDING into ACTIVE in between;   *)
(* their sum never exceeds the cap (process_setup, lines 97-113).          *)
CapRespected ==
    Cap > 0 => Cardinality(Pending) + Cardinality(Active) <= Cap

(* A position the tracker calls ACTIVE or closed has exits of its own: an  *)
(* SL and a TP the exchange accepted, on the opposite side, and no other   *)
(* position names the same order (_on_fill).                               *)
ExitsAreOwn ==
    \A i \in OrderId : pos[i].state \in {"ACTIVE"} \cup Closed =>
        /\ pos[i].sl \in OrderId /\ pos[i].tp \in OrderId
        /\ LET sl == orders[pos[i].sl]
               tp == orders[pos[i].tp]
           IN /\ sl.kind = "SL" /\ tp.kind = "TP"
              /\ sl.entry = i /\ tp.entry = i
              /\ orders[i].side # 0
              /\ sl.side = -orders[i].side /\ tp.side = -orders[i].side

(* The recorded outcome is what happened at the exchange: a win has a      *)
(* filled TP, a loss a filled SL, and every closed or active position a    *)
(* filled entry (_on_position_close, lines 376-412).                       *)
OutcomeIsTrue ==
    \A i \in OrderId :
        /\ pos[i].state = "CLOSED_WIN"  => orders[pos[i].tp].status = "FILLED"
        /\ pos[i].state = "CLOSED_LOSS" => orders[pos[i].sl].status = "FILLED"
        /\ pos[i].state \in {"ACTIVE"} \cup Closed => orders[i].status = "FILLED"

(* Bug D of 2026-05-18: a filled entry is protected at most once, however  *)
(* many BinanceOrderErrors its exits meet ("polling sonsuz retry           *)
(* yapmasin").  It needs errors of that class and replies that are true.   *)
ProtectedOnce ==
    \A a, b \in OrderId :
        /\ orders[a].kind \in {"SL", "TP"} /\ orders[a].kind = orders[b].kind
        /\ orders[a].entry = orders[b].entry
        => a = b

(* No position is left behind in silence: of an aborted record, either the *)
(* audit log says that a cancel or the emergency close failed, or its order*)
(* was cancelled at the exchange, or the position was closed again and no  *)
(* exit of it can open another (the tick_timeout_watcher and _on_fill      *)
(* error paths, lines 216-222 and 276-321).  What a cancelled entry had    *)
(* filled before is the matter of PartialIsKept.                           *)
GivenUpInSilence(i) ==
    pos[i].state = "ABORTED" /\ \A alarm \in Alarm : <<alarm, i>> \notin audit

IsExitOf(o, i) == orders[o].kind \in {"SL", "TP"} /\ orders[o].entry = i
NoExitLeft(i) == \A o \in OrderId : IsExitOf(o, i) => ~Open(o) /\ orders[o].filled = 0

ExposureIsAudited ==
    \A i \in OrderId : GivenUpInSilence(i) =>
        \/ orders[i].status = "CANCELED"
        \/ <<"ORDER_ROLLBACK", i>> \in audit /\ NoExitLeft(i)

(* Between ticks, if no call has failed, check_after_trade has seen every  *)
(* closed trade (_on_position_close, lines 396 and 412).                   *)
ResultsCounted ==
    pc = "idle" /\ ~faulted => counted = {i \in OrderId : pos[i].state \in Closed}

(* No trade is counted twice by the kill switch.                           *)
CountedOnce == [][Notify => cur \notin counted]_vars

(* The tracker's records move as position_tracker.py's diagram says.       *)
Tracker == INSTANCE PositionLifecycle WITH state <- [i \in OrderId |-> pos[i].state]
Lifecycle == Tracker!Spec

(* Every entry order is decided: its record does not stay PENDING, even if *)
(* every cancel is refused (tick_timeout_watcher, line 222).               *)
EntryDecided ==
    \A i \in OrderId : pos[i].state = "PENDING" ~> pos[i].state # "PENDING"

(* Design 12.2: of a fill below 100% the rest is cancelled and the part    *)
(* becomes an ACTIVE position with exits of its size, so a record aborted  *)
(* by a timeout whose cancel succeeded holds nothing.                      *)
PartialIsKept ==
    [][\A i \in OrderId :
         pos[i].state = "PENDING" /\ pos'[i].state = "ABORTED" /\ ~faulted'
         => orders'[i].filled = 0]_vars
=============================================================================
