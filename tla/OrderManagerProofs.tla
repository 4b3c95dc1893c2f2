------------------------- MODULE OrderManagerProofs -------------------------
(***************************************************************************)
(* Proofs about OrderManager, for every bound, configuration and set of    *)
(* faults.  Two facts about one step carry everything:                     *)
(*   ExchangeStep  what the exchange has accepted keeps its kind, side and *)
(*                 owner, and an order that is filled stays filled;        *)
(*   TrackerStep   at most one record moves, along one edge of the state   *)
(*                 machine, and a record moves only when the orders at the *)
(*                 exchange justify it.                                    *)
(* The inductive invariant adds to the properties what the thread knows at *)
(* each program point (Handling): which record its `cur` is, that it is    *)
(* not still in the loop's list, and that the list is current.             *)
(***************************************************************************)
EXTENDS OrderManager, FiniteSetTheorems, TLAPS

(* Ids the exchange has not given out are unused on both sides.            *)
FreshIds ==
    \A o \in OrderId : o >= nextId => orders[o] = NoOrder /\ pos[o].state = "NONE"

(* A tracked record is an entry with a direction.                          *)
EntriesReal ==
    \A i \in OrderId : pos[i].state \in {"PENDING", "ACTIVE"} \cup Closed =>
        orders[i].kind = "ENTRY" /\ orders[i].side # 0

CountedClosed == \A i \in counted : pos[i].state \in Closed

OnFillPoint  == {"sl", "tp", "cancelSl", "rollback"}
OnClosePoint == {"readTp", "readSl"}
ClosedPoint  == {"cancelOther", "notify"}

(* What the service thread knows where it stands.                          *)
Handling ==
    /\ pc \in {"setup", "mark", "size", "place"} => setup \in Sides
    /\ pc \in OnFillPoint => /\ cur \in OrderId /\ cur \notin todo
                             /\ pos[cur].state = "PENDING" /\ orders[cur].status = "FILLED"
    /\ pc \in {"tp", "cancelSl"} => /\ slId \in OrderId
                                    /\ orders[slId].kind = "SL" /\ orders[slId].entry = cur
                                    /\ orders[slId].side = -orders[cur].side
    /\ pc \in OnClosePoint => cur \in OrderId /\ cur \notin todo /\ pos[cur].state = "ACTIVE"
    /\ pc = "readSl" /\ tpFilled => orders[pos[cur].tp].status = "FILLED"
    /\ pc \in ClosedPoint => cur \in OrderId /\ pos[cur].state \in Closed /\ cur \notin counted
    /\ pc \in {"timeout", "poll"} \cup OnFillPoint =>
         \A i \in todo : pos[i].state = "PENDING"
    /\ pc \in {"close"} \cup OnClosePoint \cup ClosedPoint =>
         \A i \in todo : pos[i].state = "ACTIVE"

Inv == /\ TypeOK /\ FreshIds /\ EntriesReal /\ CountedClosed
       /\ ExitsAreOwn /\ OutcomeIsTrue /\ Handling

(* PENDING and ACTIVE records, counted together.                           *)
Live == {i \in OrderId : pos[i].state \in {"PENDING", "ACTIVE"}}

CapInv ==
    Cap > 0 => /\ Cardinality(Live) <= Cap
               /\ pc \in {"mark", "size", "place"} => Cardinality(Live) < Cap

USE BoundsAssumption, ConfigAssumption DEF OrderId, NoId

-----------------------------------------------------------------------------
(* What a step does at the exchange                                        *)

Kept(o) ==
    /\ orders'[o].kind = orders[o].kind /\ orders'[o].side = orders[o].side
    /\ orders'[o].entry = orders[o].entry
    /\ orders[o].status = "FILLED" => orders'[o].status = "FILLED"

ExchangeKept ==
    /\ orders' \in [OrderId -> Order] /\ net' \in Int
    /\ nextId' \in 1..(MaxOrders + 1) /\ nextId <= nextId'
    /\ \A o \in OrderId : o < nextId => Kept(o)
    /\ \A o \in OrderId : o >= nextId' => orders'[o] = NoOrder

(* The unused order is an order.                                           *)
LEMMA NoOrderType == NoOrder \in Order
  BY DEF NoOrder, Order, OrderKind, OrderStatus

(* A new order of either side has the type.                                *)
LEMMA NewOrderType ==
  ASSUME NEW kind \in OrderKind, NEW side \in {-1, 0, 1}, NEW entry \in OrderId \cup {NoId}
  PROVE  /\ NewOrder(kind, side, entry) \in Order
         /\ NewOrder(kind, side, entry).kind = kind
         /\ NewOrder(kind, side, entry).side = side
         /\ NewOrder(kind, side, entry).entry = entry
  BY NoOrderType DEF NewOrder, Order, OrderStatus, OrderKind, NoOrder

(* A REST call that changes nothing keeps the exchange.                    *)
LEMMA IdleKeeps ==
  ASSUME Inv, UNCHANGED exchange
  PROVE  ExchangeKept
  BY DEF Inv, TypeOK, FreshIds, exchange, ExchangeKept, Kept

(* Submit hands out the next n ids and leaves the others alone.            *)
LEMMA SubmitKeeps ==
  ASSUME Inv, NEW order \in Order, NEW n \in Nat, Submit(order, n)
  PROVE  /\ ExchangeKept
         /\ nextId' = nextId + n
         /\ \A o \in OrderId : o < nextId => orders'[o] = orders[o]
         /\ \A o \in OrderId : o >= nextId =>
              orders'[o] = IF o < nextId + n THEN order ELSE NoOrder
         /\ n > 0 => LastId(n) \in OrderId /\ LastId(n) >= nextId /\ orders'[LastId(n)] = order
  <1>1. orders' = [o \in OrderId |-> IF o \in nextId..(nextId + n - 1) THEN order ELSE orders[o]]
        /\ nextId' = nextId + n /\ net' = net /\ nextId + n <= MaxOrders + 1
    BY DEF Submit
  <1>2. nextId \in 1..(MaxOrders + 1) /\ net \in Int /\ orders \in [OrderId -> Order]
    BY DEF Inv, TypeOK
  <1>3. orders' \in [OrderId -> Order]
    BY <1>1, <1>2
  <1>4. \A o \in OrderId : o < nextId => orders'[o] = orders[o]
    BY <1>1, <1>2
  <1>5. \A o \in OrderId : o >= nextId =>
          orders'[o] = IF o < nextId + n THEN order ELSE NoOrder
    BY <1>1, <1>2 DEF Inv, FreshIds
  <1>6. n > 0 => LastId(n) \in OrderId /\ LastId(n) >= nextId /\ orders'[LastId(n)] = order
    BY <1>1, <1>2 DEF LastId
  <1>. QED BY <1>1, <1>2, <1>3, <1>4, <1>5, <1>6 DEF ExchangeKept, Kept

(* Changing the status of an order, or of one in the book, keeps the type. *)
LEMMA StatusType ==
  ASSUME NEW book \in [OrderId -> Order], NEW o, NEW status \in OrderStatus
  PROVE  [book EXCEPT ![o].status = status] \in [OrderId -> Order]
  <1>1. CASE o \in OrderId
    <2>1. [book[o] EXCEPT !.status = status] \in Order
      <3>1. book[o] \in Order
        BY <1>1
      <3>. QED BY <3>1 DEF Order
    <2>. QED BY <1>1, <2>1
  <1>2. CASE o \notin OrderId
    BY <1>2
  <1>. QED BY <1>1, <1>2

(* Cancel ends an open order and nothing else.                             *)
LEMMA CancelKeeps ==
  ASSUME Inv, NEW o, NEW reply, Cancel(o, reply)
  PROVE  ExchangeKept
  <1>1. CASE UNCHANGED orders
    BY <1>1, IdleKeeps DEF Cancel, exchange
  <1>2. CASE Open(o) /\ orders' = [orders EXCEPT ![o].status = "CANCELED"]
    <2>1. orders \in [OrderId -> Order] /\ nextId' = nextId /\ net' = net
      BY DEF Inv, TypeOK, Cancel
    <2>2. orders' \in [OrderId -> Order]
      BY <1>2, <2>1, StatusType DEF OrderStatus
    <2>3. \A x \in OrderId : Kept(x)
      BY <1>2, <2>1 DEF Kept, Open, Order
    <2>4. \A x \in OrderId : x >= nextId => orders'[x] = NoOrder
      <3> SUFFICES ASSUME NEW x \in OrderId, x >= nextId PROVE orders'[x] = NoOrder
        OBVIOUS
      <3>1. orders[x] = NoOrder
        BY DEF Inv, FreshIds
      <3>2. x # o
        BY <1>2, <3>1 DEF Open, NoOrder
      <3>. QED BY <1>2, <2>1, <3>1, <3>2
    <2>. QED BY <2>1, <2>2, <2>3, <2>4 DEF ExchangeKept, Inv, TypeOK
  <1>. QED BY <1>1, <1>2 DEF Cancel

(* A fill raises `filled` within the order's size.                         *)
LEMMA FillKeeps ==
  ASSUME Inv, NEW o \in OrderId, NEW q \in 1..Qty, Fill(o, q)
  PROVE  ExchangeKept
  <1> DEFINE filled == orders[o].filled + q
             status == IF filled = Qty THEN "FILLED" ELSE "PARTIALLY_FILLED"
  <1>1. orders \in [OrderId -> Order] /\ orders[o] \in Order /\ net \in Int
    BY DEF Inv, TypeOK
  <1>2. filled \in 0..Qty /\ status \in OrderStatus
    BY <1>1 DEF Fill, Order, OrderStatus
  <1>3. /\ orders' = [orders EXCEPT ![o].filled = filled, ![o].status = status]
        /\ Open(o) /\ nextId' = nextId
    BY DEF Fill
  <1>4. net' \in Int
    BY <1>1 DEF Fill, Order
  <1>. HIDE DEF filled, status
  <1>5. orders' \in [OrderId -> Order]
    BY <1>1, <1>2, <1>3 DEF Order
  <1>6. \A x \in OrderId : Kept(x)
    BY <1>1, <1>3 DEF Kept, Open, Order
  <1>7. \A x \in OrderId : x >= nextId => orders'[x] = NoOrder
    <2> SUFFICES ASSUME NEW x \in OrderId, x >= nextId PROVE orders'[x] = NoOrder
      OBVIOUS
    <2>1. orders[x] = NoOrder
      BY DEF Inv, FreshIds
    <2>2. x # o
      BY <1>3, <2>1 DEF Open, NoOrder
    <2>. QED BY <1>1, <1>3, <2>1, <2>2
  <1>8. nextId \in 1..(MaxOrders + 1)
    BY DEF Inv, TypeOK
  <1>9. nextId' \in 1..(MaxOrders + 1) /\ nextId <= nextId'
    BY <1>3, <1>8
  <1>10. \A x \in OrderId : x >= nextId' => orders'[x] = NoOrder
    BY <1>3, <1>7
  <1>. QED BY <1>4, <1>5, <1>6, <1>9, <1>10 DEF ExchangeKept

(* So does the end of an order by expiry.                                  *)
LEMMA ExpireKeeps ==
  ASSUME Inv, NEW o \in OrderId, Expire(o)
  PROVE  ExchangeKept
  <1>1. orders \in [OrderId -> Order] /\ Open(o) /\ nextId' = nextId /\ net' = net
        /\ orders' = [orders EXCEPT ![o].status = "EXPIRED"]
    BY DEF Inv, TypeOK, Expire
  <1>2. orders' \in [OrderId -> Order]
    BY <1>1, StatusType DEF OrderStatus
  <1>3. \A x \in OrderId : Kept(x)
    BY <1>1 DEF Kept, Open, Order
  <1>4. \A x \in OrderId : x >= nextId => orders'[x] = NoOrder
    <2> SUFFICES ASSUME NEW x \in OrderId, x >= nextId PROVE orders'[x] = NoOrder
      OBVIOUS
    <2>1. orders[x] = NoOrder
      BY DEF Inv, FreshIds
    <2>2. x # o
      BY <1>1, <2>1 DEF Open, NoOrder
    <2>. QED BY <1>1, <2>1, <2>2
  <1>5. nextId \in 1..(MaxOrders + 1) /\ net \in Int
    BY DEF Inv, TypeOK
  <1>. QED BY <1>1, <1>2, <1>3, <1>4, <1>5 DEF ExchangeKept

(* A request reaches the exchange at least once if it is answered.         *)
LEMMA CopiesType ==
  ASSUME NEW reply, NEW n \in Copies(reply)
  PROVE  n \in Nat /\ (reply = "ok" => n > 0)
  BY DEF Copies

(* The exits of a record are orders of the opposite side.                  *)
LEMMA ExitType ==
  ASSUME Inv, NEW kind \in {"SL", "TP"}, NEW i \in OrderId
  PROVE  /\ Exit(kind, i) \in Order /\ Exit(kind, i).kind = kind
         /\ Exit(kind, i).entry = i /\ Exit(kind, i).side = -orders[i].side
  <1>1. -orders[i].side \in {-1, 0, 1}
    <2>1. orders[i] \in Order
      BY DEF Inv, TypeOK
    <2>2. orders[i].side \in {-1, 0, 1}
      BY <2>1 DEF Order
    <2>. QED BY <2>2
  <1>2. kind \in OrderKind
    BY DEF OrderKind
  <1>. QED BY <1>1, <1>2, NewOrderType DEF Exit

(* Every step keeps what the exchange has accepted.                        *)
LEMMA ExchangeStep ==
  ASSUME Inv, [Next]_vars
  PROVE  ExchangeKept
  <1>1. CASE UNCHANGED exchange
    BY <1>1, IdleKeeps
  <1>2. CASE PlaceEntry
    <2>1. PICK n \in Nat : Submit(NewOrder("ENTRY", setup, NoId), n)
      BY <1>2, CopiesType DEF PlaceEntry
    <2>2. setup \in {-1, 0, 1} /\ "ENTRY" \in OrderKind
      BY DEF Inv, TypeOK, OrderKind
    <2>. QED BY <2>1, <2>2, NewOrderType, SubmitKeeps
  <1>3. CASE PlaceSl
    <2>1. PICK n \in Nat : Submit(Exit("SL", cur), n)
      BY <1>3, CopiesType DEF PlaceSl
    <2>2. cur \in OrderId
      BY <1>3 DEF PlaceSl, Inv, Handling, OnFillPoint
    <2>. QED BY <2>1, <2>2, ExitType, SubmitKeeps
  <1>4. CASE PlaceTp
    <2>1. PICK n \in Nat : Submit(Exit("TP", cur), n)
      BY <1>4, CopiesType DEF PlaceTp
    <2>2. cur \in OrderId
      BY <1>4 DEF PlaceTp, Inv, Handling, OnFillPoint
    <2>. QED BY <2>1, <2>2, ExitType, SubmitKeeps
  <1>5. CASE CancelOverdue
    BY <1>5, CancelKeeps DEF CancelOverdue
  <1>6. CASE CancelSl
    BY <1>6, CancelKeeps DEF CancelSl
  <1>7. CASE CancelOther
    BY <1>7, CancelKeeps DEF CancelOther
  <1>8. CASE Rollback
    <2>1. net' \in Int /\ UNCHANGED <<orders, nextId>>
      BY <1>8 DEF Rollback, NetBound
    <2>. QED BY <2>1 DEF Inv, TypeOK, FreshIds, ExchangeKept, Kept
  <1>9. CASE CloseByHand
    BY <1>9 DEF CloseByHand, Inv, TypeOK, FreshIds, ExchangeKept, Kept
  <1>10. CASE \E o \in OrderId : (\E q \in 1..Qty : Fill(o, q)) \/ Expire(o)
    BY <1>10, FillKeeps, ExpireKeeps
  <1>. QED
    BY <1>1, <1>2, <1>3, <1>4, <1>5, <1>6, <1>7, <1>8, <1>9, <1>10
    DEF Next, Service, Environment, vars, exchange, BeginTick, SkipSetup, AdmitSetup, CheckMark,
        SizeOrder, SkipYoung, TimeoutsDone, PollEntry, QueryFails, PollDone, PollActive, ReadTp,
        ReadSl, Notify, EndTick, OtherSymbolTrips

-----------------------------------------------------------------------------
(* What a step does to the tracker                                         *)

SameRecord(j) ==
    pos'[j].state = pos[j].state /\ pos'[j].sl = pos[j].sl /\ pos'[j].tp = pos[j].tp

OthersSame(i) == \A j \in OrderId : j # i => SameRecord(j)

AddStep(i) ==
    /\ pc = "place" /\ pc' = "timeout"
    /\ nextId <= i /\ i < nextId' /\ pos'[i].state = "PENDING"
    /\ orders'[i].kind = "ENTRY" /\ orders'[i].side # 0

AbortStep(i) == pos[i].state = "PENDING" /\ pos'[i].state = "ABORTED"

ActivateStep(i) ==
    /\ pos[i].state = "PENDING" /\ pos'[i].state = "ACTIVE"
    /\ orders'[i].status = "FILLED"
    /\ pos'[i].sl \in OrderId /\ pos'[i].tp \in OrderId
    /\ orders'[pos'[i].sl].kind = "SL" /\ orders'[pos'[i].tp].kind = "TP"
    /\ orders'[pos'[i].sl].entry = i /\ orders'[pos'[i].tp].entry = i
    /\ orders'[pos'[i].sl].side = -orders'[i].side
    /\ orders'[pos'[i].tp].side = -orders'[i].side

CloseStep(i) ==
    /\ pos[i].state = "ACTIVE" /\ pos'[i].state \in Closed
    /\ pos'[i].sl = pos[i].sl /\ pos'[i].tp = pos[i].tp
    /\ pos'[i].state = "CLOSED_WIN"  => orders[pos[i].tp].status = "FILLED"
    /\ pos'[i].state = "CLOSED_LOSS" => orders[pos[i].sl].status = "FILLED"

RecordStep(i) == AddStep(i) \/ AbortStep(i) \/ ActivateStep(i) \/ CloseStep(i)

TrackerMoves ==
    \/ \A j \in OrderId : SameRecord(j)
    \/ \E i \in OrderId : OthersSame(i) /\ RecordStep(i)

(* The unknown record is a record.                                         *)
LEMMA NoRecordType == NoRecord \in Record
  BY DEF NoRecord, Record

(* A bar that passes changes the age of a record only.                     *)
LEMMA AgedKeeps ==
  ASSUME NEW r \in Record
  PROVE  /\ Aged(r) \in Record
         /\ Aged(r).state = r.state /\ Aged(r).sl = r.sl /\ Aged(r).tp = r.tp
  BY DEF Aged, Record

(* An aborted record is a record.                                          *)
LEMMA AbortedType ==
  ASSUME NEW r \in Record
  PROVE  /\ [r EXCEPT !.state = "ABORTED", !.age = 0] \in Record
         /\ [r EXCEPT !.state = "ABORTED", !.age = 0].state = "ABORTED"
  <1> DEFINE a == [r EXCEPT !.state = "ABORTED"]
  <1>1. a \in Record
    BY DEF Record, Terminal
  <1>2. [r EXCEPT !.state = "ABORTED", !.age = 0] = [a EXCEPT !.age = 0]
    BY DEF Record
  <1>3. [a EXCEPT !.age = 0] \in Record
    <2>. HIDE DEF a
    <2>. QED BY <1>1 DEF Record
  <1>4. [r EXCEPT !.state = "ABORTED", !.age = 0].state = "ABORTED"
    BY DEF Record
  <1>. QED BY <1>2, <1>3, <1>4

(* An unchanged tracker.                                                   *)
LEMMA SamePos ==
  ASSUME Inv, pos' = pos
  PROVE  pos' \in [OrderId -> Record] /\ TrackerMoves
  BY DEF Inv, TypeOK, TrackerMoves, SameRecord

(* At most one record moves in a step, along an edge its orders justify.   *)
LEMMA TrackerStep ==
  ASSUME Inv, [Next]_vars
  PROVE  pos' \in [OrderId -> Record] /\ TrackerMoves
  <1>0. pos \in [OrderId -> Record] /\ nextId \in 1..(MaxOrders + 1)
    BY DEF Inv, TypeOK
  <1>1. CASE pos' = pos
    BY <1>1, SamePos
  <1>2. CASE BeginTick
    <2>1. pos' = [i \in OrderId |-> Aged(pos[i])]
      BY <1>2 DEF BeginTick
    <2>2. pos' \in [OrderId -> Record] /\ \A j \in OrderId : SameRecord(j)
      BY <1>0, <2>1, AgedKeeps DEF SameRecord
    <2>. QED BY <2>2 DEF TrackerMoves, RecordStep
  <1>3. CASE PlaceEntry
    <2>1. PICK n, reply :
             /\ n \in Nat
             /\ Submit(NewOrder("ENTRY", setup, NoId), n)
             /\ reply = "ok" => n > 0
             /\ pos' = IF reply = "ok" THEN Added(LastId(n)) ELSE pos
      BY <1>3, CopiesType DEF PlaceEntry
    <2>2. CASE reply = "ok"
      <3> DEFINE i == LastId(n)
      <3>1. setup \in {-1, 1} /\ "ENTRY" \in OrderKind
        BY <1>3 DEF PlaceEntry, Inv, Handling, OrderKind
      <3>2. /\ nextId' = nextId + n /\ i \in OrderId /\ nextId <= i
            /\ orders'[i] = NewOrder("ENTRY", setup, NoId)
        BY <2>1, <2>2, <3>1, NewOrderType, SubmitKeeps
      <3>3. orders'[i].kind = "ENTRY" /\ orders'[i].side # 0
        BY <3>1, <3>2, NewOrderType
      <3>4. i < nextId'
        BY <1>0, <2>1, <3>2 DEF LastId
      <3>. HIDE DEF i
      <3>5. pos' = [pos EXCEPT ![i] = [NoRecord EXCEPT !.state = "PENDING"]]
        BY <2>1, <2>2 DEF Added, i
      <3>6. pos' \in [OrderId -> Record] /\ pos'[i].state = "PENDING" /\ OthersSame(i)
        BY <1>0, <3>2, <3>5, NoRecordType DEF Record, OthersSame, SameRecord
      <3>7. pc = "place" /\ pc' = "timeout"
        BY <1>3 DEF PlaceEntry, GotoTimeouts, Goto
      <3>. QED BY <3>2, <3>3, <3>4, <3>6, <3>7 DEF AddStep, TrackerMoves, RecordStep
    <2>3. CASE reply # "ok"
      BY <2>1, <2>3, SamePos
    <2>. QED BY <2>2, <2>3
  <1>4. CASE CancelOverdue
    <2>1. PICK i, reply :
             /\ i \in todo
             /\ IF reply = "escape" THEN UNCHANGED pos ELSE GiveUp(i, reply)
      BY <1>4 DEF CancelOverdue
    <2>2. i \in OrderId /\ pos[i].state = "PENDING"
      BY <1>4, <2>1 DEF CancelOverdue, Inv, TypeOK, Handling
    <2>3. CASE GiveUp(i, reply)
      <3>1. pos' = [pos EXCEPT ![i].state = "ABORTED", ![i].age = 0]
        BY <2>3 DEF GiveUp
      <3>2. pos' \in [OrderId -> Record] /\ pos'[i].state = "ABORTED" /\ OthersSame(i)
        <4> DEFINE r == [pos[i] EXCEPT !.state = "ABORTED", !.age = 0]
        <4>1. pos[i] \in Record
          BY <1>0, <2>2
        <4>2. r \in Record /\ r.state = "ABORTED"
          BY <4>1, AbortedType
        <4>3. pos' = [pos EXCEPT ![i] = r]
          BY <1>0, <3>1
        <4>. HIDE DEF r
        <4>. QED BY <1>0, <2>2, <4>2, <4>3 DEF OthersSame, SameRecord
      <3>. QED BY <2>2, <3>2 DEF AbortStep, TrackerMoves, RecordStep
    <2>. QED BY <2>1, <2>3, SamePos
  <1>5. CASE PlaceTp
    <2>1. PICK n, reply :
             /\ n \in Nat
             /\ Submit(Exit("TP", cur), n)
             /\ reply = "ok" => n > 0
             /\ pos' = IF reply = "ok"
                       THEN [pos EXCEPT ![cur] = [state |-> "ACTIVE", sl |-> slId,
                                                  tp |-> LastId(n), age |-> 0]]
                       ELSE pos
      BY <1>5, CopiesType DEF PlaceTp
    <2>2. /\ cur \in OrderId /\ pos[cur].state = "PENDING" /\ orders[cur].status = "FILLED"
          /\ slId \in OrderId /\ orders[slId].kind = "SL" /\ orders[slId].entry = cur
          /\ orders[slId].side = -orders[cur].side
      BY <1>5 DEF PlaceTp, Inv, Handling, OnFillPoint
    <2>3. CASE reply = "ok"
      <3> DEFINE tp == LastId(n)
      <3>1. /\ tp \in OrderId /\ orders'[tp] = Exit("TP", cur)
            /\ \A o \in OrderId : o < nextId => orders'[o] = orders[o]
        BY <2>1, <2>2, <2>3, ExitType, SubmitKeeps
      <3>2. orders'[tp].kind = "TP" /\ orders'[tp].entry = cur
            /\ orders'[tp].side = -orders[cur].side
        BY <2>2, <3>1, ExitType
      <3>3. orders'[cur] = orders[cur] /\ orders'[slId] = orders[slId]
        <4>1. cur < nextId
          BY <1>0, <2>2 DEF Inv, FreshIds
        <4>2. slId < nextId
          BY <1>0, <2>2 DEF Inv, FreshIds, NoOrder
        <4>. QED BY <2>2, <3>1, <4>1, <4>2
      <3>. HIDE DEF tp
      <3>4. pos' = [pos EXCEPT ![cur] = [state |-> "ACTIVE", sl |-> slId, tp |-> tp, age |-> 0]]
        BY <2>1, <2>3 DEF tp
      <3>5. /\ pos' \in [OrderId -> Record] /\ OthersSame(cur)
            /\ pos'[cur].state = "ACTIVE" /\ pos'[cur].sl = slId /\ pos'[cur].tp = tp
        BY <1>0, <2>2, <3>1, <3>4 DEF Record, OthersSame, SameRecord
      <3>6. ActivateStep(cur)
        BY <2>2, <3>1, <3>2, <3>3, <3>5 DEF ActivateStep
      <3>. QED BY <2>2, <3>5, <3>6 DEF TrackerMoves, RecordStep
    <2>4. CASE reply # "ok"
      BY <2>1, <2>4, SamePos
    <2>. QED BY <2>3, <2>4
  <1>6. CASE Rollback
    <2>1. cur \in OrderId /\ pos[cur].state = "PENDING"
      BY <1>6 DEF Rollback, Inv, Handling, OnFillPoint
    <2>2. CASE pos' = [pos EXCEPT ![cur] = [NoRecord EXCEPT !.state = "ABORTED"]]
      <3>1. pos' \in [OrderId -> Record] /\ pos'[cur].state = "ABORTED" /\ OthersSame(cur)
        BY <1>0, <2>1, <2>2, NoRecordType DEF Record, Terminal, OthersSame, SameRecord
      <3>. QED BY <2>1, <3>1 DEF AbortStep, TrackerMoves, RecordStep
    <2>. QED BY <1>6, <2>2, SamePos DEF Rollback
  <1>7. CASE ReadSl
    <2>1. /\ cur \in OrderId /\ pos[cur].state = "ACTIVE"
          /\ tpFilled => orders[pos[cur].tp].status = "FILLED"
      BY <1>7 DEF ReadSl, Inv, Handling, OnClosePoint
    <2>2. CASE tpFilled \/ Filled(pos[cur].sl)
      <3> DEFINE outcome == IF tpFilled THEN "CLOSED_WIN" ELSE "CLOSED_LOSS"
      <3>1. (outcome = "CLOSED_WIN" /\ tpFilled) \/ (outcome = "CLOSED_LOSS" /\ ~tpFilled)
        OBVIOUS
      <3>2. pos' = [pos EXCEPT ![cur].state = outcome]
        BY <1>7, <2>2 DEF ReadSl
      <3>. HIDE DEF outcome
      <3>3. /\ pos' \in [OrderId -> Record] /\ OthersSame(cur) /\ pos'[cur].state = outcome
            /\ pos'[cur].sl = pos[cur].sl /\ pos'[cur].tp = pos[cur].tp
        BY <1>0, <2>1, <3>1, <3>2 DEF Record, Terminal, Closed, OthersSame, SameRecord
      <3>4. CloseStep(cur)
        BY <2>1, <2>2, <3>1, <3>3 DEF CloseStep, Closed, Filled
      <3>. QED BY <2>1, <3>3, <3>4 DEF TrackerMoves, RecordStep
    <2>3. CASE ~(tpFilled \/ Filled(pos[cur].sl))
      BY <1>7, <2>3, SamePos DEF ReadSl
    <2>. QED BY <2>2, <2>3
  <1>. QED
    BY <1>1, <1>2, <1>3, <1>4, <1>5, <1>6, <1>7
    DEF Next, Service, Environment, vars, service, SkipSetup, AdmitSetup, CheckMark, SizeOrder,
        SkipYoung, TimeoutsDone, PollEntry, QueryFails, PlaceSl, CancelSl, PollDone, PollActive,
        ReadTp, CancelOther, Notify, EndTick, Fill, Expire, CloseByHand, OtherSymbolTrips

-----------------------------------------------------------------------------
(* The records and the orders they name                                    *)

(* What is tracked or accepted has an id already given out, so it is kept. *)
LEMMA Stable ==
  ASSUME Inv, ExchangeKept
  PROVE  /\ \A i \in OrderId : pos[i].state # "NONE" => i < nextId /\ Kept(i)
         /\ \A o \in OrderId : orders[o].kind # "NONE" => o < nextId /\ Kept(o)
  <1>1. nextId \in Int
    BY DEF Inv, TypeOK
  <1>2. \A i \in OrderId : pos[i].state # "NONE" => i < nextId
    BY <1>1 DEF Inv, FreshIds
  <1>3. \A o \in OrderId : orders[o].kind # "NONE" => o < nextId
    BY <1>1 DEF Inv, FreshIds, NoOrder
  <1>. QED BY <1>2, <1>3 DEF ExchangeKept

(* Ids the exchange has not given out stay unused.                         *)
LEMMA FreshStep ==
  ASSUME Inv, ExchangeKept, TrackerMoves
  PROVE  FreshIds'
  <1> SUFFICES ASSUME NEW o \in OrderId, o >= nextId'
               PROVE  orders'[o] = NoOrder /\ pos'[o].state = "NONE"
    BY DEF FreshIds
  <1>1. o >= nextId /\ nextId \in Int /\ nextId' \in Int
    BY DEF Inv, TypeOK, ExchangeKept
  <1>2. orders'[o] = NoOrder /\ pos[o].state = "NONE"
    BY <1>1 DEF Inv, FreshIds, ExchangeKept
  <1>3. SameRecord(o)
    BY <1>1, <1>2
    DEF TrackerMoves, RecordStep, OthersSame, AddStep, AbortStep, ActivateStep, CloseStep
  <1>. QED BY <1>2, <1>3 DEF SameRecord

(* A tracked record stays an entry with a direction.                       *)
LEMMA EntriesStep ==
  ASSUME Inv, ExchangeKept, TrackerMoves
  PROVE  EntriesReal'
  <1> SUFFICES ASSUME NEW j \in OrderId, pos'[j].state \in {"PENDING", "ACTIVE"} \cup Closed
               PROVE  orders'[j].kind = "ENTRY" /\ orders'[j].side # 0
    BY DEF EntriesReal, Closed
  <1>1. ASSUME pos[j].state \in {"PENDING", "ACTIVE"} \cup Closed
        PROVE  orders'[j].kind = "ENTRY" /\ orders'[j].side # 0
    BY <1>1, Stable DEF Inv, EntriesReal, Kept, Closed
  <1>2. CASE SameRecord(j)
    BY <1>1, <1>2 DEF SameRecord
  <1>3. CASE AddStep(j)
    BY <1>3 DEF AddStep
  <1>4. CASE AbortStep(j)
    BY <1>4 DEF AbortStep, Closed
  <1>5. CASE ActivateStep(j)
    BY <1>1, <1>5 DEF ActivateStep
  <1>6. CASE CloseStep(j)
    BY <1>1, <1>6 DEF CloseStep
  <1>. QED BY <1>2, <1>3, <1>4, <1>5, <1>6 DEF TrackerMoves, RecordStep, OthersSame

(* The exits of a record that already has some are kept.                   *)
LEMMA ExitsKept ==
  ASSUME Inv, ExchangeKept, NEW i \in OrderId, pos[i].state \in {"ACTIVE"} \cup Closed
  PROVE  Kept(i) /\ Kept(pos[i].sl) /\ Kept(pos[i].tp)
  <1>1. pos[i].sl \in OrderId /\ pos[i].tp \in OrderId
        /\ orders[pos[i].sl].kind = "SL" /\ orders[pos[i].tp].kind = "TP"
    BY DEF Inv, ExitsAreOwn
  <1>2. pos[i].state # "NONE"
    BY DEF Closed
  <1>. QED BY <1>1, <1>2, Stable

(* A record keeps exits of its own, and gets them when it is activated.    *)
LEMMA ExitsStep ==
  ASSUME Inv, ExchangeKept, TrackerMoves
  PROVE  ExitsAreOwn'
  <1> SUFFICES ASSUME NEW j \in OrderId, pos'[j].state \in {"ACTIVE"} \cup Closed
               PROVE  /\ pos'[j].sl \in OrderId /\ pos'[j].tp \in OrderId
                      /\ orders'[pos'[j].sl].kind = "SL" /\ orders'[pos'[j].tp].kind = "TP"
                      /\ orders'[pos'[j].sl].entry = j /\ orders'[pos'[j].tp].entry = j
                      /\ orders'[j].side # 0
                      /\ orders'[pos'[j].sl].side = -orders'[j].side
                      /\ orders'[pos'[j].tp].side = -orders'[j].side
    BY DEF ExitsAreOwn, Closed
  <1>1. orders'[j].side # 0
    BY EntriesStep DEF EntriesReal, Closed
  <1>2. CASE /\ pos[j].state \in {"ACTIVE"} \cup Closed
             /\ pos'[j].sl = pos[j].sl /\ pos'[j].tp = pos[j].tp
    <2>1. Kept(j) /\ Kept(pos[j].sl) /\ Kept(pos[j].tp)
      BY <1>2, ExitsKept
    <2>2. /\ pos[j].sl \in OrderId /\ pos[j].tp \in OrderId
          /\ orders[pos[j].sl].kind = "SL" /\ orders[pos[j].tp].kind = "TP"
          /\ orders[pos[j].sl].entry = j /\ orders[pos[j].tp].entry = j
          /\ orders[pos[j].sl].side = -orders[j].side
          /\ orders[pos[j].tp].side = -orders[j].side
      BY <1>2 DEF Inv, ExitsAreOwn
    <2>. QED BY <1>1, <1>2, <2>1, <2>2 DEF Kept
  <1>3. CASE SameRecord(j)
    BY <1>2, <1>3 DEF SameRecord
  <1>4. CASE AddStep(j) \/ AbortStep(j)
    BY <1>4 DEF AddStep, AbortStep, Closed
  <1>5. CASE ActivateStep(j)
    BY <1>1, <1>5 DEF ActivateStep
  <1>6. CASE CloseStep(j)
    BY <1>2, <1>6 DEF CloseStep
  <1>. QED BY <1>3, <1>4, <1>5, <1>6 DEF TrackerMoves, RecordStep, OthersSame

(* A record closes with the outcome its orders show, and they keep it.     *)
LEMMA OutcomeStep ==
  ASSUME Inv, ExchangeKept, TrackerMoves
  PROVE  OutcomeIsTrue'
  <1> SUFFICES ASSUME NEW j \in OrderId
               PROVE  /\ pos'[j].state = "CLOSED_WIN"  => orders'[pos'[j].tp].status = "FILLED"
                      /\ pos'[j].state = "CLOSED_LOSS" => orders'[pos'[j].sl].status = "FILLED"
                      /\ pos'[j].state \in {"ACTIVE"} \cup Closed => orders'[j].status = "FILLED"
    BY DEF OutcomeIsTrue, Closed
  <1>1. CASE SameRecord(j)
    <2>1. CASE pos[j].state \in {"ACTIVE"} \cup Closed
      BY <1>1, <2>1, ExitsKept DEF SameRecord, Kept, Inv, OutcomeIsTrue
    <2>2. CASE pos[j].state \notin {"ACTIVE"} \cup Closed
      BY <1>1, <2>2 DEF SameRecord, Closed
    <2>. QED BY <2>1, <2>2
  <1>2. CASE AddStep(j) \/ AbortStep(j)
    BY <1>2 DEF AddStep, AbortStep, Closed
  <1>3. CASE ActivateStep(j)
    BY <1>3 DEF ActivateStep, Closed
  <1>4. CASE CloseStep(j)
    <2>1. Kept(j) /\ Kept(pos[j].sl) /\ Kept(pos[j].tp)
      BY <1>4, ExitsKept DEF CloseStep
    <2>2. orders[j].status = "FILLED"
      BY <1>4 DEF CloseStep, Inv, OutcomeIsTrue
    <2>. QED BY <1>4, <2>1, <2>2 DEF CloseStep, Kept
  <1>. QED BY <1>1, <1>2, <1>3, <1>4 DEF TrackerMoves, RecordStep, OthersSame

-----------------------------------------------------------------------------
(* What the thread knows after a step                                      *)

ControlType ==
    /\ killSwitch \in BOOLEAN /\ counted \subseteq OrderId
    /\ pc \in PC /\ todo \subseteq OrderId
    /\ cur \in OrderId \cup {NoId} /\ slId \in OrderId \cup {NoId}
    /\ setup \in Sides \cup {0} /\ tpFilled \in BOOLEAN /\ faulted \in BOOLEAN

Control == ControlType /\ CountedClosed /\ Handling

USE DEF OnFillPoint, OnClosePoint, ClosedPoint

(* Steps of the environment leave the thread where it is.                  *)
LEMMA ControlKept ==
  ASSUME Inv, ExchangeKept, killSwitch' \in BOOLEAN, faulted' \in BOOLEAN,
         UNCHANGED <<pos, counted, pc, todo, cur, slId, setup, tpFilled>>
  PROVE  Control'
  <1>1. ControlType' /\ CountedClosed'
    BY DEF Inv, TypeOK, ControlType, CountedClosed
  <1>2. pc \in OnFillPoint => Kept(cur)
    BY Stable DEF Inv, Handling
  <1>3. pc \in {"tp", "cancelSl"} => Kept(slId)
    BY Stable DEF Inv, Handling
  <1>4. pc = "readSl" => Kept(pos[cur].tp)
    BY ExitsKept DEF Inv, Handling
  <1>5. Handling'
    BY <1>2, <1>3, <1>4 DEF Inv, Handling, Kept
  <1>. QED BY <1>1, <1>5 DEF Control

(* A closed record never moves again, so what is counted stays closed.     *)
LEMMA ClosedStay ==
  ASSUME Inv, ExchangeKept, TrackerMoves, NEW i \in OrderId, pos[i].state \in Closed
  PROVE  SameRecord(i)
  <1>1. i < nextId /\ nextId \in Int
    BY Stable DEF Closed, Inv, TypeOK
  <1>. QED
    BY <1>1 DEF TrackerMoves, RecordStep, OthersSame, AddStep, AbortStep, ActivateStep, CloseStep,
                Closed

(* Closed records that have been counted stay closed.                      *)
LEMMA CountedKept ==
  ASSUME Inv, ExchangeKept, TrackerMoves, counted' = counted
  PROVE  CountedClosed'
  BY ClosedStay DEF CountedClosed, SameRecord, Inv, TypeOK

(* The tick and process_setup.                                             *)
LEMMA SetupControl ==
  ASSUME Inv, ExchangeKept, TrackerMoves,
         BeginTick \/ SkipSetup \/ AdmitSetup \/ CheckMark \/ SizeOrder \/ PlaceEntry
  PROVE  Control'
  <1>1. CASE BeginTick
    <2>1. \A j \in OrderId : pos'[j].state = pos[j].state
      BY <1>1, AgedKeeps DEF BeginTick, Inv, TypeOK
    <2>2. ControlType'
      BY <1>1 DEF BeginTick, GotoTimeouts, InState, Goto, ClearExits, PC, Inv, TypeOK, ControlType
    <2>3. CountedClosed'
      BY <1>1, <2>1 DEF BeginTick, Inv, TypeOK, CountedClosed
    <2>4. Handling'
      BY <1>1, <2>1 DEF BeginTick, GotoTimeouts, InState, Goto, ClearExits, Handling
    <2>. QED BY <2>2, <2>3, <2>4 DEF Control
  <1>2. CASE SkipSetup
    BY <1>2 DEF SkipSetup, GotoTimeouts, InState, Goto, local, PC, Inv, TypeOK, Control,
                ControlType, CountedClosed, Handling
  <1>3. CASE AdmitSetup
    BY <1>3 DEF AdmitSetup, Goto, local, PC, Inv, TypeOK, Control, ControlType, CountedClosed,
                Handling
  <1>4. CASE CheckMark
    BY <1>4 DEF CheckMark, GotoTimeouts, InState, Goto, local, PC, Inv, TypeOK, Control,
                ControlType, CountedClosed, Handling
  <1>5. CASE SizeOrder
    BY <1>5 DEF SizeOrder, GotoTimeouts, InState, Goto, local, PC, Inv, TypeOK, Control,
                ControlType, CountedClosed, Handling
  <1>6. CASE PlaceEntry
    <2>1. /\ pc' = "timeout" /\ todo' = InState(pos', "PENDING")
          /\ UNCHANGED <<counted, cur, slId, setup, tpFilled>>
          /\ killSwitch' \in BOOLEAN /\ faulted' \in BOOLEAN
      BY <1>6 DEF PlaceEntry, GotoTimeouts, Goto, local, Inv, TypeOK
    <2>2. ControlType'
      BY <2>1 DEF InState, PC, Inv, TypeOK, ControlType
    <2>3. CountedClosed'
      BY <2>1, CountedKept
    <2>4. Handling'
      BY <2>1 DEF InState, Handling
    <2>. QED BY <2>2, <2>3, <2>4 DEF Control
  <1>. QED BY <1>1, <1>2, <1>3, <1>4, <1>5, <1>6

(* tick_timeout_watcher.                                                   *)
LEMMA TimeoutControl ==
  ASSUME Inv, ExchangeKept, TrackerMoves, SkipYoung \/ CancelOverdue \/ TimeoutsDone
  PROVE  Control'
  <1>1. CASE SkipYoung
    BY <1>1 DEF SkipYoung, local, PC, Inv, TypeOK, Control, ControlType, CountedClosed, Handling
  <1>2. CASE CancelOverdue
    <2>1. PICK i, reply :
             /\ i \in todo /\ Note(reply)
             /\ IF reply = "escape" THEN Abandon /\ UNCHANGED pos ELSE GiveUp(i, reply)
      BY <1>2 DEF CancelOverdue
    <2>2. pc = "timeout" /\ UNCHANGED <<killSwitch, counted, cur, slId, setup, tpFilled>>
      BY <1>2 DEF CancelOverdue, local
    <2>3. \/ pc' = "idle" /\ todo' = {}
          \/ /\ pc' = "timeout" /\ todo' = todo \ {i}
             /\ pos' = [pos EXCEPT ![i].state = "ABORTED", ![i].age = 0]
      BY <2>1, <2>2 DEF Abandon, Goto, GiveUp
    <2>4. ControlType'
      BY <2>1, <2>2, <2>3 DEF Note, PC, Inv, TypeOK, ControlType
    <2>5. Handling'
      BY <2>2, <2>3 DEF Inv, TypeOK, Handling
    <2>. QED BY <2>2, <2>4, <2>5, CountedKept DEF Control
  <1>3. CASE TimeoutsDone
    BY <1>3 DEF TimeoutsDone, Goto, ClearLocals, ClearExits, Pending, InState, PC, Inv, TypeOK,
                Control, ControlType, CountedClosed, Handling
  <1>. QED BY <1>1, <1>2, <1>3

(* tick_fill_polling, first loop, and _on_fill.                            *)
LEMMA FillControl ==
  ASSUME Inv, ExchangeKept, TrackerMoves,
         PollEntry \/ QueryFails \/ PlaceSl \/ PlaceTp \/ CancelSl \/ Rollback \/ PollDone
  PROVE  Control'
  <1>1. CASE PollEntry
    <2>1. PICK i \in todo :
             /\ todo' = todo \ {i}
             /\ IF Filled(i) THEN Goto("sl") /\ cur' = i ELSE UNCHANGED <<pc, cur>>
      BY <1>1 DEF PollEntry
    <2>2. pc = "poll" /\ pos[i].state = "PENDING" /\ i \in OrderId
          /\ UNCHANGED <<orders, pos, killSwitch, counted, slId, setup, tpFilled, faulted>>
      BY <1>1, <2>1 DEF PollEntry, exchange, Inv, TypeOK, Handling
    <2>3. ControlType' /\ CountedClosed'
      BY <2>1, <2>2, CountedKept DEF Goto, PC, Inv, TypeOK, ControlType
    <2>4. Handling'
      BY <2>1, <2>2 DEF Goto, Filled, Inv, Handling
    <2>. QED BY <2>3, <2>4 DEF Control
  <1>2. CASE QueryFails
    BY <1>2 DEF QueryFails, Abandon, Goto, local, PC, Inv, TypeOK, Control, ControlType,
                CountedClosed, Handling
  <1>3. CASE PlaceSl
    <2>1. PICK n, reply :
             /\ n \in Nat /\ (reply = "ok" => n > 0)
             /\ Submit(Exit("SL", cur), n)
             /\ slId' = IF reply = "ok" THEN LastId(n) ELSE slId
             /\ faulted' \in BOOLEAN
             /\ Branch(reply, "tp", "rollback")
      BY <1>3, CopiesType DEF PlaceSl, Note, Inv, TypeOK
    <2>2. /\ pc = "sl" /\ cur \in OrderId /\ cur \notin todo /\ pos[cur].state = "PENDING"
          /\ orders[cur].status = "FILLED" /\ \A i \in todo : pos[i].state = "PENDING"
          /\ UNCHANGED <<pos, killSwitch, counted, cur, setup, tpFilled>>
      BY <1>3 DEF PlaceSl, Inv, Handling
    <2>3. /\ Kept(cur) /\ cur < nextId
      BY <2>2, Stable
    <2>4. reply = "ok" => /\ slId' \in OrderId /\ orders'[slId'] = Exit("SL", cur)
      BY <2>1, <2>2, ExitType, SubmitKeeps
    <2>5. \/ pc' = "idle" /\ todo' = {}
          \/ reply = "ok" /\ pc' = "tp" /\ UNCHANGED todo
          \/ pc' = "rollback" /\ UNCHANGED todo
      BY <2>1 DEF Branch, Abandon, Goto
    <2>6. ControlType' /\ CountedClosed'
      BY <2>1, <2>2, <2>4, <2>5, CountedKept DEF PC, Inv, TypeOK, ControlType
    <2>7. reply = "ok" => /\ orders'[slId'].kind = "SL" /\ orders'[slId'].entry = cur
                          /\ orders'[slId'].side = -orders'[cur].side
      BY <2>2, <2>3, <2>4, ExitType DEF Kept
    <2>8. Handling'
      BY <2>2, <2>3, <2>4, <2>5, <2>7 DEF Handling, Kept
    <2>. QED BY <2>6, <2>8 DEF Control
  <1>4. CASE PlaceTp
    <2>1. PICK n, reply :
             /\ n \in Nat /\ (reply = "ok" => n > 0)
             /\ faulted' \in BOOLEAN
             /\ pos' = IF reply = "ok"
                       THEN [pos EXCEPT ![cur] = [state |-> "ACTIVE", sl |-> slId,
                                                  tp |-> LastId(n), age |-> 0]]
                       ELSE pos
             /\ Branch(reply, "poll", "cancelSl")
      BY <1>4, CopiesType DEF PlaceTp, Note, Inv, TypeOK
    <2>2. /\ pc = "tp" /\ cur \in OrderId /\ cur \notin todo /\ pos[cur].state = "PENDING"
          /\ orders[cur].status = "FILLED" /\ \A i \in todo : pos[i].state = "PENDING"
          /\ slId \in OrderId /\ orders[slId].kind = "SL" /\ orders[slId].entry = cur
          /\ orders[slId].side = -orders[cur].side
          /\ UNCHANGED <<killSwitch, counted, cur, slId, setup, tpFilled>>
      BY <1>4 DEF PlaceTp, Inv, Handling, local
    <2>3. Kept(cur) /\ Kept(slId)
      BY <2>2, Stable
    <2>4. \/ pc' = "idle" /\ todo' = {}
          \/ pc' = "poll" /\ UNCHANGED todo
          \/ reply # "ok" /\ pc' = "cancelSl" /\ UNCHANGED todo
      BY <2>1 DEF Branch, Abandon, Goto
    <2>5. ControlType' /\ CountedClosed'
      BY <2>1, <2>2, <2>4, CountedKept DEF PC, Inv, TypeOK, ControlType
    <2>6. \A i \in todo : pos'[i].state = "PENDING"
      BY <2>1, <2>2 DEF Inv, TypeOK
    <2>7. Handling'
      BY <2>1, <2>2, <2>3, <2>4, <2>6 DEF Handling, Kept
    <2>. QED BY <2>5, <2>7 DEF Control
  <1>5. CASE CancelSl
    <2>1. /\ pc = "cancelSl" /\ cur \in OrderId /\ cur \notin todo /\ pos[cur].state = "PENDING"
          /\ orders[cur].status = "FILLED" /\ \A i \in todo : pos[i].state = "PENDING"
          /\ UNCHANGED <<pos, killSwitch, counted, cur, slId, setup, tpFilled, faulted>>
          /\ \/ pc' = "idle" /\ todo' = {}
             \/ pc' = "rollback" /\ UNCHANGED todo
      BY <1>5 DEF CancelSl, Abandon, Goto, local, Inv, Handling
    <2>2. Kept(cur)
      BY <2>1, Stable
    <2>3. ControlType' /\ CountedClosed'
      BY <2>1, CountedKept DEF PC, Inv, TypeOK, ControlType
    <2>4. Handling'
      BY <2>1, <2>2 DEF Handling, Kept
    <2>. QED BY <2>3, <2>4 DEF Control
  <1>6. CASE Rollback
    <2>1. /\ pc = "rollback" /\ cur \in OrderId /\ cur \notin todo
          /\ \A i \in todo : pos[i].state = "PENDING"
          /\ UNCHANGED <<killSwitch, counted, cur, slId, setup, tpFilled, faulted>>
          /\ \/ pc' = "idle" /\ todo' = {}
             \/ /\ pc' = "poll" /\ UNCHANGED todo
                /\ pos' = [pos EXCEPT ![cur] = [NoRecord EXCEPT !.state = "ABORTED"]]
      BY <1>6 DEF Rollback, Abandon, Goto, local, Inv, Handling
    <2>2. ControlType' /\ CountedClosed'
      BY <2>1, CountedKept DEF PC, Inv, TypeOK, ControlType
    <2>3. Handling'
      BY <2>1 DEF Handling, Inv, TypeOK
    <2>. QED BY <2>2, <2>3 DEF Control
  <1>7. CASE PollDone
    BY <1>7 DEF PollDone, Goto, ClearLocals, ClearExits, Active, InState, PC, Inv, TypeOK,
                Control, ControlType, CountedClosed, Handling
  <1>. QED BY <1>1, <1>2, <1>3, <1>4, <1>5, <1>6, <1>7

(* tick_fill_polling, second loop, and _on_position_close.                 *)
LEMMA CloseControl ==
  ASSUME Inv, ExchangeKept, TrackerMoves,
         PollActive \/ ReadTp \/ ReadSl \/ CancelOther \/ Notify \/ EndTick
  PROVE  Control'
  <1>1. CASE PollActive
    <2>1. PICK i \in todo :
             /\ todo' = todo \ {i}
             /\ \/ pc' = "readTp" /\ cur' = i
                \/ UNCHANGED <<pc, cur>>
      BY <1>1 DEF PollActive, Goto
    <2>2. pc = "close" /\ pos[i].state = "ACTIVE" /\ i \in OrderId
          /\ UNCHANGED <<orders, pos, killSwitch, counted, slId, setup, tpFilled, faulted>>
      BY <1>1, <2>1 DEF PollActive, exchange, Inv, TypeOK, Handling
    <2>3. ControlType' /\ CountedClosed'
      BY <2>1, <2>2, CountedKept DEF PC, Inv, TypeOK, ControlType
    <2>4. Handling'
      BY <2>1, <2>2 DEF Inv, Handling
    <2>. QED BY <2>3, <2>4 DEF Control
  <1>2. CASE ReadTp
    <2>1. tpFilled' \in BOOLEAN /\ (tpFilled' => orders[pos[cur].tp].status = "FILLED")
      BY <1>2 DEF ReadTp, Filled
    <2>2. pc = "readTp" /\ pc' = "readSl"
          /\ UNCHANGED <<orders, pos, killSwitch, counted, todo, cur, slId, setup, faulted>>
      BY <1>2 DEF ReadTp, Goto, exchange
    <2>3. ControlType' /\ CountedClosed'
      BY <2>1, <2>2, CountedKept DEF PC, Inv, TypeOK, ControlType
    <2>4. Handling'
      BY <2>1, <2>2 DEF Inv, Handling
    <2>. QED BY <2>3, <2>4 DEF Control
  <1>3. CASE ReadSl
    <2>1. /\ pc = "readSl" /\ cur \in OrderId /\ cur \notin todo /\ pos[cur].state = "ACTIVE"
          /\ \A i \in todo : pos[i].state = "ACTIVE"
          /\ UNCHANGED <<orders, killSwitch, counted, todo, cur, slId, setup, tpFilled, faulted>>
      BY <1>3 DEF ReadSl, exchange, local, Inv, Handling
    <2>2. \/ /\ pos' = [pos EXCEPT ![cur].state = IF tpFilled THEN "CLOSED_WIN" ELSE "CLOSED_LOSS"]
             /\ pc' = "cancelOther"
          \/ pc' = "close" /\ UNCHANGED pos
      BY <1>3 DEF ReadSl, Goto
    <2>3. ControlType' /\ CountedClosed'
      BY <2>1, <2>2, CountedKept DEF PC, Inv, TypeOK, ControlType
    <2>4. cur \notin counted
      BY <2>1 DEF Inv, CountedClosed, Closed
    <2>5. pc' = "cancelOther" => pos'[cur].state \in Closed
      <3> DEFINE outcome == IF tpFilled THEN "CLOSED_WIN" ELSE "CLOSED_LOSS"
      <3>1. outcome \in Closed
        BY DEF Closed
      <3>2. pc' = "cancelOther" => pos' = [pos EXCEPT ![cur].state = outcome]
        BY <2>2
      <3>. HIDE DEF outcome
      <3>. QED BY <2>1, <3>1, <3>2 DEF Inv, TypeOK, Record
    <2>6. \A i \in todo : pos'[i].state = "ACTIVE"
      BY <2>1, <2>2 DEF Inv, TypeOK
    <2>7. Handling'
      BY <2>1, <2>2, <2>4, <2>5, <2>6 DEF Handling
    <2>. QED BY <2>3, <2>7 DEF Control
  <1>4. CASE CancelOther
    <2>1. PICK reply : Note(reply) /\ Branch(reply, "notify", "notify")
      BY <1>4 DEF CancelOther
    <2>2. /\ pc = "cancelOther" /\ UNCHANGED <<pos, killSwitch, counted, cur, slId, setup, tpFilled>>
          /\ \/ pc' = "idle" /\ todo' = {}
             \/ pc' = "notify" /\ UNCHANGED todo
      BY <1>4, <2>1 DEF CancelOther, Branch, Abandon, Goto, local
    <2>3. ControlType' /\ CountedClosed'
      BY <2>1, <2>2, CountedKept DEF Note, PC, Inv, TypeOK, ControlType
    <2>4. Handling'
      BY <2>2 DEF Inv, Handling
    <2>. QED BY <2>3, <2>4 DEF Control
  <1>5. CASE Notify
    <2>1. /\ pc = "notify" /\ pc' = "close"
          /\ UNCHANGED <<orders, pos, todo, cur, slId, setup, tpFilled>>
          /\ counted' \subseteq counted \cup {cur}
          /\ killSwitch' \in BOOLEAN /\ faulted' \in BOOLEAN
      BY <1>5 DEF Notify, CheckAfterTrade, Goto, exchange, local, Inv, TypeOK
    <2>2. cur \in OrderId /\ pos[cur].state \in Closed /\ \A i \in todo : pos[i].state = "ACTIVE"
      BY <2>1 DEF Inv, Handling
    <2>3. ControlType'
      BY <2>1, <2>2 DEF PC, Inv, TypeOK, ControlType
    <2>4. CountedClosed'
      BY <2>1, <2>2 DEF Inv, CountedClosed
    <2>5. Handling'
      BY <2>1, <2>2 DEF Handling
    <2>. QED BY <2>3, <2>4, <2>5 DEF Control
  <1>6. CASE EndTick
    BY <1>6 DEF EndTick, Goto, ClearLocals, ClearExits, PC, Inv, TypeOK, Control, ControlType,
                CountedClosed, Handling
  <1>. QED BY <1>1, <1>2, <1>3, <1>4, <1>5, <1>6

-----------------------------------------------------------------------------
(* The invariant                                                           *)

(* The inductive invariant holds at the start.                             *)
LEMMA InvInit == Init => Inv
  <1> SUFFICES ASSUME Init PROVE Inv
    OBVIOUS
  <1>1. TypeOK
    <2>1. orders \in [OrderId -> Order] /\ pos \in [OrderId -> Record]
      BY NoOrderType, NoRecordType DEF Init
    <2>2. nextId \in 1..(MaxOrders + 1) /\ net \in Int
      BY DEF Init
    <2>3. /\ killSwitch \in BOOLEAN /\ counted \subseteq OrderId
          /\ pc \in PC /\ todo \subseteq OrderId
          /\ cur \in OrderId \cup {NoId} /\ slId \in OrderId \cup {NoId}
          /\ setup \in Sides \cup {0} /\ tpFilled \in BOOLEAN /\ faulted \in BOOLEAN
          /\ audit \subseteq AuditEvent \X OrderId
      BY DEF Init, PC
    <2>. QED BY <2>1, <2>2, <2>3 DEF TypeOK
  <1>2. FreshIds /\ EntriesReal /\ CountedClosed /\ ExitsAreOwn /\ OutcomeIsTrue
    BY DEF Init, FreshIds, EntriesReal, CountedClosed, ExitsAreOwn, OutcomeIsTrue, NoRecord, Closed
  <1>3. Handling
    BY DEF Init, Handling
  <1>. QED BY <1>1, <1>2, <1>3 DEF Inv

(* A handler of BinanceOrderErrors writes an event of its record.          *)
LEMMA AlarmedType ==
  ASSUME Inv, NEW reply, NEW event \in AuditEvent, NEW i \in OrderId
  PROVE  /\ audit \subseteq Alarmed(reply, event, i)
         /\ Alarmed(reply, event, i) \subseteq AuditEvent \X OrderId
  BY DEF Alarmed, Inv, TypeOK

(* The audit log only grows, by events of tracked records.                 *)
LEMMA AuditStep ==
  ASSUME Inv, [Next]_vars
  PROVE  audit \subseteq audit' /\ audit' \subseteq AuditEvent \X OrderId
  <1>0. audit \subseteq AuditEvent \X OrderId
    BY DEF Inv, TypeOK
  <1>1. CASE CancelOverdue
    <2>1. PICK i \in todo : \E reply \in CancelReply(i) :
                               audit' = Alarmed(reply, "ORDER_CANCEL_FAILED", i)
      BY <1>1 DEF CancelOverdue
    <2>2. i \in OrderId /\ "ORDER_CANCEL_FAILED" \in AuditEvent
      BY DEF Inv, TypeOK, AuditEvent, Alarm
    <2>. QED BY <2>1, <2>2, AlarmedType
  <1>2. CASE CancelSl
    <2>1. PICK reply : audit' = Alarmed(reply, "ROLLBACK_SL_CANCEL_FAILED", cur)
      BY <1>2 DEF CancelSl
    <2>2. cur \in OrderId /\ "ROLLBACK_SL_CANCEL_FAILED" \in AuditEvent
      BY <1>2 DEF CancelSl, Inv, Handling, AuditEvent, Alarm
    <2>. QED BY <2>1, <2>2, AlarmedType
  <1>3. CASE Rollback
    <2>1. PICK reply :
             audit' = IF reply = "ok" THEN audit \cup {<<"ORDER_ROLLBACK", cur>>}
                      ELSE Alarmed(reply, "ROLLBACK_EMERGENCY_CLOSE_FAILED", cur)
      BY <1>3 DEF Rollback
    <2>2. /\ cur \in OrderId /\ "ROLLBACK_EMERGENCY_CLOSE_FAILED" \in AuditEvent
          /\ "ORDER_ROLLBACK" \in AuditEvent
      BY <1>3 DEF Rollback, Inv, Handling, AuditEvent, Alarm
    <2>. QED BY <1>0, <2>1, <2>2, AlarmedType
  <1>4. CASE UNCHANGED audit
    BY <1>0, <1>4
  <1>. QED
    BY <1>1, <1>2, <1>3, <1>4
    DEF Next, Service, Environment, vars, service, BeginTick, SkipSetup, AdmitSetup, CheckMark,
        SizeOrder, PlaceEntry, SkipYoung, TimeoutsDone, PollEntry, QueryFails, PlaceSl, PlaceTp,
        PollDone, PollActive, ReadTp, ReadSl, CancelOther, Notify, EndTick, Fill, Expire,
        CloseByHand, OtherSymbolTrips

(* Every step preserves the inductive invariant.                           *)
LEMMA InvStep == Inv /\ [Next]_vars => Inv'
  <1> SUFFICES ASSUME Inv, [Next]_vars PROVE Inv'
    OBVIOUS
  <1>1. ExchangeKept /\ TrackerMoves /\ pos' \in [OrderId -> Record]
    BY ExchangeStep, TrackerStep
  <1>2. FreshIds' /\ EntriesReal' /\ ExitsAreOwn' /\ OutcomeIsTrue'
    BY <1>1, FreshStep, EntriesStep, ExitsStep, OutcomeStep
  <1>3. Control'
    <2>1. CASE Service
      BY <1>1, <2>1, SetupControl, TimeoutControl, FillControl, CloseControl DEF Service
    <2>2. CASE Environment \/ UNCHANGED vars
      <3>1. /\ killSwitch' \in BOOLEAN /\ faulted' = faulted
            /\ UNCHANGED <<pos, counted, pc, todo, cur, slId, setup, tpFilled>>
        BY <2>2 DEF Environment, Fill, Expire, CloseByHand, OtherSymbolTrips, service, local,
                    vars, Inv, TypeOK
      <3>2. faulted' \in BOOLEAN
        BY <3>1 DEF Inv, TypeOK
      <3>. QED BY <1>1, <3>1, <3>2, ControlKept
    <2>. QED BY <2>1, <2>2 DEF Next
  <1>4. TypeOK'
    BY <1>1, <1>3, AuditStep DEF ExchangeKept, Control, ControlType, TypeOK
  <1>. QED BY <1>2, <1>3, <1>4 DEF Inv, Control

(* The invariant holds in every reachable state.                           *)
THEOREM InvHolds == Spec => []Inv
  BY InvInit, InvStep, PTL DEF Spec

(* Every variable of the order manager's model keeps its type.             *)
THEOREM TypeCorrect == Spec => []TypeOK
  <1>1. Inv => TypeOK
    BY DEF Inv
  <1>. QED BY <1>1, InvHolds, PTL

(* An active or closed position has an SL and a TP of its own, whatever    *)
(* fails, is retried or is cancelled by hand.                              *)
THEOREM ExitsAlwaysOwn == Spec => []ExitsAreOwn
  <1>1. Inv => ExitsAreOwn
    BY DEF Inv
  <1>. QED BY <1>1, InvHolds, PTL

(* A recorded win has a filled TP, a recorded loss a filled SL.            *)
THEOREM OutcomeAlwaysTrue == Spec => []OutcomeIsTrue
  <1>1. Inv => OutcomeIsTrue
    BY DEF Inv
  <1>. QED BY <1>1, InvHolds, PTL

(* No trade is counted twice: at "notify" the record is not counted yet.   *)
THEOREM NeverCountedTwice == Spec => CountedOnce
  <1>1. Inv /\ [Next]_vars => [Notify => cur \notin counted]_vars
    BY DEF Inv, Handling, Notify
  <1>. QED BY <1>1, InvHolds, PTL DEF Spec, CountedOnce

-----------------------------------------------------------------------------
(* The cap on concurrent positions                                         *)

(* PENDING and ACTIVE records are counted apart by the code and together   *)
(* by the proof.                                                           *)
LEMMA LiveCount ==
  /\ IsFiniteSet(Live) /\ Cardinality(Live) \in Nat
  /\ Cardinality(Pending) + Cardinality(Active) = Cardinality(Live)
  <1>1. IsFiniteSet(OrderId)
    BY FS_Interval
  <1>2. Live \subseteq OrderId /\ Pending \subseteq OrderId /\ Active \subseteq OrderId
    BY DEF Live, Pending, Active, InState
  <1>3. IsFiniteSet(Live) /\ IsFiniteSet(Pending) /\ IsFiniteSet(Active)
    BY <1>1, <1>2, FS_Subset
  <1>4. Live = Pending \cup Active /\ Pending \cap Active = {}
    BY DEF Live, Pending, Active, InState
  <1>5. Cardinality(Pending) \in Nat /\ Cardinality(Active) \in Nat /\ Cardinality(Live) \in Nat
    BY <1>3, FS_CardinalityType
  <1>6. Cardinality(Live) = Cardinality(Pending) + Cardinality(Active) - Cardinality({})
    BY <1>3, <1>4, FS_Union
  <1>. QED BY <1>3, <1>5, <1>6, FS_EmptySet

(* The only way past the guard is through it.                              *)
LEMMA GuardStep ==
  ASSUME [Next]_vars, pc' \in {"mark", "size", "place"}
  PROVE  pc \in {"mark", "size", "place"} \/ (pc = "setup" /\ ~Blocked)
  BY DEF Next, Service, Environment, vars, service, BeginTick, SkipSetup, AdmitSetup, CheckMark,
         SizeOrder, PlaceEntry, SkipYoung, CancelOverdue, GiveUp, TimeoutsDone, PollEntry,
         QueryFails, PlaceSl, PlaceTp, CancelSl, Rollback, PollDone, PollActive, ReadTp, ReadSl,
         CancelOther, Notify, EndTick, Goto, GotoTimeouts, Abandon, Branch, Fill, Expire,
         CloseByHand, OtherSymbolTrips

(* An empty tracker is under the cap.                                      *)
LEMMA CapInit == Init => CapInv
  <1> SUFFICES ASSUME Init, Cap > 0 PROVE Cardinality(Live) <= Cap /\ pc = "idle"
    BY DEF CapInv
  <1>1. Live = {}
    BY DEF Init, Live, NoRecord
  <1>. QED BY <1>1, FS_EmptySet DEF Init

(* Every step keeps the tracker under the cap, and room for an entry ahead. *)
LEMMA CapStep == Inv /\ CapInv /\ [Next]_vars => CapInv'
  <1> SUFFICES ASSUME Inv, CapInv, [Next]_vars, Cap > 0
               PROVE  /\ Cardinality(Live') <= Cap
                      /\ pc' \in {"mark", "size", "place"} => Cardinality(Live') < Cap
    BY DEF CapInv
  <1>1. IsFiniteSet(Live) /\ Cardinality(Live) \in Nat /\ Cardinality(Live) <= Cap
    BY LiveCount DEF CapInv
  <1>2. CASE \E i \in OrderId : OthersSame(i) /\ AddStep(i)
    <2>1. PICK i \in OrderId : OthersSame(i) /\ AddStep(i)
      BY <1>2
    <2>2. pc = "place" /\ pc' = "timeout" /\ Live' = Live \cup {i}
      BY <2>1 DEF AddStep, OthersSame, SameRecord, Live
    <2>3. Cardinality(Live) < Cap
      BY <2>2 DEF CapInv
    <2>4. Cardinality(Live') <= Cardinality(Live) + 1
      BY <1>1, <2>2, FS_AddElement
    <2>5. Cardinality(Live') \in Nat
      <3>1. IsFiniteSet(Live')
        BY <1>1, <2>2, FS_AddElement
      <3>. QED BY <3>1, FS_CardinalityType
    <2>. QED BY <1>1, <2>2, <2>3, <2>4, <2>5
  <1>3. CASE ~\E i \in OrderId : OthersSame(i) /\ AddStep(i)
    <2>1. Live' \subseteq Live
      BY <1>3, TrackerStep
      DEF TrackerMoves, RecordStep, OthersSame, SameRecord, AbortStep, ActivateStep, CloseStep,
          Closed, Live
    <2>2. Cardinality(Live') <= Cardinality(Live) /\ Cardinality(Live') \in Nat
      BY <1>1, <2>1, FS_Subset, FS_CardinalityType
    <2>3. pc' \in {"mark", "size", "place"} => Cardinality(Live) < Cap
      BY GuardStep, LiveCount DEF CapInv, Blocked
    <2>. QED BY <1>1, <2>2, <2>3
  <1>. QED BY <1>2, <1>3

(* The cap is never exceeded, although it is checked long before the add   *)
(* and positions move from PENDING to ACTIVE in between.                   *)
THEOREM CapAlwaysRespected == Spec => []CapRespected
  <1>1. Init => CapInv
    BY CapInit
  <1>2. Inv /\ CapInv /\ [Next]_vars => CapInv'
    BY CapStep
  <1>3. CapInv => CapRespected
    BY LiveCount DEF CapInv, CapRespected
  <1>. QED BY <1>1, <1>2, <1>3, InvHolds, PTL DEF Spec

-----------------------------------------------------------------------------
(* The tracker's records refine the state machine of PositionLifecycle     *)

(* The empty tracker is the lifecycle's initial state.                     *)
LEMMA LifecycleInit == Init => Tracker!Init
  BY DEF Init, Tracker!Init, NoRecord

(* Every step is a step of the lifecycle or leaves every state alone.      *)
LEMMA LifecycleStep ==
  Inv /\ [Next]_vars => [Tracker!Next]_([i \in OrderId |-> pos[i].state])
  <1> DEFINE state == [i \in OrderId |-> pos[i].state]
  <1> SUFFICES ASSUME Inv, [Next]_vars PROVE Tracker!Next \/ state' = state
    OBVIOUS
  <1>1. TrackerMoves
    BY TrackerStep
  <1>2. CASE \A j \in OrderId : SameRecord(j)
    BY <1>2 DEF SameRecord
  <1>3. CASE \E i \in OrderId : OthersSame(i) /\ RecordStep(i)
    <2>1. PICK i \in OrderId : OthersSame(i) /\ RecordStep(i)
      BY <1>3
    <2>2. state' = [state EXCEPT ![i] = pos'[i].state] /\ state[i] = pos[i].state
      BY <2>1 DEF OthersSame, SameRecord
    <2>. HIDE DEF state
    <2>3. CASE AddStep(i)
      <3>1. pos[i].state = "NONE" /\ pos'[i].state = "PENDING"
        BY <2>3 DEF AddStep, Inv, FreshIds, TypeOK
      <3>2. Tracker!Add(i)
        BY <2>2, <3>1 DEF Tracker!Add, Tracker!Transition, state
      <3>. QED BY <3>2 DEF Tracker!Next
    <2>4. CASE AbortStep(i)
      <3>1. Tracker!OnTimeout(i)
        BY <2>2, <2>4 DEF Tracker!OnTimeout, Tracker!Transition, state, AbortStep
      <3>. QED BY <3>1 DEF Tracker!Next
    <2>5. CASE ActivateStep(i)
      <3>1. Tracker!OnFill(i)
        BY <2>2, <2>5 DEF Tracker!OnFill, Tracker!Transition, state, ActivateStep
      <3>. QED BY <3>1 DEF Tracker!Next
    <2>6. CASE CloseStep(i)
      <3>1. Tracker!OnTpHit(i) \/ Tracker!OnSlHit(i)
        BY <2>2, <2>6
        DEF Tracker!OnTpHit, Tracker!OnSlHit, Tracker!Transition, state, CloseStep, Closed
      <3>. QED BY <3>1 DEF Tracker!Next
    <2>. QED BY <2>1, <2>3, <2>4, <2>5, <2>6 DEF RecordStep
  <1>. QED BY <1>1, <1>2, <1>3 DEF TrackerMoves

(* Every behaviour of the order manager is, record by record, one of       *)
(* position_tracker.py's state machine: no mutation it calls would raise   *)
(* IllegalStateTransition.                                                 *)
THEOREM ImplementsLifecycle == Spec => Lifecycle
  <1>1. Init => Tracker!Init
    BY LifecycleInit
  <1>2. Inv /\ [Next]_vars => [Tracker!Next]_([i \in OrderId |-> pos[i].state])
    BY LifecycleStep
  <1>. QED BY <1>1, <1>2, InvHolds, PTL DEF Spec, Lifecycle, Tracker!Spec

-----------------------------------------------------------------------------
(* Bug D: a filled entry is protected once                                 *)

(* An exit names an entry, and one that is still PENDING only while        *)
(* _on_fill is at work on it with the SL in place.                         *)
ExitOwners ==
    \A o \in OrderId : orders[o].kind \in {"SL", "TP"} =>
        /\ orders[o].entry \in OrderId /\ orders[o].entry < nextId
        /\ pos[orders[o].entry].state = "PENDING" =>
             /\ orders[o].kind = "SL" /\ cur = orders[o].entry
             /\ pc \in {"tp", "cancelSl", "rollback"}

ProtectInv == ProtectedOnce /\ ExitOwners

(* What the theorem assumes of the environment: failures are               *)
(* BinanceOrderErrors and a reply tells what happened.                     *)
TrueReplies == "escape" \notin Faults /\ "lost" \notin Faults

(* Then a request reaches the exchange exactly when it is answered.        *)
LEMMA OneCopy ==
  ASSUME TrueReplies, NEW reply \in Reply, NEW n \in Copies(reply)
  PROVE  reply \in {"ok", "error"} /\ n = IF reply = "ok" THEN 1 ELSE 0
  BY DEF TrueReplies, Reply, Copies

(* A record that is PENDING after a step, and not a new one, was PENDING.  *)
LEMMA PendingBefore ==
  ASSUME Inv, ExchangeKept, TrackerMoves, NEW i \in OrderId, i < nextId
  PROVE  /\ i < nextId'
         /\ pos'[i].state = "PENDING" => pos[i].state = "PENDING"
  <1>1. nextId \in Int /\ nextId' \in Int /\ nextId' >= nextId
    BY DEF Inv, TypeOK, ExchangeKept
  <1>. QED
    BY <1>1 DEF TrackerMoves, RecordStep, OthersSame, SameRecord, AddStep, AbortStep, ActivateStep,
                CloseStep, Closed

(* Between the SL and the end of _on_fill nothing else happens to `cur`.   *)
LEMMA FillPath ==
  ASSUME Inv, [Next]_vars, TrueReplies, pc \in {"tp", "cancelSl", "rollback"}, ~PlaceTp
  PROVE  /\ cur' = cur
         /\ pc' \in {"tp", "cancelSl", "rollback"} \/ pos'[cur].state = "ABORTED"
  <1>1. CASE CancelSl
    BY <1>1 DEF CancelSl, CancelReply, Reply, TrueReplies, Goto, local
  <1>2. CASE Rollback
    <2>1. cur \in OrderId /\ cur' = cur
      BY <1>2 DEF Rollback, local, Inv, Handling
    <2>2. pos' = [pos EXCEPT ![cur] = [NoRecord EXCEPT !.state = "ABORTED"]]
      BY <1>2 DEF Rollback, Reply, TrueReplies
    <2>3. pos'[cur].state = "ABORTED"
      BY <2>1, <2>2 DEF Inv, TypeOK, NoRecord
    <2>. QED BY <2>1, <2>3
  <1>3. CASE Environment \/ UNCHANGED vars
    BY <1>3 DEF Environment, Fill, Expire, CloseByHand, OtherSymbolTrips, service, local, vars
  <1>. QED
    BY <1>1, <1>2, <1>3
    DEF Next, Service, BeginTick, SkipSetup, AdmitSetup, CheckMark, SizeOrder, PlaceEntry,
        SkipYoung, CancelOverdue, TimeoutsDone, PollEntry, QueryFails, PlaceSl, PollDone,
        PollActive, ReadTp, ReadSl, CancelOther, Notify, EndTick

(* Only the three placements hand out ids.                                 *)
LEMMA IdsKept ==
  ASSUME Inv, [Next]_vars, ~PlaceEntry, ~PlaceSl, ~PlaceTp
  PROVE  nextId' = nextId
  BY DEF Next, Service, Environment, vars, exchange, BeginTick, SkipSetup, AdmitSetup, CheckMark,
         SizeOrder, SkipYoung, CancelOverdue, TimeoutsDone, PollEntry, QueryFails, CancelSl,
         Rollback, PollDone, PollActive, ReadTp, ReadSl, CancelOther, Notify, EndTick, Cancel,
         Fill, Expire, CloseByHand, OtherSymbolTrips

(* No exit has been placed at the start.                                   *)
LEMMA ProtectInit == Init => ProtectInv
  BY DEF Init, ProtectInv, ProtectedOnce, ExitOwners, NoOrder

(* With true replies no step protects an entry a second time.              *)
LEMMA ProtectStep == TrueReplies /\ Inv /\ ProtectInv /\ [Next]_vars => ProtectInv'
  <1> SUFFICES ASSUME TrueReplies, Inv, ProtectInv, [Next]_vars PROVE ProtectInv'
    OBVIOUS
  <1>1. ExchangeKept /\ TrackerMoves /\ nextId \in Int
    BY ExchangeStep, TrackerStep DEF Inv, TypeOK
  <1>a. cur \in OrderId /\ pos[cur].state = "PENDING" => cur < nextId'
    BY <1>1, Stable DEF ExchangeKept
  <1>2. \A o \in OrderId : o < nextId =>
          orders'[o].kind = orders[o].kind /\ orders'[o].entry = orders[o].entry
    BY <1>1 DEF ExchangeKept, Kept
  <1>3. ASSUME NEW o \in OrderId, o < nextId, orders'[o].kind \in {"SL", "TP"}
        PROVE  /\ orders'[o].entry \in OrderId
               /\ orders'[o].entry < nextId /\ orders'[o].entry < nextId'
               /\ pos'[orders'[o].entry].state = "PENDING" =>
                    /\ pos[orders'[o].entry].state = "PENDING"
                    /\ orders'[o].kind = "SL" /\ cur = orders'[o].entry
                    /\ pc \in {"tp", "cancelSl", "rollback"}
    BY <1>1, <1>2, <1>3, PendingBefore DEF ProtectInv, ExitOwners
  <1>4. ASSUME NEW a \in OrderId, NEW b \in OrderId, a < nextId, b < nextId,
               orders'[a].kind \in {"SL", "TP"}, orders'[a].kind = orders'[b].kind,
               orders'[a].entry = orders'[b].entry
        PROVE  a = b
    BY <1>2, <1>4 DEF ProtectInv, ProtectedOnce
  <1>5. CASE PlaceEntry
    <2>1. PICK n \in Nat : Submit(NewOrder("ENTRY", setup, NoId), n)
      BY <1>5, CopiesType DEF PlaceEntry
    <2>2. setup \in {-1, 0, 1} /\ "ENTRY" \in OrderKind
      BY DEF Inv, TypeOK, OrderKind
    <2>3. NewOrder("ENTRY", setup, NoId) \in Order /\ NewOrder("ENTRY", setup, NoId).kind = "ENTRY"
      BY <2>2, NewOrderType
    <2>4. \A o \in OrderId : orders'[o].kind \in {"SL", "TP"} => o < nextId
      BY <1>1, <2>1, <2>3, SubmitKeeps DEF NoOrder
    <2>5. pc = "place"
      BY <1>5 DEF PlaceEntry
    <2>. QED BY <1>3, <1>4, <2>4, <2>5 DEF ProtectInv, ProtectedOnce, ExitOwners
  <1>6. CASE PlaceSl
    <2>1. PICK n, reply :
             /\ reply \in Reply /\ n \in Copies(reply)
             /\ Submit(Exit("SL", cur), n) /\ Branch(reply, "tp", "rollback")
      BY <1>6 DEF PlaceSl
    <2>2. /\ pc = "sl" /\ cur \in OrderId /\ cur' = cur /\ pos[cur].state = "PENDING"
          /\ UNCHANGED pos
      BY <1>6 DEF PlaceSl, Inv, Handling
    <2>3. n \in Nat /\ n <= 1 /\ pc' \in {"tp", "rollback"}
      BY <2>1, OneCopy DEF Branch, Goto
    <2>4. \A o \in OrderId : o >= nextId /\ orders'[o].kind \in {"SL", "TP"} =>
            o = nextId /\ orders'[o].kind = "SL" /\ orders'[o].entry = cur
      BY <1>1, <2>1, <2>2, <2>3, ExitType, SubmitKeeps DEF NoOrder
    <2>5. \A o \in OrderId : o < nextId /\ orders'[o].kind \in {"SL", "TP"} =>
            orders'[o].entry # cur
      BY <1>3, <2>2
    <2>6. ProtectedOnce'
      BY <1>1, <1>4, <2>4, <2>5 DEF ProtectedOnce
    <2>7. ExitOwners'
      BY <1>1, <1>a, <1>3, <2>2, <2>3, <2>4 DEF ExitOwners
    <2>. QED BY <2>6, <2>7 DEF ProtectInv
  <1>7. CASE PlaceTp
    <2>1. PICK n, reply :
             /\ reply \in Reply /\ n \in Copies(reply)
             /\ Submit(Exit("TP", cur), n) /\ Branch(reply, "poll", "cancelSl")
             /\ reply = "ok" => pos' = [pos EXCEPT ![cur] = [state |-> "ACTIVE", sl |-> slId,
                                                           tp |-> LastId(n), age |-> 0]]
      BY <1>7 DEF PlaceTp
    <2>2. pc = "tp" /\ cur \in OrderId /\ cur' = cur
      BY <1>7 DEF PlaceTp, local, Inv, Handling
    <2>3. /\ n \in Nat /\ n <= 1 /\ (reply # "ok" => n = 0)
          /\ reply # "ok" => pc' = "cancelSl"
      BY <2>1, OneCopy DEF Branch, Goto
    <2>4. reply = "ok" => pos'[cur].state = "ACTIVE"
      BY <2>1, <2>2 DEF Inv, TypeOK
    <2>5. \A o \in OrderId : o >= nextId /\ orders'[o].kind \in {"SL", "TP"} =>
            reply = "ok" /\ o = nextId /\ orders'[o].kind = "TP" /\ orders'[o].entry = cur
      BY <1>1, <2>1, <2>2, <2>3, ExitType, SubmitKeeps DEF NoOrder
    <2>6. \A o \in OrderId : o < nextId /\ orders'[o].kind = "TP" => orders'[o].entry # cur
      <3>1. pos[cur].state = "PENDING"
        BY <2>2 DEF Inv, Handling
      <3>. QED BY <1>2, <3>1 DEF ProtectInv, ExitOwners
    <2>7. ProtectedOnce'
      BY <1>1, <1>4, <2>5, <2>6 DEF ProtectedOnce
    <2>8. ExitOwners'
      <3>1. pos[cur].state = "PENDING"
        BY <2>2 DEF Inv, Handling
      <3>. QED BY <1>1, <1>a, <1>3, <2>2, <2>3, <2>4, <2>5, <3>1 DEF ExitOwners
    <2>. QED BY <2>7, <2>8 DEF ProtectInv
  <1>8. CASE ~PlaceEntry /\ ~PlaceSl /\ ~PlaceTp
    <2>1. \A o \in OrderId : orders'[o].kind \in {"SL", "TP"} => o < nextId
      BY <1>1, <1>8, IdsKept DEF ExchangeKept, NoOrder
    <2>2. pc \in {"tp", "cancelSl", "rollback"} =>
            /\ cur' = cur
            /\ pc' \in {"tp", "cancelSl", "rollback"} \/ pos'[cur].state = "ABORTED"
      BY <1>8, FillPath
    <2>. QED BY <1>3, <1>4, <2>1, <2>2 DEF ProtectInv, ProtectedOnce, ExitOwners
  <1>. QED BY <1>5, <1>6, <1>7, <1>8

(* As long as failures are BinanceOrderErrors and replies are true, no     *)
(* entry ever has two SLs or two TPs.                                      *)
THEOREM AlwaysProtectedOnce == TrueReplies => (Spec => []ProtectedOnce)
  <1> SUFFICES ASSUME TrueReplies PROVE Spec => []ProtectedOnce
    OBVIOUS
  <1>1. Init => ProtectInv
    BY ProtectInit
  <1>2. Inv /\ ProtectInv /\ [Next]_vars => ProtectInv'
    BY ProtectStep
  <1>3. ProtectInv => ProtectedOnce
    BY DEF ProtectInv
  <1>. QED BY <1>1, <1>2, <1>3, InvHolds, PTL DEF Spec

-----------------------------------------------------------------------------
(* Between ticks the kill switch has seen every result, as long as no call *)
(* that guards a position has failed.                                      *)

(* A closed record was counted, unless the thread is still at it.          *)
Reported ==
    ~faulted => \A i \in OrderId : pos[i].state \in Closed =>
        i \in counted \/ (pc \in ClosedPoint /\ cur = i)

(* Once a call has failed, it has failed.                                  *)
LEMMA FaultStays ==
  ASSUME Inv, [Next]_vars, faulted
  PROVE  faulted'
  <1>1. faulted' = TRUE \/ faulted' = faulted \/ \E x : faulted' = (faulted \/ x)
    BY DEF Next, Service, Environment, vars, BeginTick, SkipSetup, AdmitSetup, CheckMark,
        SizeOrder, PlaceEntry, SkipYoung, CancelOverdue, TimeoutsDone, PollEntry, QueryFails,
        PlaceSl, PlaceTp, CancelSl, Rollback, PollDone, PollActive, ReadTp, ReadSl, CancelOther,
        Notify, EndTick, Fill, Expire, CloseByHand, OtherSymbolTrips, service, Note
  <1>. QED BY <1>1

(* A record ends CLOSED in ReadSl, and the thread goes on to its exits.    *)
LEMMA NewlyClosed ==
  ASSUME Inv, [Next]_vars, NEW i \in OrderId,
         pos[i].state \notin Closed, pos'[i].state \in Closed
  PROVE  i = cur /\ cur' = cur /\ pc' = "cancelOther" /\ counted' = counted
  <1>0. pos \in [OrderId -> Record]
    BY DEF Inv, TypeOK
  <1>1. CASE ReadSl
    <2>1. \/ UNCHANGED pos
          \/ /\ pc' = "cancelOther"
             /\ pos' = [pos EXCEPT ![cur].state = IF tpFilled THEN "CLOSED_WIN" ELSE "CLOSED_LOSS"]
      BY <1>1 DEF ReadSl, Goto
    <2>2. UNCHANGED <<counted, cur>>
      BY <1>1 DEF ReadSl, local
    <2>3. pos' # pos
      OBVIOUS
    <2>4. i = cur
      BY <1>0, <2>1, <2>3
    <2>. QED BY <2>1, <2>2, <2>3, <2>4
  <1>2. CASE BeginTick
    <2>1. pos'[i] = Aged(pos[i]) /\ pos[i] \in Record
      BY <1>0, <1>2 DEF BeginTick
    <2>. QED BY <2>1, AgedKeeps
  <1>3. CASE PlaceEntry
    <2>1. pos' = pos \/ \E o : pos' = [pos EXCEPT ![o] = [NoRecord EXCEPT !.state = "PENDING"]]
      BY <1>3 DEF PlaceEntry, Added
    <2>2. [NoRecord EXCEPT !.state = "PENDING"].state = "PENDING"
      BY DEF NoRecord
    <2>. QED BY <1>0, <2>1, <2>2 DEF Closed
  <1>4. CASE CancelOverdue
    <2>1. pos' = pos \/ \E o : pos' = [pos EXCEPT ![o].state = "ABORTED", ![o].age = 0]
      BY <1>4 DEF CancelOverdue, GiveUp
    <2>2. CASE pos' = pos
      BY <2>2
    <2>3. CASE \E o : pos' = [pos EXCEPT ![o].state = "ABORTED", ![o].age = 0]
      <3>1. PICK o : pos' = [pos EXCEPT ![o].state = "ABORTED", ![o].age = 0]
        BY <2>3
      <3>2. CASE o = i
        <4>1. pos'[i] = [pos[i] EXCEPT !.state = "ABORTED", !.age = 0] /\ pos[i] \in Record
          BY <1>0, <3>1, <3>2
        <4>. QED BY <4>1, AbortedType DEF Closed
      <3>3. CASE o # i
        BY <1>0, <3>1, <3>3
      <3>. QED BY <3>2, <3>3
    <2>. QED BY <2>1, <2>2, <2>3
  <1>5. CASE PlaceTp
    <2>1. pos' = pos \/ \E t : pos' = [pos EXCEPT ![cur] = [state |-> "ACTIVE", sl |-> slId,
                                                           tp |-> t, age |-> 0]]
      BY <1>5 DEF PlaceTp
    <2>. QED BY <1>0, <2>1 DEF Closed
  <1>6. CASE Rollback
    <2>1. pos' = pos \/ pos' = [pos EXCEPT ![cur] = [NoRecord EXCEPT !.state = "ABORTED"]]
      BY <1>6 DEF Rollback
    <2>2. [NoRecord EXCEPT !.state = "ABORTED"].state = "ABORTED"
      BY DEF NoRecord
    <2>. QED BY <1>0, <2>1, <2>2 DEF Closed
  <1>7. CASE UNCHANGED pos
    BY <1>7
  <1>. QED
    BY <1>1, <1>2, <1>3, <1>4, <1>5, <1>6, <1>7
    DEF Next, Service, Environment, vars, SkipSetup, AdmitSetup, CheckMark, SizeOrder, SkipYoung,
        TimeoutsDone, PollEntry, QueryFails, PlaceSl, CancelSl, PollDone, PollActive, ReadTp,
        CancelOther, Notify, EndTick, Fill, Expire, CloseByHand, OtherSymbolTrips, service

(* From cancelOther the thread goes on to notify, and from there with the  *)
(* record counted, unless a call fails.                                    *)
LEMMA ClosedPath ==
  ASSUME Inv, [Next]_vars, ~faulted', pc \in ClosedPoint
  PROVE  \/ pc' \in ClosedPoint /\ cur' = cur
         \/ pc = "notify" /\ counted' = counted \cup {cur}
  <1>1. CASE CancelOther
    <2>1. PICK reply : Note(reply) /\ Branch(reply, "notify", "notify")
      BY <1>1 DEF CancelOther
    <2>2. reply = "ok"
      BY <2>1 DEF Note
    <2>. QED BY <1>1, <2>1, <2>2 DEF CancelOther, Branch, Goto, local
  <1>2. CASE Notify
    BY <1>2 DEF Notify, CheckAfterTrade
  <1>3. CASE Environment \/ UNCHANGED vars
    BY <1>3 DEF Environment, Fill, Expire, CloseByHand, OtherSymbolTrips, service, local, vars
  <1>. QED
    BY <1>1, <1>2, <1>3
    DEF Next, Service, BeginTick, SkipSetup, AdmitSetup, CheckMark, SizeOrder, PlaceEntry,
        SkipYoung, CancelOverdue, TimeoutsDone, PollEntry, QueryFails, PlaceSl, PlaceTp, CancelSl,
        Rollback, PollDone, PollActive, ReadTp, ReadSl, EndTick

(* Outside notify nothing leaves the set of counted records.               *)
LEMMA CountedGrows ==
  ASSUME Inv, [Next]_vars
  PROVE  counted \subseteq counted'
  BY DEF Next, Service, Environment, vars, service, BeginTick, SkipSetup, AdmitSetup, CheckMark,
         SizeOrder, PlaceEntry, SkipYoung, CancelOverdue, TimeoutsDone, PollEntry, QueryFails,
         PlaceSl, PlaceTp, CancelSl, Rollback, PollDone, PollActive, ReadTp, ReadSl, CancelOther,
         Notify, CheckAfterTrade, EndTick, Fill, Expire, CloseByHand, OtherSymbolTrips

LEMMA ReportedStep ==
  ASSUME Inv, Reported, [Next]_vars
  PROVE  Reported'
  <1> SUFFICES ASSUME ~faulted', NEW i \in OrderId, pos'[i].state \in Closed
               PROVE  i \in counted' \/ (pc' \in ClosedPoint /\ cur' = i)
    BY DEF Reported
  <1>1. ~faulted
    BY FaultStays
  <1>2. CASE pos[i].state \notin Closed
    BY <1>2, NewlyClosed
  <1>3. CASE pos[i].state \in Closed
    <2>1. CASE i \in counted
      BY <2>1, CountedGrows
    <2>2. CASE pc \in ClosedPoint /\ cur = i
      BY <2>2, ClosedPath
    <2>. QED BY <1>1, <1>3, <2>1, <2>2 DEF Reported
  <1>. QED BY <1>2, <1>3

(* Between ticks the kill switch has seen the result of every closed trade *)
(* as long as no call that guards a position has failed: for every order   *)
(* size, cap, timeout and set of faults.                                   *)
THEOREM ResultsAlwaysCounted == Spec => []ResultsCounted
  <1>1. Init => Reported
    BY DEF Init, Reported, NoRecord, Closed
  <1>2. Inv /\ Reported /\ [Next]_vars => Reported'
    BY ReportedStep
  <1>3. Inv /\ Reported => ResultsCounted
    BY DEF Reported, ResultsCounted, Inv, TypeOK, CountedClosed
  <1>. QED BY <1>1, <1>2, <1>3, InvHolds, PTL DEF Spec

-----------------------------------------------------------------------------
(* What a step does to one order                                           *)

LEMMA NewOrderOpen ==
  ASSUME NEW kind, NEW side, NEW entry
  PROVE  NewOrder(kind, side, entry).status = "NEW" /\ NewOrder(kind, side, entry).filled = 0
  BY DEF NewOrder, NoOrder

(* Only an open order changes; a stop fills all at once.                   *)
OrderMove(o) ==
    \/ orders'[o] = orders[o]
    \/ /\ Open(o) /\ orders'[o].kind = orders[o].kind
       /\ \/ /\ orders'[o].status \in {"CANCELED", "EXPIRED"}
             /\ orders'[o].filled = orders[o].filled
          \/ orders[o].kind = "SL" => orders'[o].status = "FILLED"
    \/ o >= nextId /\ orders'[o].status = "NEW" /\ orders'[o].filled = 0

LEMMA SubmitMoves ==
  ASSUME Inv, NEW order \in Order, order.status = "NEW", order.filled = 0, NEW n \in Nat,
         Submit(order, n), NEW o \in OrderId
  PROVE  OrderMove(o)
  <1>1. nextId \in Int
    BY DEF Inv, TypeOK
  <1>2. o < nextId => orders'[o] = orders[o]
    BY SubmitKeeps
  <1>3. o >= nextId => orders'[o] = order \/ orders'[o] = NoOrder
    BY SubmitKeeps
  <1>4. o >= nextId => orders[o] = NoOrder
    BY DEF Inv, FreshIds
  <1>. QED BY <1>1, <1>2, <1>3, <1>4 DEF OrderMove

LEMMA EndMoves ==
  ASSUME Inv, NEW x, Open(x), NEW status \in {"CANCELED", "EXPIRED"},
         orders' = [orders EXCEPT ![x].status = status], NEW o \in OrderId
  PROVE  OrderMove(o)
  <1>1. orders \in [OrderId -> Order]
    BY DEF Inv, TypeOK
  <1>2. CASE o = x
    <2>1. orders[o] \in Order /\ orders'[o] = [orders[o] EXCEPT !.status = status]
      BY <1>1, <1>2
    <2>2. orders'[o].status = status /\ orders'[o].filled = orders[o].filled
          /\ orders'[o].kind = orders[o].kind
      BY <2>1 DEF Order
    <2>. QED BY <1>2, <2>2 DEF OrderMove
  <1>3. CASE o # x
    BY <1>1, <1>3 DEF OrderMove
  <1>. QED BY <1>2, <1>3

LEMMA FillMoves ==
  ASSUME Inv, NEW x \in OrderId, NEW q \in 1..Qty, Fill(x, q), NEW o \in OrderId
  PROVE  OrderMove(o)
  <1> DEFINE filled == orders[x].filled + q
             status == IF filled = Qty THEN "FILLED" ELSE "PARTIALLY_FILLED"
  <1>1. orders \in [OrderId -> Order]
    BY DEF Inv, TypeOK
  <1>2. Open(x) /\ orders' = [orders EXCEPT ![x].filled = filled, ![x].status = status]
    BY DEF Fill
  <1>3. orders[x].kind = "SL" => status = "FILLED"
    BY DEF Fill
  <1>. HIDE DEF filled, status
  <1>4. CASE o = x
    BY <1>1, <1>2, <1>3, <1>4 DEF OrderMove, Order
  <1>5. CASE o # x
    BY <1>1, <1>2, <1>5 DEF OrderMove
  <1>. QED BY <1>4, <1>5

LEMMA OrderMoves ==
  ASSUME Inv, [Next]_vars, NEW o \in OrderId
  PROVE  OrderMove(o)
  <1>1. CASE UNCHANGED orders
    BY <1>1 DEF OrderMove
  <1>2. CASE PlaceEntry
    <2>1. PICK n \in Nat : Submit(NewOrder("ENTRY", setup, NoId), n)
      BY <1>2, CopiesType DEF PlaceEntry
    <2>2. setup \in {-1, 0, 1} /\ "ENTRY" \in OrderKind
      BY DEF Inv, TypeOK, OrderKind
    <2>. QED BY <2>1, <2>2, NewOrderType, NewOrderOpen, SubmitMoves
  <1>3. CASE PlaceSl
    <2>1. PICK n \in Nat : Submit(Exit("SL", cur), n)
      BY <1>3, CopiesType DEF PlaceSl
    <2>2. cur \in OrderId
      BY <1>3 DEF PlaceSl, Inv, Handling, OnFillPoint
    <2>3. Exit("SL", cur).status = "NEW" /\ Exit("SL", cur).filled = 0
      BY NewOrderOpen DEF Exit
    <2>. QED BY <2>1, <2>2, <2>3, ExitType, SubmitMoves
  <1>4. CASE PlaceTp
    <2>1. PICK n \in Nat : Submit(Exit("TP", cur), n)
      BY <1>4, CopiesType DEF PlaceTp
    <2>2. cur \in OrderId
      BY <1>4 DEF PlaceTp, Inv, Handling, OnFillPoint
    <2>3. Exit("TP", cur).status = "NEW" /\ Exit("TP", cur).filled = 0
      BY NewOrderOpen DEF Exit
    <2>. QED BY <2>1, <2>2, <2>3, ExitType, SubmitMoves
  <1>5. CASE CancelOverdue \/ CancelSl \/ CancelOther
    <2>1. PICK x, reply : Cancel(x, reply)
      BY <1>5 DEF CancelOverdue, CancelSl, CancelOther
    <2>2. UNCHANGED orders \/ (Open(x) /\ orders' = [orders EXCEPT ![x].status = "CANCELED"])
      BY <2>1 DEF Cancel
    <2>. QED BY <1>1, <2>2, EndMoves
  <1>6. CASE \E x \in OrderId : (\E q \in 1..Qty : Fill(x, q)) \/ Expire(x)
    BY <1>6, FillMoves, EndMoves DEF Expire
  <1>. QED
    BY <1>1, <1>2, <1>3, <1>4, <1>5, <1>6
    DEF Next, Service, Environment, vars, exchange, BeginTick, SkipSetup, AdmitSetup, CheckMark,
        SizeOrder, SkipYoung, TimeoutsDone, PollEntry, QueryFails, PollDone, PollActive, ReadTp,
        ReadSl, Notify, EndTick, OtherSymbolTrips, Rollback, CloseByHand

(* An order that is over never changes.                                    *)
LEMMA OverStays ==
  ASSUME Inv, [Next]_vars, NEW o \in OrderId, ~Open(o), o < nextId
  PROVE  orders'[o] = orders[o]
  <1>1. nextId \in Int
    BY DEF Inv, TypeOK
  <1>2. OrderMove(o)
    BY OrderMoves
  <1>. QED BY <1>1, <1>2 DEF OrderMove

(* A stop that has not filled has not filled in part either.               *)
SlWhole ==
    \A o \in OrderId : orders[o].kind = "SL" /\ orders[o].status # "FILLED" => orders[o].filled = 0

LEMMA SlWholeStep ==
  ASSUME Inv, SlWhole, [Next]_vars
  PROVE  SlWhole'
  <1> SUFFICES ASSUME NEW o \in OrderId, orders'[o].kind = "SL", orders'[o].status # "FILLED"
               PROVE  orders'[o].filled = 0
    BY DEF SlWhole
  <1>1. OrderMove(o)
    BY OrderMoves
  <1>. QED BY <1>1 DEF OrderMove, Open, SlWhole

-----------------------------------------------------------------------------
(* How records are given up                                                *)

Warned(i) == \E alarm \in Alarm : <<alarm, i>> \in audit

(* The emergency close comes when every exit of `cur` is gone, or the log  *)
(* has an alarm.                                                           *)
BeforeClose == pc = "rollback" => Warned(cur) \/ NoExitLeft(cur)

AuditInv == SlWhole /\ BeforeClose /\ ExposureIsAudited

(* A record is aborted by the timeout or by the rollback.                  *)
LEMMA NewlyAborted ==
  ASSUME Inv, [Next]_vars, NEW i \in OrderId,
         pos[i].state # "ABORTED", pos'[i].state = "ABORTED"
  PROVE  \/ \E reply \in CancelReply(i) :
              Cancel(i, reply) /\ audit' = Alarmed(reply, "ORDER_CANCEL_FAILED", i)
         \/ Rollback /\ i = cur
  <1>0. pos \in [OrderId -> Record] /\ orders \in [OrderId -> Order]
    BY DEF Inv, TypeOK
  <1>1. CASE CancelOverdue
    <2>1. PICK o \in todo : \E reply \in CancelReply(o) :
             /\ Cancel(o, reply) /\ audit' = Alarmed(reply, "ORDER_CANCEL_FAILED", o)
             /\ pos' = pos \/ GiveUp(o, reply)
      BY <1>1 DEF CancelOverdue
    <2>2. pos' = [pos EXCEPT ![o].state = "ABORTED", ![o].age = 0]
      BY <2>1 DEF GiveUp
    <2>3. o = i
      BY <1>0, <2>2
    <2>. QED BY <2>1, <2>3
  <1>2. CASE Rollback
    <2>1. pos' = pos \/ pos' = [pos EXCEPT ![cur] = [NoRecord EXCEPT !.state = "ABORTED"]]
      BY <1>2 DEF Rollback
    <2>2. i = cur
      BY <1>0, <2>1
    <2>. QED BY <1>2, <2>2
  <1>3. CASE BeginTick
    <2>1. pos'[i] = Aged(pos[i]) /\ pos[i] \in Record
      BY <1>0, <1>3 DEF BeginTick
    <2>. QED BY <2>1, AgedKeeps
  <1>4. CASE PlaceEntry
    <2>1. pos' = pos \/ \E o : pos' = [pos EXCEPT ![o] = [NoRecord EXCEPT !.state = "PENDING"]]
      BY <1>4 DEF PlaceEntry, Added
    <2>2. [NoRecord EXCEPT !.state = "PENDING"].state = "PENDING"
      BY DEF NoRecord
    <2>. QED BY <1>0, <2>1, <2>2
  <1>5. CASE PlaceTp
    <2>1. pos' = pos \/ \E t : pos' = [pos EXCEPT ![cur] = [state |-> "ACTIVE", sl |-> slId,
                                                           tp |-> t, age |-> 0]]
      BY <1>5 DEF PlaceTp
    <2>. QED BY <1>0, <2>1
  <1>6. CASE ReadSl
    <2>1. pos' = pos \/ \E s \in Closed : pos' = [pos EXCEPT ![cur].state = s]
      BY <1>6 DEF ReadSl, Closed
    <2>2. CASE \E s \in Closed : pos' = [pos EXCEPT ![cur].state = s]
      <3>1. PICK s \in Closed : pos' = [pos EXCEPT ![cur].state = s]
        BY <2>2
      <3>2. CASE cur = i
        <4>1. pos[i] \in Record /\ pos'[i] = [pos[i] EXCEPT !.state = s]
          BY <1>0, <3>1, <3>2
        <4>. QED BY <3>1, <4>1 DEF Record, Closed
      <3>3. CASE cur # i
        BY <1>0, <3>1, <3>3
      <3>. QED BY <3>2, <3>3
    <2>. QED BY <2>1, <2>2
  <1>7. CASE UNCHANGED pos
    BY <1>7
  <1>. QED
    BY <1>1, <1>2, <1>3, <1>4, <1>5, <1>6, <1>7
    DEF Next, Service, Environment, vars, SkipSetup, AdmitSetup, CheckMark, SizeOrder, SkipYoung,
        TimeoutsDone, PollEntry, QueryFails, PlaceSl, CancelSl, PollDone, PollActive, ReadTp,
        CancelOther, Notify, EndTick, Fill, Expire, CloseByHand, OtherSymbolTrips, service

(* Exits that are gone stay gone unless _on_fill places new ones.          *)
LEMMA NoExitStays ==
  ASSUME Inv, [Next]_vars, NEW i \in OrderId, NoExitLeft(i),
         pc \in {"sl", "tp"} => cur # i
  PROVE  NoExitLeft(i)'
  <1> SUFFICES ASSUME NEW o \in OrderId, orders'[o].kind \in {"SL", "TP"}, orders'[o].entry = i
               PROVE  ~Open(o)' /\ orders'[o].filled = 0
    BY DEF NoExitLeft, IsExitOf
  <1>1. ExchangeKept /\ nextId \in Int /\ nextId' \in Int
    BY ExchangeStep DEF Inv, TypeOK, ExchangeKept
  <1>2. CASE o < nextId
    <2>1. orders[o].kind = orders'[o].kind /\ orders[o].entry = i
      BY <1>1, <1>2 DEF ExchangeKept, Kept
    <2>2. ~Open(o) /\ orders[o].filled = 0
      BY <2>1 DEF NoExitLeft, IsExitOf
    <2>3. orders'[o] = orders[o]
      BY <1>2, <2>2, OverStays
    <2>. QED BY <2>2, <2>3 DEF Open
  <1>3. CASE o >= nextId
    <2>1. CASE PlaceEntry
      <3>1. PICK n \in Nat : Submit(NewOrder("ENTRY", setup, NoId), n)
        BY <2>1, CopiesType DEF PlaceEntry
      <3>2. setup \in {-1, 0, 1} /\ "ENTRY" \in OrderKind
        BY DEF Inv, TypeOK, OrderKind
      <3>3. orders'[o] = NewOrder("ENTRY", setup, NoId) \/ orders'[o] = NoOrder
        BY <1>3, <3>1, <3>2, NewOrderType, SubmitKeeps
      <3>. QED BY <3>2, <3>3, NewOrderType DEF NoOrder
    <2>2. CASE PlaceSl \/ PlaceTp
      <3>1. PICK kind \in {"SL", "TP"}, n \in Nat : Submit(Exit(kind, cur), n)
        BY <2>2, CopiesType DEF PlaceSl, PlaceTp
      <3>2. cur \in OrderId /\ cur # i
        BY <2>2 DEF PlaceSl, PlaceTp, Inv, Handling
      <3>3. orders'[o] = Exit(kind, cur) \/ orders'[o] = NoOrder
        BY <1>3, <3>1, <3>2, ExitType, SubmitKeeps
      <3>. QED BY <3>2, <3>3, ExitType DEF NoOrder
    <2>3. CASE ~PlaceEntry /\ ~PlaceSl /\ ~PlaceTp
      BY <1>1, <1>3, <2>3, IdsKept DEF ExchangeKept, NoOrder
    <2>. QED BY <2>1, <2>2, <2>3
  <1>. QED BY <1>1, <1>2, <1>3

(* An alarm of the audit log is not taken back.                            *)
LEMMA WarnedStays ==
  ASSUME Inv, [Next]_vars, NEW i, Warned(i)
  PROVE  Warned(i)'
  BY AuditStep DEF Warned

(* The thread comes to the emergency close with no exit placed, or with the*)
(* SL cancelled, or with an alarm.                                         *)
LEMMA BeforeCloseStep ==
  ASSUME TrueReplies, Inv, ProtectInv, SlWhole, BeforeClose, [Next]_vars
  PROVE  BeforeClose'
  <1> SUFFICES ASSUME pc' = "rollback" PROVE Warned(cur)' \/ NoExitLeft(cur)'
    BY DEF BeforeClose
  <1>1. CASE PlaceSl
    <2>1. PICK reply, n :
             /\ reply \in Reply /\ n \in Copies(reply)
             /\ Submit(Exit("SL", cur), n) /\ Branch(reply, "tp", "rollback")
      BY <1>1 DEF PlaceSl
    <2>2. reply # "ok" /\ n = 0
      BY <2>1, OneCopy DEF Branch, Goto
    <2>3. orders' = orders /\ cur' = cur
      BY <1>1, <2>1, <2>2 DEF PlaceSl, Submit, Inv, TypeOK
    <2>4. pc = "sl" /\ cur \in OrderId /\ pos[cur].state = "PENDING"
      BY <1>1 DEF PlaceSl, Inv, Handling
    <2>5. \A o \in OrderId : ~IsExitOf(o, cur)
      BY <2>4 DEF ProtectInv, ExitOwners, IsExitOf
    <2>. QED BY <2>3, <2>5 DEF NoExitLeft, IsExitOf
  <1>2. CASE CancelSl
    <2>1. PICK reply \in CancelReply(slId) :
             /\ Cancel(slId, reply)
             /\ audit' = Alarmed(reply, "ROLLBACK_SL_CANCEL_FAILED", cur)
      BY <1>2 DEF CancelSl
    <2>2. /\ pc = "cancelSl" /\ cur \in OrderId /\ cur' = cur /\ pos[cur].state = "PENDING"
          /\ slId \in OrderId /\ orders[slId].kind = "SL" /\ orders[slId].entry = cur
      BY <1>2 DEF CancelSl, local, Inv, Handling
    <2>3. reply \in {"ok", "error"}
      BY DEF CancelReply, Reply, TrueReplies
    <2>4. CASE reply = "error"
      BY <2>1, <2>2, <2>4 DEF Alarmed, Warned, Alarm
    <2>5. CASE reply = "ok"
      <3>1. orders' = [orders EXCEPT ![slId].status = "CANCELED"] /\ Open(slId)
        BY <2>1, <2>5 DEF Cancel
      <3>2. orders \in [OrderId -> Order]
        BY DEF Inv, TypeOK
      <3>3. orders[slId].filled = 0
        BY <2>2, <3>1 DEF Open, SlWhole
      <3>4. orders'[slId] = [orders[slId] EXCEPT !.status = "CANCELED"]
        BY <2>2, <3>1, <3>2
      <3>5. orders[slId] \in Order
        BY <2>2, <3>2
      <3>6. orders'[slId].status = "CANCELED" /\ orders'[slId].filled = 0
        BY <3>3, <3>4, <3>5 DEF Order
      <3>7. ASSUME NEW o \in OrderId, orders'[o].kind \in {"SL", "TP"}, orders'[o].entry = cur
            PROVE  o = slId
        <4>1. orders'[o].kind = orders[o].kind /\ orders'[o].entry = orders[o].entry
          BY <3>1, <3>2 DEF Order
        <4>2. orders[o].kind = "SL"
          BY <2>2, <3>7, <4>1 DEF ProtectInv, ExitOwners
        <4>. QED BY <2>2, <3>7, <4>1, <4>2 DEF ProtectInv, ProtectedOnce
      <3>. QED BY <2>2, <3>6, <3>7 DEF NoExitLeft, IsExitOf, Open
    <2>. QED BY <2>3, <2>4, <2>5
  <1>3. CASE Environment \/ UNCHANGED vars
    <2>1. pc' = pc /\ cur' = cur
      BY <1>3 DEF Environment, Fill, Expire, CloseByHand, OtherSymbolTrips, service, local, vars
    <2>2. cur \in OrderId /\ (Warned(cur) \/ NoExitLeft(cur))
      BY <2>1 DEF BeforeClose, Inv, Handling
    <2>3. CASE Warned(cur)
      BY <2>1, <2>3, WarnedStays DEF Warned
    <2>4. CASE NoExitLeft(cur)
      <3>1. pc \notin {"sl", "tp"}
        BY <2>1
      <3>. QED BY <2>1, <2>2, <2>4, <3>1, NoExitStays DEF NoExitLeft, IsExitOf
    <2>. QED BY <2>2, <2>3, <2>4
  <1>. QED
    BY <1>1, <1>2, <1>3
    DEF Next, Service, Goto, GotoTimeouts, Abandon, Branch, GiveUp, BeginTick, SkipSetup,
        AdmitSetup, CheckMark, SizeOrder, PlaceEntry, SkipYoung, CancelOverdue, TimeoutsDone,
        PollEntry, QueryFails, PlaceTp, Rollback, PollDone, PollActive, ReadTp, ReadSl,
        CancelOther, Notify, EndTick

LEMMA ExposureStep ==
  ASSUME TrueReplies, Inv, BeforeClose, ExposureIsAudited, [Next]_vars
  PROVE  ExposureIsAudited'
  <1> SUFFICES ASSUME NEW i \in OrderId, pos'[i].state = "ABORTED", ~Warned(i)'
               PROVE  \/ orders'[i].status = "CANCELED"
                      \/ <<"ORDER_ROLLBACK", i>> \in audit' /\ NoExitLeft(i)'
    BY DEF ExposureIsAudited, GivenUpInSilence, Warned
  <1>1. ~Warned(i) /\ audit \subseteq audit'
    BY WarnedStays, AuditStep
  <1>2. CASE pos[i].state = "ABORTED"
    <2>1. pc \in {"sl", "tp"} => cur # i
      BY <1>2 DEF Inv, Handling
    <2>2. CASE orders[i].status = "CANCELED"
      <3>1. ~Open(i) /\ i < nextId
        BY <1>2, <2>2 DEF Open, Inv, TypeOK, FreshIds
      <3>. QED BY <2>2, <3>1, OverStays
    <2>3. CASE <<"ORDER_ROLLBACK", i>> \in audit /\ NoExitLeft(i)
      BY <1>1, <2>1, <2>3, NoExitStays
    <2>. QED BY <1>1, <1>2, <2>2, <2>3 DEF ExposureIsAudited, GivenUpInSilence, Warned
  <1>3. CASE pos[i].state # "ABORTED"
    <2>1. CASE Rollback /\ i = cur
      <3>1. PICK reply \in Reply :
               audit' = IF reply = "ok" THEN audit \cup {<<"ORDER_ROLLBACK", cur>>}
                        ELSE Alarmed(reply, "ROLLBACK_EMERGENCY_CLOSE_FAILED", cur)
        BY <2>1 DEF Rollback
      <3>2. reply \in {"ok", "error"}
        BY DEF Reply, TrueReplies
      <3>3. reply = "ok"
        BY <2>1, <3>1, <3>2 DEF Alarmed, Warned, Alarm
      <3>4. pc = "rollback" /\ NoExitLeft(i)
        BY <1>1, <2>1 DEF Rollback, BeforeClose
      <3>5. NoExitLeft(i)'
        BY <3>4, NoExitStays
      <3>. QED BY <2>1, <3>1, <3>3, <3>5
    <2>2. CASE \E reply \in CancelReply(i) :
                 Cancel(i, reply) /\ audit' = Alarmed(reply, "ORDER_CANCEL_FAILED", i)
      <3>1. PICK reply \in CancelReply(i) :
               Cancel(i, reply) /\ audit' = Alarmed(reply, "ORDER_CANCEL_FAILED", i)
        BY <2>2
      <3>2. reply \in {"ok", "error"}
        BY DEF CancelReply, Reply, TrueReplies
      <3>3. reply = "ok"
        BY <3>1, <3>2 DEF Alarmed, Warned, Alarm
      <3>4. orders' = [orders EXCEPT ![i].status = "CANCELED"]
        BY <3>1, <3>3 DEF Cancel
      <3>5. orders[i] \in Order /\ orders'[i] = [orders[i] EXCEPT !.status = "CANCELED"]
        BY <3>4 DEF Inv, TypeOK
      <3>. QED BY <3>5 DEF Order
    <2>. QED BY <1>3, <2>1, <2>2, NewlyAborted
  <1>. QED BY <1>2, <1>3

(* No position is left behind in silence, for every order size, cap,       *)
(* timeout and number of orders, when failures are BinanceOrderErrors and  *)
(* replies are true.                                                       *)
THEOREM ExposureAlwaysAudited == TrueReplies => (Spec => []ExposureIsAudited)
  <1> SUFFICES ASSUME TrueReplies PROVE Spec => []ExposureIsAudited
    OBVIOUS
  <1>1. Init => ProtectInv /\ AuditInv
    BY ProtectInit DEF Init, AuditInv, SlWhole, BeforeClose, ExposureIsAudited, GivenUpInSilence,
                       NoOrder, NoRecord
  <1>2. Inv /\ ProtectInv /\ AuditInv /\ [Next]_vars => ProtectInv' /\ AuditInv'
    BY ProtectStep, SlWholeStep, BeforeCloseStep, ExposureStep DEF AuditInv
  <1>3. AuditInv => ExposureIsAudited
    BY DEF AuditInv
  <1>. QED BY <1>1, <1>2, <1>3, InvHolds, PTL DEF Spec
=============================================================================
