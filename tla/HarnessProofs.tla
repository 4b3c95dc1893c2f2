---------------------------- MODULE HarnessProofs ----------------------------
(***************************************************************************)
(* Proofs about Harness, for every price grid, every set of well-shaped    *)
(* setups, any number of bars and targets, any weights, costs and limits.  *)
(***************************************************************************)
EXTENDS Harness, FiniteSetTheorems, SequenceTheorems, TLAPS

\* What ties the position, the signal and the place in the loop together.
Shape ==
    /\ pc # "top" => bar \in Bars /\ i \in 1..N
    /\ pc \in {"update", "targets"} => pos # NoPos
    /\ pos # NoPos => pending = NoPending
    /\ pos # NoPos => sold + pos.left = Lots
    /\ pos = NoPos => sold = Lots
    /\ pos # NoPos /\ pc # "targets" => pos.left > 0
    /\ pos # NoPos /\ Len(TpLots) \in pos.hits => pos.left = 0

Inv == TypeOK /\ Shape

\* The actions that touch neither the position, the account nor a signal.
Idle == StopHolds \/ SkipTarget \/ NextBar \/ NothingPending \/ SeekNothing
        \/ MarkToMarket

(* A position is not the absence of one.                                   *)
LEMMA PositionIsNotNoPos == ASSUME NEW p \in Position PROVE p # NoPos
  <1>1. "left" \in DOMAIN p
    BY DEF Position
  <1>2. "left" \notin DOMAIN NoPos
    BY DEF NoPos
  <1>. QED BY <1>1, <1>2

(* A signal is not the absence of one.                                     *)
LEMMA SignalIsNotNoPending ==
  ASSUME NEW s, NEW c PROVE [setup |-> s, created |-> c] # NoPending
  <1>1. "setup" \in DOMAIN [setup |-> s, created |-> c]
    OBVIOUS
  <1>2. "setup" \notin DOMAIN NoPending
    BY DEF NoPending
  <1>. QED BY <1>1, <1>2

(* There is at least one target.                                           *)
LEMMA TargetsNat == Len(TpLots) \in Nat /\ Len(TpLots) >= 1
                    /\ \A t \in Targets : TpLots[t] \in Nat
  BY SizeAssumption, EmptySeq DEF Targets

(* The sign of a side times a whole number is a whole number.              *)
LEMMA SideTimes ==
  ASSUME NEW side \in {1, -1}, NEW x \in Int
  PROVE  /\ side * x \in Int
         /\ side = 1 => side * x = x
         /\ side = -1 => side * x = -x
  OBVIOUS

(* The sign of r_multiple is a sign.                                       *)
LEMMA RSignType == ASSUME NEW price, NEW size PROVE RSign(price, size) \in {-1, 0, 1}
  BY DEF RSign

(* A slice is part of what is left.                                        *)
LEMMA SliceBounded ==
  ASSUME TypeOK, k \in Targets, pos # NoPos
  PROVE  Slice \in 0..pos.left
  <1>1. pos \in Position
    BY DEF TypeOK
  <1>2. pos.left \in Nat
    BY <1>1, SizeAssumption DEF Position
  <1>3. TpLots[k] \in Nat
    BY TargetsNat
  <1>. QED BY <1>2, <1>3 DEF Slice

(* Filling a signal makes a whole position.                                *)
LEMMA OpenPositionType ==
  ASSUME NEW p \in [setup : Setups, created : 1..N], NEW price \in Int, i \in 1..N
  PROVE  /\ OpenPosition(p, price) \in Position
         /\ OpenPosition(p, price).left = Lots
         /\ OpenPosition(p, price).hits = {}
         /\ OpenPosition(p, price).opened = i
  <1>1. p.setup \in Setup /\ p.created \in 1..N
    BY SetupAssumption
  <1>2. /\ p.setup.side \in {1, -1} /\ p.setup.sl \in Int
        /\ p.setup.tp \in [Targets -> Int]
    BY <1>1 DEF Setup
  <1>3. price + p.setup.side * Slip \in Int
    BY <1>2, SideTimes, CostAssumption
  <1>4. Lots \in 0..Lots
    BY SizeAssumption
  <1>. QED BY <1>1, <1>2, <1>3, <1>4 DEF OpenPosition, Position

(* The initial state satisfies the invariant.                              *)
LEMMA InvInit == Init => Inv
  <1>. SUFFICES ASSUME Init PROVE Inv
    OBVIOUS
  <1>1. k \in 1..Len(TpLots) + 1
    BY TargetsNat DEF Init
  <1>2. results \in Seq({-1, 0, 1})
    BY DEF Init
  <1>3. i \in 0..N /\ sold \in 0..Lots
    BY SizeAssumption DEF Init
  <1>4. last \in [r : {-1, 0, 1}, reason : {"none", "SL", "BREAKEVEN", "TP"}]
    BY DEF Init, NoTrade
  <1>5. TypeOK
    BY <1>1, <1>2, <1>3, <1>4 DEF Init, TypeOK
  <1>6. Shape
    BY DEF Init, Shape
  <1>. QED BY <1>5, <1>6 DEF Inv

(* Booking part of what is left keeps the account typed.                   *)
LEMMA BookType ==
  ASSUME TypeOK, sold' \in 0..Lots, NEW price, NEW size,
         NEW reason \in {"SL", "BREAKEVEN", "TP"}, Book(price, size, reason)
  PROVE  /\ results' \in Seq({-1, 0, 1})
         /\ losses' \in Nat
         /\ last' \in [r : {-1, 0, 1}, reason : {"none", "SL", "BREAKEVEN", "TP"}]
  <1>. DEFINE r == RSign(price, size)
  <1>1. r \in {-1, 0, 1}
    BY RSignType
  <1>2. results' = Append(results, r) /\ losses' = Streak(r)
        /\ last' = [r |-> r, reason |-> reason]
    BY DEF Book
  <1>. HIDE DEF r
  <1>3. results' \in Seq({-1, 0, 1})
    BY <1>1, <1>2 DEF TypeOK
  <1>4. losses' \in Nat
    BY <1>1, <1>2 DEF TypeOK, Streak
  <1>. QED BY <1>1, <1>2, <1>3, <1>4

(* A stop sells the whole rest.                                            *)
LEMMA StopOutKeeps == Inv /\ StopOut => Inv'
  <1>. SUFFICES ASSUME Inv, StopOut PROVE Inv'
    OBVIOUS
  <1>1. pos \in Position /\ sold + pos.left = Lots /\ pos.left \in 0..Lots
    BY DEF Inv, TypeOK, Shape, StopOut, Position
  <1>2. sold' = Lots
    BY <1>1 DEF StopOut, Book
  <1>3. sold' \in 0..Lots
    BY <1>2, SizeAssumption
  <1>. DEFINE reason == IF pos.hits # {} /\ pos.stop = pos.entry
                        THEN "BREAKEVEN" ELSE "SL"
  <1>4. reason \in {"SL", "BREAKEVEN", "TP"} /\ Book(pos.stop, pos.left, reason)
    BY DEF StopOut
  <1>. HIDE DEF reason
  <1>5. /\ results' \in Seq({-1, 0, 1}) /\ losses' \in Nat
        /\ last' \in [r : {-1, 0, 1}, reason : {"none", "SL", "BREAKEVEN", "TP"}]
    BY <1>3, <1>4, BookType DEF Inv
  <1>6. pc' \in {"resolve", "seek"} /\ pos' = NoPos
    BY DEF StopOut, AfterUpdate
  <1>7. TypeOK'
    BY <1>3, <1>5, <1>6 DEF Inv, TypeOK, StopOut, Bars, Position
  <1>8. Shape'
    BY <1>2, <1>6 DEF Inv, Shape, StopOut, Bars
  <1>. QED BY <1>7, <1>8 DEF Inv

(* A target takes its slice from the position and moves the first stop to  *)
(* the entry; the rest of the position stays as it is.                     *)
LEMMA AfterTarget ==
  ASSUME Inv, TakeProfit
  PROVE  /\ pos \in Position /\ k \in Targets /\ Slice \in 0..pos.left
         /\ pos' \in Position
         /\ pos'.left = pos.left - Slice /\ pos'.hits = pos.hits \cup {k}
         /\ pos'.stop = IF k = 1 THEN pos.entry ELSE pos.stop
         /\ pos'.side = pos.side /\ pos'.entry = pos.entry /\ pos'.sl = pos.sl
         /\ pos'.tp = pos.tp
         /\ pos'.opened = pos.opened
  <1>1. pos \in Position /\ k \in Targets
    BY DEF Inv, TypeOK, Shape, TakeProfit
  <1>2. Slice \in 0..pos.left
    BY <1>1, SliceBounded, PositionIsNotNoPos DEF Inv
  <1>. DEFINE left == pos.left - Slice
              hits == pos.hits \cup {k}
              stop == IF k = 1 THEN pos.entry ELSE pos.stop
  <1>3. left \in 0..Lots
    BY <1>1, <1>2, SizeAssumption DEF Position
  <1>4. hits \in SUBSET Targets /\ stop \in Int
    BY <1>1 DEF Position
  <1>5. pos' = [pos EXCEPT !.left = left, !.hits = hits, !.stop = stop]
    BY DEF TakeProfit
  <1>. HIDE DEF left, hits, stop
  <1>6. /\ pos' \in Position
        /\ pos'.left = left /\ pos'.hits = hits /\ pos'.stop = stop
        /\ pos'.side = pos.side /\ pos'.entry = pos.entry /\ pos'.sl = pos.sl
        /\ pos'.tp = pos.tp
        /\ pos'.opened = pos.opened
    BY <1>1, <1>3, <1>4, <1>5 DEF Position
  <1>. QED BY <1>1, <1>2, <1>6 DEF left, hits, stop

(* A target moves its slice from the position to the trades.               *)
LEMMA TakeProfitKeeps == Inv /\ TakeProfit => Inv'
  <1>. SUFFICES ASSUME Inv, TakeProfit PROVE Inv'
    OBVIOUS
  <1>1. pos \in Position /\ sold + pos.left = Lots /\ pos.left \in 0..Lots
        /\ k \in Targets /\ sold \in Nat
    BY DEF Inv, TypeOK, Shape, TakeProfit, Position
  <1>2. Slice \in 0..pos.left
    BY AfterTarget
  <1>3. sold' = sold + Slice
    BY DEF TakeProfit, Book
  <1>4. sold' \in 0..Lots
    BY <1>1, <1>2, <1>3
  <1>5. /\ results' \in Seq({-1, 0, 1}) /\ losses' \in Nat
        /\ last' \in [r : {-1, 0, 1}, reason : {"none", "SL", "BREAKEVEN", "TP"}]
    BY <1>4, BookType DEF Inv, TakeProfit
  <1>6. pos' \in Position /\ pos'.left = pos.left - Slice
        /\ pos'.hits = pos.hits \cup {k}
    BY AfterTarget
  <1>7. k' \in 1..Len(TpLots) + 1
    BY TargetsNat, <1>1 DEF TakeProfit, Targets
  <1>8. TypeOK'
    BY <1>4, <1>5, <1>6, <1>7 DEF Inv, TypeOK, TakeProfit, Bars, Position
  <1>9. pos' # NoPos
    BY <1>6, PositionIsNotNoPos
  <1>10. sold' + pos'.left = Lots
    BY <1>1, <1>2, <1>3, <1>6
  <1>11. Len(TpLots) \in pos'.hits => pos'.left = 0
    <2>1. CASE k = Len(TpLots)
      BY <2>1, <1>1, <1>6 DEF Slice
    <2>2. CASE k # Len(TpLots)
      BY <2>2, <1>1, <1>2, <1>6, PositionIsNotNoPos DEF Inv, Shape
    <2>. QED BY <2>1, <2>2
  <1>12. Shape'
    BY <1>9, <1>10, <1>11 DEF Inv, Shape, TakeProfit, Bars
  <1>. QED BY <1>8, <1>12 DEF Inv

(* The update ends with a position that has something left, or with none.  *)
LEMMA EndUpdateKeeps == Inv /\ EndUpdate => Inv'
  <1>. SUFFICES ASSUME Inv, EndUpdate PROVE Inv'
    OBVIOUS
  <1>1. pos \in Position /\ pos # NoPos /\ sold + pos.left = Lots
        /\ pos.left \in 0..Lots
    BY DEF Inv, TypeOK, Shape, EndUpdate, Position
  <1>2. pos.hits = Targets => pos.left = 0
    BY <1>1, TargetsNat DEF Inv, Shape, Targets
  <1>3. pos' = IF pos.left = 0 THEN NoPos ELSE pos
    BY <1>2 DEF EndUpdate
  <1>4. pc' \in {"resolve", "seek"} /\ k' = 1
    BY DEF EndUpdate, AfterUpdate
  <1>5. TypeOK'
    BY <1>3, <1>4, TargetsNat DEF Inv, TypeOK, EndUpdate, account, Bars, Position
  <1>6. sold \in 0..Lots /\ Lots \in Nat
    BY SizeAssumption DEF Inv, TypeOK
  <1>7. Shape'
    BY <1>1, <1>3, <1>4, <1>6 DEF Inv, Shape, EndUpdate, account, Bars
  <1>. QED BY <1>5, <1>7 DEF Inv

(* A fill turns the signal into a whole position.                          *)
LEMMA FillKeeps == Inv /\ Fill => Inv'
  <1>. SUFFICES ASSUME Inv, Fill PROVE Inv'
    OBVIOUS
  <1>1. pending \in [setup : Setups, created : 1..N] /\ bar \in Bars /\ i \in 1..N
    BY DEF Inv, TypeOK, Shape, Fill, Waiting
  <1>2. FillPrice \in Int
    BY <1>1, SetupAssumption, PriceAssumption DEF FillPrice, Bars, Setup
  <1>3. pos' = OpenPosition(pending, FillPrice)
    BY DEF Fill
  <1>4. pos' \in Position /\ pos'.left = Lots /\ pos'.hits = {}
    BY <1>1, <1>2, <1>3, OpenPositionType
  <1>5. pos' # NoPos
    BY <1>4, PositionIsNotNoPos
  <1>6. sold' = 0 /\ pending' = NoPending /\ pc' = "update"
    BY DEF Fill
  <1>7. TypeOK'
    BY <1>4, <1>6, SizeAssumption DEF Inv, TypeOK, Fill, Bars, Position
  <1>8. Shape'
    BY <1>1, <1>4, <1>5, <1>6, SizeAssumption DEF Shape, Fill, Bars
  <1>. QED BY <1>7, <1>8 DEF Inv

(* A refused, late or accepted signal leaves the account alone.            *)
LEMMA SignalKeeps == Inv /\ (NotFilled \/ Seek) => Inv'
  <1>. SUFFICES ASSUME Inv, NotFilled \/ Seek PROVE Inv'
    OBVIOUS
  <1>1. i \in 1..N /\ pos = NoPos
    BY DEF Inv, Shape, NotFilled, Seek, Waiting
  <1>2. pending' \in [setup : Setups, created : 1..N] \cup {NoPending}
    BY <1>1 DEF Inv, TypeOK, NotFilled, Seek, Validate
  <1>3. /\ pc' \in {"seek", "mark"}
        /\ UNCHANGED <<fillModel, i, bar, k, pos, drawdown, results, losses, sold, last>>
    BY DEF NotFilled, Seek, account
  <1>4. TypeOK'
    BY <1>2, <1>3 DEF Inv, TypeOK, Bars, Position
  <1>5. Shape'
    BY <1>1, <1>3 DEF Inv, Shape, NotFilled, Seek, Waiting, Bars
  <1>. QED BY <1>4, <1>5 DEF Inv

(* So does every step that only moves on.                                  *)
LEMMA IdleKeeps == Inv /\ Idle => Inv'
  <1>. SUFFICES ASSUME Inv, Idle PROVE Inv'
    OBVIOUS
  <1>1. CASE StopHolds
    <2>1. /\ pc = "update" /\ pc' = "targets" /\ k' = 1
          /\ UNCHANGED <<fillModel, i, bar, pos, pending, drawdown, results, losses,
                         sold, last>>
      BY <1>1 DEF StopHolds, account
    <2>2. TypeOK'
      BY <2>1, TargetsNat DEF Inv, TypeOK, Bars, Position
    <2>3. Shape'
      BY <2>1 DEF Inv, Shape, Bars
    <2>. QED BY <2>2, <2>3 DEF Inv
  <1>2. CASE SkipTarget
    <2>1. /\ k \in Targets /\ k' = k + 1
          /\ UNCHANGED <<fillModel, i, bar, pc, pos, pending, drawdown, results, losses,
                         sold, last>>
      BY <1>2 DEF SkipTarget, account
    <2>2. k' \in 1..Len(TpLots) + 1
      BY <2>1, TargetsNat DEF Targets
    <2>3. TypeOK'
      BY <2>1, <2>2 DEF Inv, TypeOK, Bars, Position
    <2>4. Shape'
      BY <2>1 DEF Inv, Shape, Bars
    <2>. QED BY <2>3, <2>4 DEF Inv
  <1>3. CASE NextBar
    <2>1. /\ pc = "top" /\ i < N /\ i' = i + 1 /\ bar' \in Bars /\ last' = NoTrade
          /\ pc' = IF pos # NoPos THEN "update" ELSE "resolve"
          /\ UNCHANGED <<fillModel, k, pos, pending, drawdown, results, losses, sold>>
      BY <1>3 DEF NextBar
    <2>2. i' \in 1..N
      BY <2>1, SizeAssumption DEF Inv, TypeOK
    <2>3. last' \in [r : {-1, 0, 1}, reason : {"none", "SL", "BREAKEVEN", "TP"}]
      BY <2>1 DEF NoTrade
    <2>4. TypeOK'
      BY <2>1, <2>2, <2>3 DEF Inv, TypeOK, Bars, Position
    <2>5. Shape'
      BY <2>1, <2>2 DEF Inv, Shape, Bars
    <2>. QED BY <2>4, <2>5 DEF Inv
  <1>4. CASE NothingPending \/ SeekNothing
    <2>1. /\ pc \in {"resolve", "seek"} /\ pc' \in {"seek", "mark"}
          /\ UNCHANGED <<fillModel, i, bar, k, pos, pending, drawdown, results, losses,
                         sold, last>>
      BY <1>4 DEF NothingPending, SeekNothing, account
    <2>2. TypeOK'
      BY <2>1 DEF Inv, TypeOK, Bars, Position
    <2>3. Shape'
      BY <2>1 DEF Inv, Shape, Bars
    <2>. QED BY <2>2, <2>3 DEF Inv
  <1>5. CASE MarkToMarket
    <2>1. /\ pc = "mark" /\ pc' = "top" /\ bar' = NoBar /\ drawdown' \in {drawdown, TRUE}
          /\ UNCHANGED <<fillModel, i, k, pos, pending, results, losses, sold, last>>
      BY <1>5 DEF MarkToMarket, account
    <2>2. TypeOK'
      BY <2>1 DEF Inv, TypeOK, Bars, Position
    <2>3. Shape'
      BY <2>1 DEF Inv, Shape, Bars
    <2>. QED BY <2>2, <2>3 DEF Inv
  <1>. QED BY <1>1, <1>2, <1>3, <1>4, <1>5 DEF Idle

(* Every step keeps the invariant.                                         *)
LEMMA InvNext == Inv /\ [Next]_vars => Inv'
  <1>. SUFFICES ASSUME Inv, [Next]_vars PROVE Inv'
    OBVIOUS
  <1>1. CASE UNCHANGED vars
    BY <1>1 DEF Inv, TypeOK, Shape, vars, Bars, Position
  <1>2. CASE Next
    BY <1>2, StopOutKeeps, TakeProfitKeeps, EndUpdateKeeps, FillKeeps, SignalKeeps,
       IdleKeeps DEF Next, Idle
  <1>. QED BY <1>1, <1>2

(* Every variable keeps its type.                                          *)
THEOREM TypeCorrect == Spec => []TypeOK
  <1>1. Inv => TypeOK
    BY DEF Inv
  <1>. QED BY <1>1, InvInit, InvNext, PTL DEF Spec

(* The invariant holds throughout.                                         *)
LEMMA InvHolds == Spec => []Inv
  BY InvInit, InvNext, PTL DEF Spec

\* The actions that change the position without a trade or a fill.
Passing == EndUpdate \/ NotFilled \/ Seek \/ Idle

(* They leave the account, the fill model and an open position alone.      *)
LEMMA PassingKeeps ==
  ASSUME Inv, Passing
  PROVE  /\ UNCHANGED <<fillModel, results, losses, sold>>
         /\ pos' \in {pos, NoPos}
         /\ last' \in {last, NoTrade}
  <1>1. CASE EndUpdate
    BY <1>1 DEF EndUpdate, account
  <1>2. CASE NotFilled \/ Seek
    BY <1>2 DEF NotFilled, Seek, account
  <1>3. CASE Idle
    BY <1>3 DEF Idle, StopHolds, SkipTarget, NextBar, NothingPending, SeekNothing,
       MarkToMarket, account
  <1>. QED BY <1>1, <1>2, <1>3 DEF Passing

\* The age a signal may have at each step of the loop's body.
SignalAge ==
    pending # NoPending =>
        /\ pc \in {"resolve", "seek", "mark", "top"}
        /\ Age <= IF pc = "resolve" THEN Patience + 1 ELSE Patience

(* Where a signal is kept its age stays below the bound.                   *)
LEMMA SignalAgeNext == Inv /\ SignalAge /\ [Next]_vars => SignalAge'
  <1>. SUFFICES ASSUME Inv, SignalAge, [Next]_vars, pending' # NoPending PROVE SignalAge'
    BY DEF SignalAge
  <1>0. i \in Nat /\ (pending # NoPending => pending.created \in Nat)
    BY SizeAssumption DEF Inv, TypeOK
  <1>1. CASE UNCHANGED vars
    BY <1>1 DEF SignalAge, Age, Patience, vars
  <1>2. CASE StopOut \/ TakeProfit \/ EndUpdate \/ StopHolds \/ SkipTarget \/ Fill
    <2>1. pending' = NoPending
      BY <1>2 DEF Inv, Shape, StopOut, TakeProfit, EndUpdate, StopHolds, SkipTarget, Fill
    <2>. QED BY <2>1
  <1>3. CASE NotFilled
    <2>1. /\ pending' = pending /\ pc = "resolve" /\ pc' = "seek" /\ ~Fillable
          /\ fillModel = "limit_retest" => ~(Age > LimitBars)
          /\ UNCHANGED <<fillModel, i>>
      BY <1>3 DEF NotFilled, Waiting
    <2>2. Age <= Patience + 1 /\ Age \in Int
      BY <1>0, <2>1 DEF SignalAge, Age
    <2>3. Age <= Patience
      BY <2>1, <2>2, LimitAssumption, ModelAssumption
      DEF Inv, TypeOK, Patience, Fillable, InWindow
    <2>. QED BY <2>1, <2>3 DEF SignalAge, Age, Patience
  <1>4. CASE Seek
    <2>1. pending'.created = i /\ pc' = "mark" /\ UNCHANGED <<fillModel, i>>
      BY <1>4 DEF Seek
    <2>. QED BY <1>0, <2>1, LimitAssumption DEF SignalAge, Age, Patience
  <1>5. CASE NextBar
    <2>1. /\ pc = "top" /\ pc' \in {"update", "resolve"} /\ i' = i + 1
          /\ pos # NoPos <=> pc' = "update"
          /\ UNCHANGED <<fillModel, pending>>
      BY <1>5 DEF NextBar
    <2>2. pc' = "resolve"
      BY <2>1 DEF Inv, Shape
    <2>. QED BY <1>0, <2>1, <2>2, LimitAssumption DEF SignalAge, Age, Patience
  <1>6. CASE NothingPending
    <2>1. pending' = NoPending
      BY <1>6 DEF Inv, Shape, NothingPending
    <2>. QED BY <2>1
  <1>7. CASE SeekNothing \/ MarkToMarket
    <2>1. /\ pc \in {"seek", "mark"} /\ pc' \in {"mark", "top"}
          /\ UNCHANGED <<fillModel, i, pending>>
      BY <1>7 DEF SeekNothing, MarkToMarket
    <2>. QED BY <2>1 DEF SignalAge, Age, Patience
  <1>. QED BY <1>1, <1>2, <1>3, <1>4, <1>5, <1>6, <1>7 DEF Next

(* No signal outlives its window, for every window length and both fill    *)
(* models, so that none blocks the entries after it.                       *)
THEOREM SignalsAreResolved == Spec => []SignalIsResolved
  <1>1. Init => SignalAge
    BY DEF Init, SignalAge
  <1>2. SignalAge => SignalIsResolved
    BY DEF SignalAge, SignalIsResolved
  <1>. QED BY <1>1, <1>2, SignalAgeNext, InvHolds, PTL DEF Spec

(* Nothing re-arms the breaker once it fired with nothing open or pending. *)
THEOREM BreakerStops == Spec => BreakerIsFinal
  <1>1. Inv /\ [Next]_vars => (Stopped => Stopped')
    <2>. SUFFICES ASSUME Inv, [Next]_vars, Stopped PROVE Stopped'
      OBVIOUS
    <2>1. pos = NoPos /\ pending = NoPending /\ Breaker
      BY DEF Stopped
    <2>2. ~StopOut /\ ~TakeProfit /\ ~EndUpdate /\ ~Fill
      BY <2>1 DEF Inv, Shape, StopOut, TakeProfit, EndUpdate, Fill, Waiting
    <2>3. ~NotFilled /\ ~Seek
      BY <2>1 DEF NotFilled, Waiting, Seek, Validate
    <2>4. UNCHANGED <<pos, pending, losses>> /\ drawdown' \in {drawdown, TRUE}
      BY <2>2, <2>3 DEF Next, vars, StopHolds, SkipTarget, NextBar, NothingPending,
         SeekNothing, MarkToMarket, account
    <2>. QED BY <2>1, <2>4 DEF Stopped, Breaker
  <1>. QED BY <1>1, InvHolds, PTL DEF Spec, BreakerIsFinal

(* What a trade does to the set of losses since the last win.              *)
LEMMA LossesAfterTrade ==
  ASSUME results \in Seq({-1, 0, 1}), NEW r \in {-1, 0, 1},
         results' = Append(results, r)
  PROVE  /\ r = -1 => LossesSinceWin' = LossesSinceWin \cup {Len(results) + 1}
         /\ r = 0  => LossesSinceWin' = LossesSinceWin
         /\ r = 1  => LossesSinceWin' = {}
  <1>. DEFINE n == Len(results)
  <1>1. n \in Nat
    OBVIOUS
  <1>2. Len(results') = n + 1 /\ results'[n + 1] = r
        /\ \A m \in 1..n : results'[m] = results[m] /\ results[m] \in {-1, 0, 1}
    BY AppendProperties, ElementOfSeq
  <1>. HIDE DEF n
  <1>3. CASE r = 1
    BY <1>1, <1>2, <1>3 DEF LossesSinceWin
  <1>4. CASE r # 1
    <2>1. ASSUME NEW j \in 1..n
          PROVE  (\A m \in j..n + 1 : results'[m] <= 0) <=> (\A m \in j..n : results[m] <= 0)
      <3>1. r <= 0
        BY <1>4
      <3>2. \A m \in j..n + 1 : m = n + 1 \/ (m \in j..n /\ m \in 1..n)
        BY <1>1
      <3>3. \A m \in j..n : m \in j..n + 1 /\ m \in 1..n
        BY <1>1
      <3>. QED BY <3>1, <3>2, <3>3, <1>2
    <2>2. \A j \in 1..n : j \in LossesSinceWin' <=> j \in LossesSinceWin
      BY <2>1, <1>1, <1>2 DEF LossesSinceWin, n
    <2>3. n + 1 \in LossesSinceWin' <=> r = -1
      BY <1>1, <1>2, <1>4 DEF LossesSinceWin
    <2>4. LossesSinceWin' \subseteq 1..n + 1 /\ LossesSinceWin \subseteq 1..n
      BY <1>2 DEF LossesSinceWin, n
    <2>5. \A j \in 1..n + 1 : j \in 1..n \/ j = n + 1
      BY <1>1
    <2>. HIDE DEF LossesSinceWin
    <2>6. CASE r = -1
      <3>1. LossesSinceWin' = LossesSinceWin \cup {n + 1}
        BY <2>2, <2>3, <2>4, <2>5, <2>6
      <3>. QED BY <3>1, <2>6 DEF n
    <2>7. CASE r = 0
      <3>1. n + 1 \notin LossesSinceWin'
        BY <2>3, <2>7
      <3>2. LossesSinceWin' \subseteq 1..n
        BY <3>1, <2>4, <2>5
      <3>3. LossesSinceWin' = LossesSinceWin
        BY <3>2, <2>2, <2>4, Zenon
      <3>. QED BY <3>3, <2>7
    <2>. QED BY <2>6, <2>7, <1>4
  <1>. QED BY <1>3, <1>4

(* Booking a trade keeps the streak true.                                  *)
LEMMA BookStreak ==
  ASSUME TypeOK, StreakIsTrue, NEW price, NEW size, NEW reason,
         Book(price, size, reason)
  PROVE  StreakIsTrue'
  <1>. DEFINE r == RSign(price, size)
  <1>1. r \in {-1, 0, 1}
    BY RSignType
  <1>2. results' = Append(results, r) /\ losses' = Streak(r)
    BY DEF Book
  <1>3. results \in Seq({-1, 0, 1}) /\ losses \in Nat
    BY DEF TypeOK
  <1>. HIDE DEF r
  <1>4. /\ r = -1 => LossesSinceWin' = LossesSinceWin \cup {Len(results) + 1}
        /\ r = 0  => LossesSinceWin' = LossesSinceWin
        /\ r = 1  => LossesSinceWin' = {}
    BY <1>1, <1>2, <1>3, LossesAfterTrade
  <1>5. Len(results) \in Nat
    BY <1>3
  <1>6. IsFiniteSet(LossesSinceWin)
    <2>1. IsFiniteSet(1..Len(results))
      BY <1>5, FS_Interval
    <2>2. LossesSinceWin \subseteq 1..Len(results)
      BY DEF LossesSinceWin
    <2>. QED BY <2>1, <2>2, FS_Subset
  <1>7. Len(results) + 1 \notin LossesSinceWin
    BY <1>5 DEF LossesSinceWin
  <1>8. CASE r = -1
    <2>1. Cardinality(LossesSinceWin') = Cardinality(LossesSinceWin) + 1
      BY <1>4, <1>6, <1>7, <1>8, FS_AddElement
    <2>. QED BY <2>1, <1>2, <1>8 DEF StreakIsTrue, Streak
  <1>9. CASE r = 0
    BY <1>2, <1>4, <1>9 DEF StreakIsTrue, Streak
  <1>10. CASE r = 1
    <2>1. Cardinality(LossesSinceWin') = 0
      BY <1>4, <1>10, FS_EmptySet
    <2>. QED BY <2>1, <1>2, <1>10 DEF StreakIsTrue, Streak
  <1>. QED BY <1>1, <1>8, <1>9, <1>10

(* consecutive_losses is the number of losses since the last win.          *)
THEOREM StreakCorrect == Spec => []StreakIsTrue
  <1>1. Init => StreakIsTrue
    <2>. SUFFICES ASSUME Init PROVE StreakIsTrue
      OBVIOUS
    <2>1. LossesSinceWin = {} /\ losses = 0
      BY DEF Init, LossesSinceWin
    <2>. QED BY <2>1, FS_EmptySet DEF StreakIsTrue
  <1>2. Inv /\ StreakIsTrue /\ [Next]_vars => StreakIsTrue'
    <2>. SUFFICES ASSUME Inv, StreakIsTrue, [Next]_vars PROVE StreakIsTrue'
      OBVIOUS
    <2>1. CASE StopOut
      BY <2>1, BookStreak DEF Inv, StopOut
    <2>2. CASE TakeProfit
      BY <2>2, BookStreak DEF Inv, TakeProfit
    <2>3. CASE Fill \/ Passing \/ UNCHANGED vars
      <3>1. UNCHANGED <<results, losses>>
        BY <2>3, PassingKeeps DEF Fill, vars
      <3>. QED BY <3>1 DEF StreakIsTrue, LossesSinceWin
    <2>. QED BY <2>1, <2>2, <2>3 DEF Next, Passing, Idle
  <1>. QED BY <1>1, <1>2, InvHolds, PTL DEF Spec

(* Every step of the loop is a step of the three-state cycle, or none.     *)
LEMMA CycleStep == Inv /\ [Next]_vars => [Cycle!Next]_<<Phase, sold>>
  <1>. SUFFICES ASSUME Inv, [Next]_vars PROVE [Cycle!Next]_<<Phase, sold>>
    OBVIOUS
  <1>1. CASE UNCHANGED vars
    BY <1>1 DEF vars, Phase
  <1>2. CASE StopOut
    <2>1. /\ pos \in Position /\ pos # NoPos /\ pos.left \in 1..Lots
          /\ pending = NoPending /\ sold + pos.left = Lots /\ sold \in Nat
      BY <1>2 DEF Inv, TypeOK, Shape, StopOut, Position
    <2>2. sold' = sold + pos.left /\ pos' = NoPos /\ pending' = NoPending
      BY <1>2, <2>1 DEF StopOut, Book
    <2>3. Phase = "open" /\ Phase' = "none"
      BY <2>1, <2>2 DEF Phase
    <2>4. Cycle!Sell(pos.left)
      BY <2>1, <2>2, <2>3 DEF Cycle!Sell
    <2>. QED BY <2>1, <2>4 DEF Cycle!Next
  <1>3. CASE TakeProfit
    <2>1. /\ pos \in Position /\ pos # NoPos /\ pos.left \in 0..Lots
          /\ pending = NoPending /\ sold + pos.left = Lots /\ sold \in Nat
      BY <1>3 DEF Inv, TypeOK, Shape, TakeProfit, Position
    <2>2. Slice \in 0..pos.left /\ pos' \in Position /\ pos'.left = pos.left - Slice
      BY <1>3, AfterTarget
    <2>3. sold' = sold + Slice /\ pending' = NoPending /\ pos' # NoPos
      BY <1>3, <2>1, <2>2, PositionIsNotNoPos DEF TakeProfit, Book
    <2>4. CASE Slice = 0
      BY <2>1, <2>2, <2>3, <2>4 DEF Phase
    <2>5. CASE Slice > 0
      <3>1. Phase = "open" /\ Phase' = IF sold' = Lots THEN "none" ELSE "open"
        BY <2>1, <2>2, <2>3, <2>5 DEF Phase
      <3>2. Slice \in 1..Lots
        BY <2>1, <2>2, <2>5
      <3>3. Cycle!Sell(Slice)
        BY <2>1, <2>2, <2>3, <3>1 DEF Cycle!Sell
      <3>. QED BY <3>2, <3>3 DEF Cycle!Next
    <2>. QED BY <2>2, <2>4, <2>5
  <1>4. CASE EndUpdate
    <2>1. /\ pos \in Position /\ pos # NoPos /\ pending = NoPending
          /\ pos.hits = Targets => pos.left = 0
      BY <1>4, TargetsNat DEF Inv, TypeOK, Shape, EndUpdate, Targets
    <2>2. pos' = (IF pos.left = 0 THEN NoPos ELSE pos) /\ UNCHANGED <<pending, sold>>
      BY <1>4, <2>1 DEF EndUpdate, account
    <2>3. Phase' = Phase
      BY <2>1, <2>2 DEF Phase
    <2>. QED BY <2>2, <2>3
  <1>5. CASE Fill
    <2>1. /\ pending \in [setup : Setups, created : 1..N] /\ bar \in Bars /\ i \in 1..N
          /\ pos = NoPos /\ pending # NoPending
      BY <1>5 DEF Inv, TypeOK, Shape, Fill, Waiting
    <2>2. FillPrice \in Int
      BY <2>1, SetupAssumption, PriceAssumption DEF FillPrice, Bars, Setup
    <2>3. pos' \in Position /\ pos'.left = Lots /\ pos' # NoPos
      BY <1>5, <2>1, <2>2, OpenPositionType, PositionIsNotNoPos DEF Fill
    <2>4. Phase = "pending" /\ Phase' = "open" /\ sold' = 0
      BY <1>5, <2>1, <2>3, SizeAssumption DEF Phase, Fill
    <2>. QED BY <2>4 DEF Cycle!Next, Cycle!Fill
  <1>6. CASE NotFilled
    <2>1. pos = NoPos /\ pos' = NoPos /\ sold' = sold /\ pending # NoPending
          /\ pending' \in {pending, NoPending}
      BY <1>6 DEF NotFilled, Waiting, account
    <2>2. Phase = "pending" /\ Phase' \in {"pending", "none"}
      BY <2>1 DEF Phase
    <2>. QED BY <2>1, <2>2 DEF Cycle!Next, Cycle!Expire
  <1>7. CASE Seek
    <2>1. pos = NoPos /\ pos' = NoPos /\ sold' = sold /\ pending = NoPending
          /\ pending' # NoPending
      BY <1>7, SignalIsNotNoPending DEF Seek, account
    <2>2. Phase = "none" /\ Phase' = "pending"
      BY <2>1 DEF Phase
    <2>. QED BY <2>1, <2>2 DEF Cycle!Next, Cycle!Signal
  <1>8. CASE Idle
    <2>1. UNCHANGED <<pos, pending, sold>>
      BY <1>8 DEF Idle, StopHolds, SkipTarget, NextBar, NothingPending, SeekNothing,
         MarkToMarket, account
    <2>. QED BY <2>1 DEF Phase
  <1>. QED BY <1>1, <1>2, <1>3, <1>4, <1>5, <1>6, <1>7, <1>8 DEF Next, Idle

(* The bar loop implements the three-state cycle: one trade at a time, and *)
(* a position is gone exactly when its trades add up to its size.          *)
THEOREM ImplementsCycle == Spec => CycleSpec
  <1>1. Init => Cycle!Init
    BY DEF Init, Cycle!Init, Phase
  <1>. QED BY <1>1, CycleStep, InvHolds, PTL DEF Spec, CycleSpec, Cycle!Spec

-----------------------------------------------------------------------------
(* What limit orders give on top: a position has the prices of a setup.    *)

\* The position was made from the setup s and is filled at its entry.
MadeFrom(s) ==
    /\ pos.side = s.side /\ pos.sl = s.sl /\ pos.tp = s.tp
    /\ pos.entry = s.entry + s.side * Slip

LimitShape ==
    fillModel = "limit_retest" /\ pos # NoPos =>
        /\ \E s \in Setups : MadeFrom(s)
        /\ pos.stop = IF 1 \in pos.hits THEN pos.entry ELSE pos.sl

(* A fill at the limit has the setup's prices.                             *)
LEMMA LimitFill ==
  ASSUME Inv, Fill, fillModel = "limit_retest"
  PROVE  LimitShape'
  <1>1. pending \in [setup : Setups, created : 1..N]
    BY DEF Inv, TypeOK, Fill, Waiting
  <1>2. FillPrice = pending.setup.entry
    BY DEF FillPrice
  <1>3. pos' = OpenPosition(pending, pending.setup.entry)
    BY <1>2 DEF Fill
  <1>4. /\ pos'.side = pending.setup.side /\ pos'.sl = pending.setup.sl
        /\ pos'.tp = pending.setup.tp /\ pos'.stop = pos'.sl /\ pos'.hits = {}
        /\ pos'.entry = pending.setup.entry + pending.setup.side * Slip
    BY <1>3 DEF OpenPosition
  <1>5. pending.setup \in Setups
    BY <1>1
  <1>. QED BY <1>4, <1>5 DEF LimitShape, MadeFrom

(* A target keeps the prices, and the first one puts the stop at the entry. *)
LEMMA LimitTarget ==
  ASSUME Inv, LimitShape, TakeProfit
  PROVE  LimitShape'
  <1>1. /\ pos'.hits = pos.hits \cup {k}
        /\ pos'.stop = IF k = 1 THEN pos.entry ELSE pos.stop
        /\ pos'.side = pos.side /\ pos'.entry = pos.entry /\ pos'.sl = pos.sl
        /\ pos'.tp = pos.tp
    BY AfterTarget
  <1>2. fillModel' = fillModel /\ pos # NoPos
    BY DEF TakeProfit, Inv, Shape
  <1>. QED BY <1>1, <1>2 DEF LimitShape, MadeFrom

(* The prices of a position keep being those of its setup.                 *)
LEMMA LimitShapeNext == Inv /\ LimitShape /\ [Next]_vars => LimitShape'
  <1>. SUFFICES ASSUME Inv, LimitShape, [Next]_vars PROVE LimitShape'
    OBVIOUS
  <1>1. CASE UNCHANGED vars
    BY <1>1 DEF vars, LimitShape, MadeFrom
  <1>2. CASE StopOut
    BY <1>2 DEF StopOut, LimitShape
  <1>3. CASE TakeProfit
    BY <1>3, LimitTarget
  <1>4. CASE Fill
    <2>1. fillModel' = fillModel
      BY <1>4 DEF Fill
    <2>. QED BY <1>4, <2>1, LimitFill DEF LimitShape
  <1>5. CASE Passing
    BY <1>5, PassingKeeps DEF LimitShape, MadeFrom
  <1>. QED BY <1>1, <1>2, <1>3, <1>4, <1>5 DEF Next, Passing, Idle

(* The entry is ahead of the stop, costs included.                         *)
LEMMA EntryAheadOfStop ==
  ASSUME pos \in Position, NEW s \in Setups, MadeFrom(s)
  PROVE  /\ pos.side * (pos.sl - pos.entry) < 0
         /\ pos.entry # pos.sl
         /\ CostsAreSmall => \A t \in Targets : Net(pos.tp[t]) > 0
  <1>1. /\ s.side \in {1, -1} /\ s.entry \in Int /\ s.sl \in Int
        /\ s.tp \in [Targets -> Int]
    BY SetupAssumption DEF Setup
  <1>2. s.side * s.sl < s.side * s.entry
    BY SetupAssumption DEF WellShaped
  <1>3. CASE s.side = 1
    <2>1. s.sl < s.entry /\ pos.entry = s.entry + Slip /\ pos.sl = s.sl /\ pos.side = 1
      BY <1>1, <1>2, <1>3, CostAssumption DEF MadeFrom
    <2>2. CostsAreSmall => \A t \in Targets : Net(pos.tp[t]) > 0
      <3>. SUFFICES ASSUME CostsAreSmall, NEW t \in Targets PROVE Net(pos.tp[t]) > 0
        OBVIOUS
      <3>1. s.tp[t] \in Int /\ s.side * (s.tp[t] - s.entry) > 2 * Slip + Comm
        BY <1>1 DEF CostsAreSmall
      <3>2. s.tp[t] - s.entry > 2 * Slip + Comm
        BY <3>1, <1>1, <1>3, CostAssumption
      <3>3. Net(pos.tp[t]) = s.tp[t] - (s.entry + Slip) - Slip - Comm
        BY <2>1, <3>1, <1>1, CostAssumption DEF Net, MadeFrom
      <3>. QED BY <3>1, <3>2, <3>3, <1>1, CostAssumption
    <2>. QED BY <1>1, <2>1, <2>2, CostAssumption
  <1>4. CASE s.side = -1
    <2>1. s.sl > s.entry /\ pos.entry = s.entry - Slip /\ pos.sl = s.sl /\ pos.side = -1
      BY <1>1, <1>2, <1>4, CostAssumption DEF MadeFrom
    <2>2. CostsAreSmall => \A t \in Targets : Net(pos.tp[t]) > 0
      <3>. SUFFICES ASSUME CostsAreSmall, NEW t \in Targets PROVE Net(pos.tp[t]) > 0
        OBVIOUS
      <3>1. s.tp[t] \in Int /\ s.side * (s.tp[t] - s.entry) > 2 * Slip + Comm
        BY <1>1 DEF CostsAreSmall
      <3>2. s.entry - s.tp[t] > 2 * Slip + Comm
        BY <3>1, <1>1, <1>4, CostAssumption
      <3>3. Net(pos.tp[t]) = (s.entry - Slip) - s.tp[t] - Slip - Comm
        BY <2>1, <3>1, <1>1, CostAssumption DEF Net, MadeFrom
      <3>. QED BY <3>1, <3>2, <3>3, <1>1, CostAssumption
    <2>. QED BY <1>1, <2>1, <2>2, CostAssumption
  <1>. QED BY <1>1, <1>3, <1>4

(* What a stop brings under limit orders.                                  *)
LEMMA StopResult ==
  ASSUME Inv, LimitShape, StopOut, fillModel = "limit_retest"
  PROVE  /\ last'.reason = "SL" => last'.r < 0
         /\ last'.reason = "BREAKEVEN" => last'.r = IF Slip + Comm > 0 THEN -1 ELSE 0
         /\ last'.reason # "TP"
  <1>1. /\ pos \in Position /\ pos # NoPos /\ pos.left > 0 /\ pos.left \in Nat
        /\ pos.entry \in Int /\ pos.sl \in Int /\ pos.side \in {1, -1}
    BY DEF Inv, TypeOK, Shape, StopOut, Position
  <1>2. PICK s \in Setups : MadeFrom(s)
    BY <1>1 DEF LimitShape
  <1>3. pos.side * (pos.sl - pos.entry) < 0 /\ pos.entry # pos.sl
    BY <1>1, <1>2, EntryAheadOfStop
  <1>4. pos.stop = IF 1 \in pos.hits THEN pos.entry ELSE pos.sl
    BY <1>1 DEF LimitShape
  <1>. DEFINE even == pos.hits # {} /\ pos.stop = pos.entry
  <1>5. last' = [r |-> RSign(pos.stop, pos.left),
                 reason |-> IF even THEN "BREAKEVEN" ELSE "SL"]
    BY DEF StopOut, Book
  <1>6. CASE even
    <2>1. Net(pos.stop) = 0 - Slip - Comm
      BY <1>1, <1>6, CostAssumption DEF Net
    <2>2. RSign(pos.stop, pos.left) = IF Slip + Comm > 0 THEN -1 ELSE 0
      BY <1>1, <1>3, <2>1, CostAssumption DEF RSign
    <2>. QED BY <1>5, <1>6, <2>2
  <1>7. CASE ~even
    <2>1. pos.stop = pos.sl
      BY <1>4, <1>7
    <2>2. Net(pos.stop) < 0
      BY <1>1, <1>3, <2>1, CostAssumption DEF Net
    <2>3. RSign(pos.stop, pos.left) = -1
      BY <1>1, <1>3, <2>2 DEF RSign
    <2>. QED BY <1>5, <1>7, <2>3
  <1>. QED BY <1>6, <1>7

(* What a target brings under limit orders and small costs.                *)
LEMMA TargetResult ==
  ASSUME Inv, LimitShape, TakeProfit
  PROVE  /\ last'.reason = "TP" /\ last'.r \in {-1, 0, 1} /\ losses' = Streak(last'.r)
         /\ fillModel = "limit_retest" /\ CostsAreSmall => last'.r >= 0
  <1>1. pos \in Position /\ pos # NoPos /\ k \in Targets
    BY DEF Inv, TypeOK, Shape, TakeProfit
  <1>2. last' = [r |-> RSign(pos.tp[k], Slice), reason |-> "TP"]
        /\ losses' = Streak(RSign(pos.tp[k], Slice))
    BY DEF TakeProfit, Book
  <1>3. ASSUME fillModel = "limit_retest", CostsAreSmall
        PROVE  RSign(pos.tp[k], Slice) >= 0
    <2>1. PICK s \in Setups : MadeFrom(s)
      BY <1>1, <1>3 DEF LimitShape
    <2>2. Net(pos.tp[k]) > 0
      BY <1>1, <1>3, <2>1, EntryAheadOfStop
    <2>3. Net(pos.tp[k]) \in Int
      BY <1>1, CostAssumption DEF Net, Position
    <2>. QED BY <2>2, <2>3 DEF RSign
  <1>. QED BY <1>2, <1>3, RSignType

(* With limit orders the reason of an exit tells its result.               *)
LEMMA ReasonNext ==
  Inv /\ LimitShape /\ ReasonTellsResult /\ [Next]_vars => ReasonTellsResult'
  <1>. SUFFICES ASSUME Inv, LimitShape, ReasonTellsResult, [Next]_vars
                PROVE  ReasonTellsResult'
    OBVIOUS
  <1>1. CASE StopOut
    <2>1. fillModel' = fillModel
      BY <1>1 DEF StopOut
    <2>. QED BY <1>1, <2>1, StopResult DEF ReasonTellsResult
  <1>2. CASE TakeProfit
    <2>1. fillModel' = fillModel
      BY <1>2 DEF TakeProfit
    <2>. QED BY <1>2, <2>1, TargetResult DEF ReasonTellsResult, CostsAreSmall
  <1>3. CASE Fill \/ Passing \/ UNCHANGED vars
    <2>1. fillModel' = fillModel /\ last' \in {last, NoTrade}
      BY <1>3, PassingKeeps DEF Fill, vars
    <2>. QED BY <2>1 DEF ReasonTellsResult, NoTrade, CostsAreSmall
  <1>. QED BY <1>1, <1>2, <1>3 DEF Next, Passing, Idle

(* With limit orders a stop loses, a breakeven exit costs what the exit    *)
(* costs, and a target farther than the costs never loses.                 *)
THEOREM ReasonIsTrue == Spec => []ReasonTellsResult
  <1>1. Init => LimitShape /\ ReasonTellsResult
    BY DEF Init, LimitShape, ReasonTellsResult, NoTrade
  <1>. QED BY <1>1, LimitShapeNext, ReasonNext, InvHolds, PTL DEF Spec

\* While a trade is under way the streak is short of the limit.
Room ==
    fillModel = "limit_retest" /\ CostsAreSmall =>
        /\ losses <= MaxLosses
        /\ pos # NoPos \/ pending # NoPending => losses < MaxLosses

(* A position adds one loss at most to a streak that had room for it.      *)
LEMMA RoomNext == Inv /\ LimitShape /\ Room /\ [Next]_vars => Room'
  <1>. SUFFICES ASSUME Inv, LimitShape, Room, [Next]_vars PROVE Room'
    OBVIOUS
  <1>1. losses \in Nat /\ MaxLosses \in Nat
    BY LimitAssumption DEF Inv, TypeOK
  <1>2. CASE StopOut
    <2>1. pos # NoPos /\ pending = NoPending /\ fillModel' = fillModel
          /\ pos' = NoPos /\ pending' = NoPending
      BY <1>2 DEF Inv, Shape, StopOut
    <2>2. PICK r : losses' = Streak(r)
      BY <1>2 DEF StopOut, Book
    <2>3. losses' \in {0, losses, losses + 1}
      BY <2>2 DEF Streak
    <2>. QED BY <1>1, <2>1, <2>3 DEF Room, CostsAreSmall
  <1>3. CASE TakeProfit
    <2>1. pos # NoPos /\ fillModel' = fillModel
      BY <1>3 DEF Inv, Shape, TakeProfit
    <2>2. fillModel = "limit_retest" /\ CostsAreSmall => losses' \in {0, losses}
      BY <1>3, TargetResult DEF Streak
    <2>. QED BY <1>1, <2>1, <2>2 DEF Room, CostsAreSmall
  <1>4. CASE Fill
    <2>1. pending # NoPending /\ UNCHANGED <<fillModel, losses>>
      BY <1>4 DEF Fill, Waiting
    <2>. QED BY <2>1 DEF Room, CostsAreSmall
  <1>5. CASE Seek
    <2>1. losses < MaxLosses /\ UNCHANGED <<fillModel, losses>>
      BY <1>1, <1>5 DEF Seek, Validate, Breaker, account
    <2>. QED BY <1>1, <2>1 DEF Room, CostsAreSmall
  <1>6. CASE NotFilled
    <2>1. /\ pending' \in {pending, NoPending}
          /\ UNCHANGED <<fillModel, pos, losses>>
      BY <1>6 DEF NotFilled, account
    <2>. QED BY <2>1 DEF Room, CostsAreSmall
  <1>7. CASE EndUpdate \/ Idle \/ UNCHANGED vars
    <2>1. pos' \in {pos, NoPos} /\ UNCHANGED <<fillModel, losses>>
      BY <1>7, PassingKeeps DEF Passing, vars
    <2>2. pending' = pending
      BY <1>7 DEF EndUpdate, Idle, StopHolds, SkipTarget, NextBar, NothingPending,
         SeekNothing, MarkToMarket, vars
    <2>. QED BY <2>1, <2>2 DEF Room, CostsAreSmall
  <1>. QED BY <1>2, <1>3, <1>4, <1>5, <1>6, <1>7 DEF Next, Idle

(* With limit orders and small costs the breaker is never overshot.        *)
THEOREM StreakStaysBounded == Spec => []StreakBounded
  <1>1. Init => LimitShape /\ Room
    BY LimitAssumption DEF Init, LimitShape, Room
  <1>2. Room => StreakBounded
    BY DEF Room, StreakBounded
  <1>. QED BY <1>1, <1>2, LimitShapeNext, RoomNext, InvHolds, PTL DEF Spec
=============================================================================
