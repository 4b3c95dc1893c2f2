------------------------ MODULE TradingServiceProofs ------------------------
(***************************************************************************)
(* Proofs about TradingService: failed saves, restarts at any point and    *)
(* the concurrent reconcile check included.  OrderManager's invariant      *)
(* survives them: a restart forgets the tracker and the thread's place at  *)
(* once, and an exception of a save leaves the thread where the handler    *)
(* that catches it does.                                                   *)
(***************************************************************************)
EXTENDS TradingService, OrderManagerProofs

USE BoundsAssumption, ConfigAssumption DEF OrderId, NoId
USE DEF OnFillPoint, OnClosePoint, ClosedPoint

CheckType == check \in [pc : {"off", "orders", "position"}, open : SUBSET OrderId]

(* While trigger_external saves, process_setup is past placing, or still   *)
(* about to size an order in _mark_price_passed_entry's handler; while     *)
(* check_after_trade saves, the thread is in the second polling loop.      *)
SaverKnown ==
    /\ saver \in Saver
    /\ saver = "setup" => pc \in {"size", "timeout"}
    /\ saver = "notify" => pc = "close"

InvAll == Inv /\ switchFile \in BOOLEAN /\ CheckType /\ SaverKnown

-----------------------------------------------------------------------------
(* The invariant                                                           *)

(* A restart is as good as a fresh start with the orders of the last life. *)
LEMMA RestartKeeps ==
  ASSUME Inv, switchFile \in BOOLEAN, Restart
  PROVE  Inv'
  <1>1. /\ pos' = [i \in OrderId |-> NoRecord] /\ pc' = "idle" /\ todo' = {} /\ counted' = {}
        /\ cur' = NoId /\ slId' = NoId /\ tpFilled' = FALSE /\ setup' = 0
        /\ killSwitch' = switchFile /\ UNCHANGED <<orders, nextId, net, faulted, audit>>
    BY DEF Restart, SavedTracker, SwitchLoaded, Abandon, Goto, ClearLocals, ClearExits, exchange
  <1>2. \A i \in OrderId : pos'[i].state = "NONE"
    BY <1>1 DEF NoRecord
  <1>3. TypeOK'
    BY <1>1, NoRecordType DEF Inv, TypeOK, PC
  <1>4. FreshIds'
    BY <1>1, <1>2 DEF Inv, FreshIds
  <1>5. EntriesReal' /\ CountedClosed' /\ ExitsAreOwn' /\ OutcomeIsTrue'
    BY <1>1, <1>2 DEF EntriesReal, CountedClosed, ExitsAreOwn, OutcomeIsTrue, Closed
  <1>6. Handling'
    BY <1>1 DEF Handling
  <1>. QED BY <1>3, <1>4, <1>5, <1>6 DEF Inv

(* What an exception of _save_state leaves of the thread.                  *)
LEMMA SaveFailsKeeps ==
  ASSUME Inv, SaverKnown, SaveFails
  PROVE  Inv'
  <1>1. UNCHANGED <<orders, nextId, net, pos, killSwitch, counted, cur, slId, setup, tpFilled,
                    faulted, audit>>
    BY DEF SaveFails, exchange, local
  <1>2. \/ pc' = "timeout" /\ todo' = InState(pos, "PENDING")
        \/ pc' = "idle" /\ todo' = {}
        \/ UNCHANGED <<pc, todo>>
    BY DEF SaveFails, GotoTimeouts, Goto, Abandon
  <1>3. TypeOK'
    BY <1>1, <1>2 DEF Inv, TypeOK, PC, InState
  <1>4. FreshIds' /\ EntriesReal' /\ CountedClosed' /\ ExitsAreOwn' /\ OutcomeIsTrue'
    BY <1>1 DEF Inv, FreshIds, EntriesReal, CountedClosed, ExitsAreOwn, OutcomeIsTrue
  <1>5. Handling'
    BY <1>1, <1>2 DEF Inv, Handling, InState
  <1>. QED BY <1>3, <1>4, <1>5 DEF Inv

LEMMA InvAllInit == InitAll => InvAll
  <1>1. NoCheck \in [pc : {"off", "orders", "position"}, open : SUBSET OrderId]
    BY DEF NoCheck
  <1>. QED BY <1>1, InvInit DEF InitAll, InvAll, CheckType, SaverKnown, Saver

(* The four kinds of steps of the whole system, by what they do to the     *)
(* order manager and to the file.                                          *)
LEMMA AllStep ==
  ASSUME switchFile \in BOOLEAN, [NextAll]_allVars
  PROVE  \/ [Next]_vars /\ switchFile' = switchFile
         \/ UNCHANGED vars /\ (switchFile' = killSwitch \/ switchFile' \/ switchFile' = switchFile)
         \/ SaveFails /\ switchFile' = switchFile
         \/ Restart /\ switchFile' = switchFile
  <1>1. CASE ThreadStep \/ EnvironmentStep
    BY <1>1 DEF ThreadStep, EnvironmentStep, Next
  <1>2. CASE Save
    BY <1>2 DEF Save
  <1>3. CASE SaveFails \/ Restart
    BY <1>3 DEF SaveFails, Restart
  <1>4. CASE StartCheck \/ ReadOrders \/ CheckFails \/ UNCHANGED allVars
    BY <1>4 DEF StartCheck, ReadOrders, CheckFails, allVars
  <1>5. CASE Verdict
    <2>1. switchFile' = (switchFile \/ Drift(SavedTracker, check.open, net)) \/ UNCHANGED switchFile
      BY <1>5 DEF Verdict
    <2>2. UNCHANGED vars
      BY <1>5 DEF Verdict
    <2>3. switchFile' \/ switchFile' = switchFile
      BY <2>1
    <2>. QED BY <2>2, <2>3
  <1>. QED BY <1>1, <1>2, <1>3, <1>4, <1>5 DEF NextAll, CheckStep

LEMMA SaverStep ==
  ASSUME InvAll, [NextAll]_allVars
  PROVE  SaverKnown'
  <1>1. CASE ThreadStep
    <2>1. Service /\ \/ saver' = "none"
                     \/ pc \in {"mark", "place"} /\ Triggers /\ saver' = "setup"
                     \/ pc = "notify" /\ counted' # counted /\ saver' = "notify"
      BY <1>1 DEF ThreadStep
    <2>2. pc = "notify" /\ counted' # counted => pc' = "close"
      BY <2>1 DEF Service, Goto, BeginTick, SkipSetup, AdmitSetup, CheckMark, SizeOrder, PlaceEntry,
                  SkipYoung, CancelOverdue, TimeoutsDone, PollEntry, QueryFails, PlaceSl, PlaceTp,
                  CancelSl, Rollback, PollDone, PollActive, ReadTp, ReadSl, CancelOther, Notify,
                  EndTick
    <2>3. pc \in {"mark", "place"} => CheckMark \/ PlaceEntry
      BY <2>1 DEF Service, BeginTick, SkipSetup, AdmitSetup, SizeOrder,
                  SkipYoung, CancelOverdue, TimeoutsDone, PollEntry, QueryFails, PlaceSl, PlaceTp,
                  CancelSl, Rollback, PollDone, PollActive, ReadTp, ReadSl, CancelOther, Notify,
                  EndTick
    <2>4. pc \in {"mark", "place"} /\ Triggers => pc' \in {"size", "timeout"}
      BY <2>3 DEF CheckMark, PlaceEntry, Goto, GotoTimeouts
    <2>. QED BY <2>1, <2>2, <2>4 DEF SaverKnown, Saver
  <1>2. CASE EnvironmentStep
    <2>1. pc' = pc
      BY <1>2 DEF EnvironmentStep, Environment, Fill, Expire, CloseByHand, OtherSymbolTrips, service
    <2>2. saver' = saver \/ saver' = "other"
      BY <1>2 DEF EnvironmentStep
    <2>. QED BY <2>1, <2>2 DEF InvAll, SaverKnown, Saver
  <1>3. CASE Save \/ SaveFails \/ Restart
    BY <1>3 DEF Save, SaveFails, Restart, SaverKnown, Saver
  <1>4. CASE CheckStep \/ UNCHANGED allVars
    BY <1>4 DEF CheckStep, StartCheck, ReadOrders, CheckFails, Verdict, allVars, vars, InvAll,
                SaverKnown
  <1>. QED BY <1>1, <1>2, <1>3, <1>4 DEF NextAll

LEMMA CheckStepType ==
  ASSUME InvAll, [NextAll]_allVars
  PROVE  CheckType'
  <1>1. CASE UNCHANGED check
    BY <1>1 DEF InvAll, CheckType
  <1>2. CASE StartCheck
    <2>1. [pc |-> "orders", open |-> {}]
            \in [pc : {"off", "orders", "position"}, open : SUBSET OrderId]
      OBVIOUS
    <2>. QED BY <1>2, <2>1 DEF StartCheck, CheckType
  <1>3. CASE CheckFails \/ Verdict
    <2>1. NoCheck \in [pc : {"off", "orders", "position"}, open : SUBSET OrderId]
      BY DEF NoCheck
    <2>2. check' = NoCheck
      BY <1>3 DEF CheckFails, Verdict
    <2>. QED BY <2>1, <2>2 DEF CheckType
  <1>4. CASE ReadOrders
    BY <1>4 DEF ReadOrders, InvAll, CheckType
  <1>. QED
    BY <1>1, <1>2, <1>3, <1>4
    DEF NextAll, allVars, ThreadStep, EnvironmentStep, Save, SaveFails, CheckStep, Restart

LEMMA InvAllStep == InvAll /\ [NextAll]_allVars => InvAll'
  <1> SUFFICES ASSUME InvAll, [NextAll]_allVars PROVE InvAll'
    OBVIOUS
  <1>1. Inv'
    BY AllStep, InvStep, RestartKeeps, SaveFailsKeeps DEF InvAll
  <1>2. switchFile' \in BOOLEAN
    BY AllStep DEF InvAll, Inv, TypeOK, NextAll, allVars, ThreadStep, EnvironmentStep, Save,
                   SaveFails, Restart, CheckStep, StartCheck, ReadOrders, CheckFails, Verdict
  <1>3. CheckType' /\ SaverKnown'
    BY CheckStepType, SaverStep
  <1>. QED BY <1>1, <1>2, <1>3 DEF InvAll

(* The order manager's invariant holds across restarts and failed saves,   *)
(* so its positions have exits of their own and its outcomes are true      *)
(* there as well.                                                          *)
THEOREM InvAllHolds == SpecAll => []InvAll
  BY InvAllInit, InvAllStep, PTL DEF SpecAll

(* Every variable of the deployed system keeps its type.                   *)
THEOREM TypeCorrectAll == SpecAll => []TypeOKAll
  <1>1. InvAll => TypeOKAll
    BY DEF InvAll, Inv, CheckType, SaverKnown, TypeOKAll
  <1>. QED BY <1>1, InvAllHolds, PTL

-----------------------------------------------------------------------------
(* Restarts                                                                *)

(* With true replies no entry is protected twice, restarts included: what  *)
(* a restart forgets is not polled again.                                  *)
THEOREM ProtectedAcrossRestarts == TrueReplies => (SpecAll => []ProtectedOnce)
  <1> SUFFICES ASSUME TrueReplies PROVE SpecAll => []ProtectedOnce
    OBVIOUS
  <1>1. InitAll => ProtectInv
    BY ProtectInit DEF InitAll
  <1>2. InvAll /\ ProtectInv /\ [NextAll]_allVars => ProtectInv'
    <2> SUFFICES ASSUME InvAll, ProtectInv, [NextAll]_allVars PROVE ProtectInv'
      OBVIOUS
    <2>1. CASE [Next]_vars
      BY <2>1, ProtectStep DEF InvAll
    <2>2. CASE Restart
      <3>1. UNCHANGED <<orders, nextId>> /\ \A i \in OrderId : pos'[i].state = "NONE"
        BY <2>2 DEF Restart, SavedTracker, NoRecord, exchange
      <3>. QED BY <3>1 DEF ProtectInv, ProtectedOnce, ExitOwners
    <2>3. CASE SaveFails
      <3>1. UNCHANGED <<orders, nextId, pos, cur>>
        BY <2>3 DEF SaveFails, exchange, local
      <3>2. pc' = pc \/ pc \in {"size", "timeout", "close"}
        BY <2>3 DEF SaveFails, InvAll, SaverKnown, Saver
      <3>. QED BY <3>1, <3>2 DEF ProtectInv, ProtectedOnce, ExitOwners
    <2>. QED BY <2>1, <2>2, <2>3, AllStep DEF InvAll
  <1>3. ProtectInv => ProtectedOnce
    BY DEF ProtectInv
  <1>. QED BY <1>1, <1>2, <1>3, InvAllHolds, PTL DEF SpecAll

-----------------------------------------------------------------------------
(* The kill switch                                                         *)

(* The switch in memory never goes back within one life of the service.    *)
LEMMA SwitchStays ==
  ASSUME Inv, [Next]_vars, killSwitch
  PROVE  killSwitch'
  BY DEF Inv, TypeOK, Next, Service, Environment, vars, service, BeginTick, SkipSetup, AdmitSetup,
         CheckMark, SizeOrder, PlaceEntry, SkipYoung, CancelOverdue, TimeoutsDone, PollEntry,
         QueryFails, PlaceSl, PlaceTp, CancelSl, Rollback, PollDone, PollActive, ReadTp, ReadSl,
         CancelOther, Notify, CheckAfterTrade, EndTick, Fill, Expire, CloseByHand, OtherSymbolTrips

(* A trip in memory and in the file outlives saves, failures and restarts. *)
LEMMA TrippedStays ==
  ASSUME InvAll, [NextAll]_allVars, Tripped
  PROVE  Tripped'
  <1>1. CASE [Next]_vars /\ switchFile' = switchFile
    BY <1>1, SwitchStays DEF Tripped, InvAll
  <1>2. CASE UNCHANGED vars /\ (switchFile' = killSwitch \/ switchFile' \/ switchFile' = switchFile)
    BY <1>2 DEF Tripped, vars
  <1>3. CASE (SaveFails \/ Restart) /\ switchFile' = switchFile
    BY <1>3 DEF SaveFails, Restart, SwitchLoaded, Tripped
  <1>. QED BY <1>1, <1>2, <1>3, AllStep DEF InvAll

(* Past the check of the switch come only setups that passed it.           *)
LEMMA CheckedFirst ==
  ASSUME Inv, [Next]_vars, killSwitch, ~Placing
  PROVE  ~Placing'
  BY DEF Placing, Blocked, Next, Service, Environment, vars, service, Goto, GotoTimeouts, Abandon,
         Branch, GiveUp, BeginTick, SkipSetup, AdmitSetup, CheckMark, SizeOrder, PlaceEntry,
         SkipYoung, CancelOverdue, TimeoutsDone, PollEntry, QueryFails, PlaceSl, PlaceTp, CancelSl,
         Rollback, PollDone, PollActive, ReadTp, ReadSl, CancelOther, Notify, EndTick, Fill, Expire,
         CloseByHand, OtherSymbolTrips

(* A record is added at pc "place" alone, one at a time, and then          *)
(* process_setup is over.                                                  *)
LEMMA AddedOnce ==
  ASSUME Inv, [Next]_vars, NEW i \in OrderId, Unknown(i), ~Unknown(i)'
  PROVE  Placing /\ ~Placing' /\ \A j \in OrderId \ {i} : Unknown(j) => Unknown(j)'
  <1>1. TrackerMoves
    BY TrackerStep
  <1>2. CASE \A j \in OrderId : SameRecord(j)
    BY <1>2 DEF SameRecord, Unknown
  <1>3. ASSUME NEW k \in OrderId, OthersSame(k), RecordStep(k)
        PROVE  Placing /\ ~Placing' /\ \A j \in OrderId \ {i} : Unknown(j) => Unknown(j)'
    <2>1. k = i
      BY <1>3 DEF OthersSame, SameRecord, Unknown
    <2>2. AddStep(i)
      BY <1>3, <2>1 DEF RecordStep, AbortStep, ActivateStep, CloseStep, Unknown
    <2>. QED BY <1>3, <2>1, <2>2 DEF AddStep, OthersSame, SameRecord, Unknown, Placing
  <1>. QED BY <1>1, <1>2, <1>3 DEF TrackerMoves

(* A step either is one of the order manager or adds no record.            *)
LEMMA NothingElseAdds ==
  ASSUME InvAll, [NextAll]_allVars, ~[Next]_vars
  PROVE  /\ ~Placing' \/ (Placing /\ UNCHANGED pc)
         /\ \A i \in OrderId : Unknown(i) => Unknown(i)'
  <1>1. CASE SaveFails
    <2>1. pos' = pos
      BY <1>1 DEF SaveFails
    <2>2. pc' \in {"timeout", "idle"} \/ pc' = pc
      BY <1>1 DEF SaveFails, GotoTimeouts, Goto, Abandon
    <2>. QED BY <2>1, <2>2 DEF Placing, Unknown
  <1>2. CASE Restart
    BY <1>2 DEF Restart, SavedTracker, NoRecord, Abandon, Goto, Placing, Unknown
  <1>. QED BY <1>1, <1>2, AllStep DEF InvAll, vars

(* After a trip that reached the file no new entry is tracked but the one  *)
(* whose setup had already passed the check, through failed saves, other   *)
(* processes' writes and restarts at any point.                            *)
THEOREM TripAlwaysStops == SpecAll => TripStopsEntries
  <1> DEFINE Stops ==
        /\ Tripped'
        /\ Placing' => Placing
        /\ \A i \in OrderId :
             Unknown(i) /\ ~Unknown(i)' =>
               /\ Placing /\ ~Placing'
               /\ \A j \in OrderId \ {i} : Unknown(j) => Unknown(j)'
  <1>1. InvAll /\ [NextAll]_allVars => [Tripped => Stops]_allVars
    <2> SUFFICES ASSUME InvAll, [NextAll]_allVars, Tripped PROVE Stops
      OBVIOUS
    <2>1. Tripped'
      BY TrippedStays
    <2>2. CASE [Next]_vars
      <3>1. Placing' => Placing
        BY <2>2, CheckedFirst DEF InvAll, Tripped
      <3>. QED BY <2>1, <2>2, <3>1, AddedOnce DEF InvAll
    <2>3. CASE ~[Next]_vars
      BY <2>1, <2>3, NothingElseAdds
    <2>. QED BY <2>2, <2>3
  <1>. QED BY <1>1, InvAllHolds, PTL DEF SpecAll, TripStopsEntries
=============================================================================
