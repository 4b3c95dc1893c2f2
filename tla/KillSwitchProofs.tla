-------------------------- MODULE KillSwitchProofs --------------------------
(***************************************************************************)
(* Proofs about KillSwitch, for every threshold, every set of results and  *)
(* every choice of scripts.  The invariant is TypeOK /\ LimitsTrip, which  *)
(* is inductive as it stands; what there is to prove is that counting a    *)
(* trade keeps a state consistent, and that every other step moves a whole *)
(* consistent state from one place to another.                             *)
(***************************************************************************)
EXTENDS KillSwitch, TLAPS

Inv == TypeOK /\ LimitsTrip

USE ThresholdAssumption DEF Reason

(* A fresh state has the type and is consistent: no limit is 0.            *)
LEMMA FreshGood == Fresh \in State /\ Consistent(Fresh)
  BY DEF Fresh, State, Consistent

(* A state is not the missing file.                                        *)
LEMMA StateIsNotNoFile == ASSUME NEW s \in State PROVE s # NoFile
  <1>1. DOMAIN s = {"losses", "daily", "triggered", "reasons"}
    BY DEF State
  <1>2. DOMAIN NoFile = {"none"}
    BY DEF NoFile
  <1>3. "losses" \notin DOMAIN NoFile
    BY <1>2
  <1>. QED BY <1>1, <1>3

(* Firing for some reason makes a consistent state.                        *)
LEMMA FiredGood ==
  ASSUME NEW s \in State, NEW R \in SUBSET Reason, R # {}
  PROVE  Fired(s, R) \in State /\ Consistent(Fired(s, R)) /\ Fired(s, R).triggered
  BY DEF Fired, State, Consistent

(* check_after_trade keeps a consistent state consistent and never un-trips. *)
LEMMA AfterTradeGood ==
  ASSUME NEW s \in State, Consistent(s), NEW pnl \in Int, NEW low \in BOOLEAN
  PROVE  /\ AfterTrade(s, pnl, low) \in State
         /\ Consistent(AfterTrade(s, pnl, low))
         /\ s.triggered => AfterTrade(s, pnl, low).triggered
  <1> DEFINE c == CountTrade(s, pnl)
             b == Breaches(c, low)
             losses == IF pnl < 0 THEN s.losses + 1 ELSE 0
  <1>1. c \in State /\ c.triggered = s.triggered /\ c.reasons = s.reasons
    <2>1. c = [s EXCEPT !.losses = losses, !.daily = s.daily + pnl]
      BY Zenon DEF CountTrade
    <2>2. losses \in Nat /\ s.daily + pnl \in Int
      BY DEF State
    <2>. HIDE DEF c, losses
    <2>. QED BY <2>1, <2>2 DEF State
  <1>2. b \in SUBSET Reason
    BY DEF Breaches
  <1>3. AfterTrade(s, pnl, low) = IF b # {} /\ ~c.triggered THEN Fired(c, b) ELSE c
    BY DEF AfterTrade
  <1>4. CASE b # {} /\ ~c.triggered
    <2>. HIDE DEF c, b
    <2>. QED BY <1>1, <1>2, <1>3, <1>4, FiredGood
  <1>5. CASE c.triggered
    <2>1. s.reasons # {}
      BY <1>1, <1>5 DEF Consistent
    <2>2. Consistent(c)
      BY <1>1, <1>5, <2>1 DEF Consistent
    <2>. QED BY <1>1, <1>3, <1>5, <2>2
  <1>6. CASE b = {} /\ ~c.triggered
    <2>1. ~(c.losses >= LossLimit) /\ ~(c.daily <= -DailyLimit)
      BY <1>6 DEF Breaches
    <2>2. s.reasons = {}
      BY <1>1, <1>6 DEF Consistent, State
    <2>3. Consistent(c)
      BY <1>1, <1>6, <2>1, <2>2 DEF Consistent
    <2>. QED BY <1>1, <1>3, <1>6, <2>3
  <1>. QED BY <1>4, <1>5, <1>6

(* What a process loads is a consistent state, file or no file.            *)
LEMMA LoadGood == Inv => Load \in State /\ Consistent(Load)
  BY FreshGood DEF Inv, TypeOK, LimitsTrip, Load

(* The initial state is good, and every step keeps it so.                  *)
LEMMA InvInit == Init => Inv
  BY FreshGood DEF Init, Inv, TypeOK, LimitsTrip, Down, Process, NoFile

(* Every step of a process preserves the invariant.                        *)
LEMMA InvStep == Inv /\ [Next]_vars => Inv'
  <1> SUFFICES ASSUME Inv, [Next]_vars PROVE Inv'
    OBVIOUS
  <1> USE DEF Inv, TypeOK, LimitsTrip, Process
  <1>1. CASE CheckAfterTrade
    <2>1. PICK pnl \in Results, low \in BOOLEAN :
             service' = Saving(AfterTrade(service.mem, pnl, low))
      BY <1>1 DEF CheckAfterTrade
    <2>2. pnl \in Int
      BY <2>1, InputsAssumption
    <2>3. /\ AfterTrade(service.mem, pnl, low) \in State
          /\ Consistent(AfterTrade(service.mem, pnl, low))
      BY <2>2, AfterTradeGood
    <2>4. service' \in Process /\ Consistent(service'.mem)
      BY <2>1, <2>3 DEF Saving
    <2>. QED BY <1>1, <2>1, <2>2, <2>4 DEF CheckAfterTrade
  <1>2. CASE TriggerExternal
    <2>1. Fired(service.mem, {"external"}) \in State /\ Consistent(Fired(service.mem, {"external"}))
      BY FiredGood
    <2>. QED BY <1>2, <2>1 DEF TriggerExternal, Saving
  <1>3. CASE Save
    BY <1>3 DEF Save
  <1>4. CASE SaveFails
    BY <1>4 DEF SaveFails
  <1>5. CASE StartService
    BY <1>5, LoadGood DEF StartService, Start
  <1>6. CASE StopService
    BY <1>6, FreshGood DEF StopService, Down
  <1>7. CASE StartScript
    BY <1>7, LoadGood DEF StartScript, Start
  <1>8. CASE RunScript
    <2>1. Fired(script.mem, {"external"}) \in State /\ Consistent(Fired(script.mem, {"external"}))
      BY FiredGood
    <2>2. script' \in Process /\ Consistent(script'.mem)
      BY <1>8, <2>1, FreshGood DEF RunScript, Saving, Down
    <2>. QED BY <1>8, <2>2 DEF RunScript
  <1>9. CASE EndScript
    BY <1>9, FreshGood DEF EndScript, Down
  <1>10. CASE UNCHANGED vars
    BY <1>10 DEF vars, Consistent
  <1>. QED
    BY <1>1, <1>2, <1>3, <1>4, <1>5, <1>6, <1>7, <1>8, <1>9, <1>10
    DEF Next, Service, Script

(* The invariant holds in every reachable state.                           *)
THEOREM InvHolds == Spec => []Inv
  BY InvInit, InvStep, PTL DEF Spec

(* Every variable of the kill switch keeps its type.                       *)
THEOREM TypeCorrect == Spec => []TypeOK
  <1>1. Inv => TypeOK
    BY DEF Inv
  <1>. QED BY <1>1, InvHolds, PTL

(* A loss limit that is reached has always tripped the switch, in memory   *)
(* and on disk, whatever the processes did to each other's file.           *)
THEOREM LimitsAlwaysTrip == Spec => []LimitsTrip
  <1>1. Inv => LimitsTrip
    BY DEF Inv
  <1>. QED BY <1>1, InvHolds, PTL

(* A trip everybody knows of is given up by a reset only.                  *)
LEMMA TripStep ==
  Inv /\ [Next]_vars => (Known => Known' \/ script' = Saving(Fresh))
  <1> SUFFICES ASSUME Inv, [Next]_vars, Known, script' # Saving(Fresh) PROVE Known'
    OBVIOUS
  <1> USE DEF Inv, TypeOK, Process, Known
  <1>0. (Load.triggered)' <=> IF file' = NoFile THEN Fresh.triggered ELSE file'.triggered
    BY DEF Load
  <1>1. CASE CheckAfterTrade
    <2>1. PICK pnl \in Results, low \in BOOLEAN :
             service' = Saving(AfterTrade(service.mem, pnl, low))
      BY <1>1 DEF CheckAfterTrade
    <2>2. service.mem.triggered /\ UNCHANGED <<file, script>>
      BY <1>1 DEF CheckAfterTrade
    <2>3. AfterTrade(service.mem, pnl, low).triggered
      BY <2>1, <2>2, AfterTradeGood, InputsAssumption DEF LimitsTrip
    <2>. QED BY <2>1, <2>2, <2>3 DEF Saving, Load
  <1>2. CASE TriggerExternal
    <2>1. Fired(service.mem, {"external"}).triggered
      BY FiredGood
    <2>. QED BY <1>2, <2>1 DEF TriggerExternal, Saving, Load
  <1>3. CASE Save
    <2>1. service.mem \in State /\ service.mem.triggered
      BY <1>3 DEF Save
    <2>2. file' = service.mem /\ service'.mem = service.mem /\ script' = script
      BY <1>3 DEF Save
    <2>3. file' # NoFile
      BY <2>1, <2>2, StateIsNotNoFile
    <2>. QED BY <1>0, <2>1, <2>2, <2>3
  <1>4. CASE SaveFails
    BY <1>4 DEF SaveFails, Load
  <1>5. CASE StartService
    BY <1>5 DEF StartService, Start, Load
  <1>6. CASE StopService
    BY <1>6 DEF StopService, Down, Load
  <1>7. CASE StartScript
    BY <1>7 DEF StartScript, Start, Load
  <1>8. CASE RunScript
    <2>1. Fired(script.mem, {"external"}).triggered
      BY FiredGood
    <2>2. script'.pc # "down" => script'.mem.triggered
      BY <1>8, <2>1 DEF RunScript, Saving, Down
    <2>. QED BY <1>8, <2>2 DEF RunScript, Load
  <1>9. CASE EndScript
    <2>1. script.mem \in State /\ script.mem.triggered
      BY <1>9 DEF EndScript
    <2>2. file' = script.mem /\ script'.pc = "down" /\ service' = service
      BY <1>9 DEF EndScript, Down
    <2>3. file' # NoFile
      BY <2>1, <2>2, StateIsNotNoFile
    <2>. QED BY <1>0, <2>1, <2>2, <2>3
  <1>10. CASE UNCHANGED vars
    BY <1>10 DEF vars, Load
  <1>. QED
    BY <1>1, <1>2, <1>3, <1>4, <1>5, <1>6, <1>7, <1>8, <1>9, <1>10
    DEF Next, Service, Script

(* A trip that is on disk and known to every process survives everything   *)
(* but a reset.                                                            *)
THEOREM TripAlwaysPersists == Spec => TripPersists
  <1>1. Inv /\ [Next]_vars => [Known => Known' \/ script' = Saving(Fresh)]_vars
    BY TripStep
  <1>. QED BY <1>1, InvHolds, PTL DEF Spec, TripPersists
=============================================================================
