--------------------------- MODULE TradingService ---------------------------
(***************************************************************************)
(* The deployed system around one symbol's OrderManager: the service can   *)
(* die and be restarted at any point (systemd), the kill switch has a file *)
(* (kill_switch_state.json), and the operator runs                         *)
(* scripts/reconcile_check.py, a process that builds its own tracker and   *)
(* kill switch from the files and runs one ReconcileLoop.tick.             *)
(*                                                                         *)
(* PositionTracker.save_state has no caller outside the tests, so          *)
(* positions-SYM.json never exists and load_state leaves a tracker empty.  *)
(***************************************************************************)
EXTENDS OrderManager

VARIABLES
    switchFile,   \* `triggered` in kill_switch_state.json
    saver,        \* who has the service's thread inside _save_state
    check         \* the reconcile_check process

allVars == <<vars, switchFile, saver, check>>

Saver == {"none",     \* nobody
          "setup",    \* trigger_external, called by process_setup
          "notify",   \* check_after_trade, called by _notify_kill_switch
          "other"}    \* another symbol's manager

SavedTracker == [i \in OrderId |-> NoRecord]

-----------------------------------------------------------------------------
(* The service: every step of OrderManager, and the saves it makes.  The   *)
(* switch trips in memory first; then the same thread writes the file, and *)
(* until it is done only the exchange and other processes move.            *)

Triggers ==               \* a trip, or an error that trips a tripped switch
    \/ killSwitch' # killSwitch
    \/ killSwitch /\ pc = "mark" /\ pc' = "size" /\ "error" \in Faults
    \/ killSwitch /\ pc = "place" /\ pos' = pos

ThreadStep ==
    /\ saver = "none" /\ Service
    /\ \/ killSwitch' = killSwitch /\ counted' = counted /\ saver' = "none"
       \/ pc \in {"mark", "place"} /\ Triggers /\ saver' = "setup"
       \/ pc = "notify" /\ counted' # counted /\ saver' = "notify"
    /\ UNCHANGED <<switchFile, check>>

EnvironmentStep ==
    /\ Environment
    /\ IF killSwitch' # killSwitch THEN saver = "none" /\ saver' = "other"
                                  ELSE UNCHANGED saver
    /\ UNCHANGED <<switchFile, check>>

Save ==                   \* os.replace: all of the file or nothing
    /\ saver # "none" /\ saver' = "none"
    /\ switchFile' = killSwitch
    /\ UNCHANGED <<vars, check>>

(* The exception leaves process_setup for run_once, which swallows it, or  *)
(* tick_fill_polling for _tick; in memory the switch stays as it is.       *)
SaveFails ==
    /\ "disk" \in Faults
    /\ saver # "none" /\ saver' = "none"
    /\ \/ saver = "setup" /\ GotoTimeouts(pos)
       \/ saver = "notify" /\ Abandon
       \/ saver = "other" /\ UNCHANGED <<pc, todo>>
    /\ UNCHANGED <<exchange, pos, killSwitch, counted, local, faulted, audit, switchFile, check>>

(* Mutant: a restarted service does not ask the file.                      *)
SwitchForgotten == FALSE

SwitchLoaded == switchFile

(* The process dies between two REST calls or inside a save, and systemd   *)
(* starts it again: run_live loads the kill switch's file and each         *)
(* symbol's tracker.  `counted` is a history of the tracker's records, and *)
(* goes with them.                                                         *)
Restart ==
    /\ pos' = SavedTracker
    /\ killSwitch' = SwitchLoaded
    /\ counted' = {}
    /\ Abandon /\ ClearLocals
    /\ saver' = "none"
    /\ UNCHANGED <<exchange, faulted, audit, switchFile, check>>

-----------------------------------------------------------------------------
(* scripts/reconcile_check.py and ReconcileLoop.tick                       *)

NoCheck == [pc |-> "off", open |-> {}]

LocalPending(tracker) == InState(tracker, "PENDING")
LocalActive(tracker)  == InState(tracker, "ACTIVE")

LocalOrders(tracker) ==
    LocalPending(tracker) \cup UNION {{tracker[i].sl, tracker[i].tp} : i \in LocalActive(tracker)}

(* The four checks: a pending order that is not open, an open order nobody *)
(* knows, an active record without a position or with another size.        *)
Drift(tracker, open, qty) ==
    \/ LocalPending(tracker) \ open # {}
    \/ open \ LocalOrders(tracker) # {}
    \/ \E i \in LocalActive(tracker) : qty # orders[i].side * Qty

StartCheck ==             \* KillSwitch(...), tracker.load_state
    /\ check.pc = "off"
    /\ check' = [pc |-> "orders", open |-> {}]
    /\ UNCHANGED <<vars, switchFile, saver>>

ReadOrders ==             \* get_open_orders; a failure ends the tick
    /\ check.pc = "orders"
    /\ check' = [check EXCEPT !.pc = "position", !.open = {o \in OrderId : Open(o)}]
    /\ UNCHANGED <<vars, switchFile, saver>>

CheckFails ==
    /\ check.pc = "orders" /\ CallFails
    /\ check' = NoCheck
    /\ UNCHANGED <<vars, switchFile, saver>>

Verdict ==                \* trigger_external saves the script's own state
    /\ check.pc = "position"
    /\ \/ switchFile' = (switchFile \/ Drift(SavedTracker, check.open, net))
       \/ "disk" \in Faults /\ UNCHANGED switchFile
    /\ check' = NoCheck
    /\ UNCHANGED <<vars, saver>>

CheckStep == StartCheck \/ ReadOrders \/ CheckFails \/ Verdict

InitAll == Init /\ switchFile = FALSE /\ saver = "none" /\ check = NoCheck

NextAll == ThreadStep \/ EnvironmentStep \/ Save \/ SaveFails \/ Restart \/ CheckStep

SpecAll == InitAll /\ [][NextAll]_allVars

(* systemd restarts the service, so its thread always runs on in the end.  *)
FairSpecAll == SpecAll /\ WF_allVars(ThreadStep \/ Save \/ SaveFails)

-----------------------------------------------------------------------------
(* Properties *)

(* Every variable keeps its type.                                          *)
TypeOKAll ==
    /\ TypeOK /\ switchFile \in BOOLEAN /\ saver \in Saver
    /\ check \in [pc : {"off", "orders", "position"}, open : SUBSET OrderId]

(* The switch has tripped and the file says so.                            *)
Tripped  == killSwitch /\ switchFile
Placing  == pc \in {"mark", "size", "place"}     \* process_setup, past its checks
Unknown(i) == pos[i].state = "NONE"

(* A trip that reached the file stops entries for good, whatever restarts, *)
(* fails to be saved or is overwritten by another process: it is never     *)
(* lost again, no setup gets past the check, and of a setup that had, at   *)
(* most one order is tracked (the switch is read once, order_manager.py:84)*)
TripStopsEntries ==
    [][Tripped =>
         /\ Tripped'
         /\ Placing' => Placing
         /\ \A i \in OrderId :
              Unknown(i) /\ ~Unknown(i)' =>
                /\ Placing /\ ~Placing'
                /\ \A j \in OrderId \ {i} : Unknown(j) => Unknown(j)']_allVars

(* order_manager.py, of a record aborted although its entry had filled:    *)
(* the reconcile loop "will catch the drift and trip the kill switch".     *)
(* Nothing else is tracked, and the service is idle, when it looks.        *)
NakedPositionIsDrift ==
    [][/\ Verdict
       /\ pc = "idle" /\ net # 0 /\ Pending \cup Active = {}
       /\ \E i \in OrderId : pos[i].state = "ABORTED" /\ orders[i].filled = Qty
       => Drift(SavedTracker, check.open, net)]_allVars
=============================================================================
