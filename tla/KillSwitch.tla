----------------------------- MODULE KillSwitch -----------------------------
(***************************************************************************)
(* smc_engine/execution/kill_switch.py as its processes share it.  The     *)
(* trading service keeps a KillSwitch in memory, loaded from               *)
(* kill_switch_state.json when it starts and written back after every      *)
(* mutation.  An operator's script (scripts/kill_switch_reset.py or        *)
(* scripts/reconcile_check.py) is another process with a copy of its own,  *)
(* loaded and written the same way.                                        *)
(*                                                                         *)
(* _save_state writes a temporary file and renames it, so the file changes *)
(* in one step: Save.  Until then a mutation is in memory only, and a      *)
(* crash or a failed write loses or leaves it there.  Money is counted in  *)
(* whole units; triggered_at and the texts of the reasons are left out,    *)
(* the kind of each reason is kept.                                        *)
(***************************************************************************)
EXTENDS Integers

CONSTANTS
    LossLimit,     \* consecutive_loss_threshold
    DailyLimit,    \* daily_loss_threshold
    Results,       \* the PnLs a trade may close with
    MaxStreak,     \* bound on consecutive losses
    MaxPnl,        \* bound on |daily_pnl|
    Scripts        \* what the operator may run, a subset of {"reset", "reconcile"}

ASSUME ThresholdAssumption == LossLimit \in Nat \ {0} /\ DailyLimit \in Nat \ {0}
ASSUME BoundsAssumption == MaxStreak \in Nat /\ MaxPnl \in Nat
ASSUME InputsAssumption == Results \subseteq Int /\ Scripts \subseteq {"reset", "reconcile"}

VARIABLES
    file,      \* kill_switch_state.json, or NoFile
    service,   \* the service's process
    script     \* the operator's process

vars == <<file, service, script>>

Reason == {"consecutive_losses", "daily_pnl", "equity", "external"}

(* KillSwitchState, and the one a missing file stands for.                 *)
State == [losses : Nat, daily : Int, triggered : BOOLEAN, reasons : SUBSET Reason]

Fresh == [losses |-> 0, daily |-> 0, triggered |-> FALSE, reasons |-> {}]

NoFile == [none |-> TRUE]

(* A process: "down", "up", or with a mutation it has still to save.       *)
Process == [pc : {"down", "up", "saving"}, mem : State]

Down == [pc |-> "down", mem |-> Fresh]

(* Mutant: a file that is not there is read all the same.                  *)
LoadRaw == file

Load == IF file = NoFile THEN Fresh ELSE file

(* Mutant: a restart begins with a clean state.                            *)
StartFresh == [pc |-> "up", mem |-> Fresh]

Start == [pc |-> "up", mem |-> Load]

Saving(state) == [pc |-> "saving", mem |-> state]

Fired(state, reasons) == [state EXCEPT !.triggered = TRUE, !.reasons = reasons]

-----------------------------------------------------------------------------
(* check_after_trade: count the trade, then the three metrics              *)

CountTrade(state, pnl) ==
    [state EXCEPT !.losses = IF pnl < 0 THEN @ + 1 ELSE 0, !.daily = @ + pnl]

(* Mutant: the limits themselves are still allowed.                        *)
BreachesBeyond(state, equityLow) ==
    {r \in Reason : \/ r = "consecutive_losses" /\ state.losses > LossLimit
                    \/ r = "daily_pnl" /\ state.daily < -DailyLimit
                    \/ r = "equity" /\ equityLow}

Breaches(state, equityLow) ==
    {r \in Reason : \/ r = "consecutive_losses" /\ state.losses >= LossLimit
                    \/ r = "daily_pnl" /\ state.daily <= -DailyLimit
                    \/ r = "equity" /\ equityLow}

AfterTrade(state, pnl, equityLow) ==
    LET counted  == CountTrade(state, pnl)
        breaches == Breaches(counted, equityLow)
    IN IF breaches # {} /\ ~counted.triggered THEN Fired(counted, breaches) ELSE counted

InBounds(state) == state.losses <= MaxStreak /\ state.daily \in -MaxPnl..MaxPnl

CheckAfterTrade ==
    /\ service.pc = "up"
    /\ \E pnl \in Results : \E equityLow \in BOOLEAN :
        service' = Saving(AfterTrade(service.mem, pnl, equityLow))
    /\ InBounds(service'.mem)
    /\ UNCHANGED <<file, script>>

(* OrderManager, on an error that carries kill_switch_signal.              *)
TriggerExternal ==
    /\ service.pc = "up"
    /\ service' = Saving(Fired(service.mem, {"external"}))
    /\ UNCHANGED <<file, script>>

Save ==
    /\ service.pc = "saving"
    /\ file' = service.mem
    /\ service' = [service EXCEPT !.pc = "up"]
    /\ UNCHANGED <<script>>

(* The write raises; the tick's handler logs it and memory stays ahead.    *)
SaveFails ==
    /\ service.pc = "saving"
    /\ service' = [service EXCEPT !.pc = "up"]
    /\ UNCHANGED <<file, script>>

StartService ==
    /\ service.pc = "down"
    /\ service' = Start
    /\ UNCHANGED <<file, script>>

StopService ==            \* a crash, a deploy, systemctl restart
    /\ service.pc # "down"
    /\ service' = Down
    /\ UNCHANGED <<file, script>>

-----------------------------------------------------------------------------
(* The operator's scripts                                                  *)

StartScript ==
    /\ Scripts # {} /\ script.pc = "down"
    /\ script' = Start
    /\ UNCHANGED <<file, service>>

(* reset() replaces the whole state; a drift fires the switch.             *)
RunScript ==
    /\ script.pc = "up"
    /\ \/ "reset" \in Scripts /\ script' = Saving(Fresh)
       \/ "reconcile" \in Scripts /\ script' = Saving(Fired(script.mem, {"external"}))
       \/ script' = Down                                  \* answered no, or no drift
    /\ UNCHANGED <<file, service>>

EndScript ==
    /\ script.pc = "saving"
    /\ file' = script.mem
    /\ script' = Down
    /\ UNCHANGED service

-----------------------------------------------------------------------------
Init == file = NoFile /\ service = Down /\ script = Down

Service == CheckAfterTrade \/ TriggerExternal \/ Save \/ SaveFails \/ StartService \/ StopService

Script == StartScript \/ RunScript \/ EndScript

Next == Service \/ Script

Spec == Init /\ [][Next]_vars

-----------------------------------------------------------------------------
(* Properties *)

(* Every variable keeps its type.                                          *)
TypeOK ==
    /\ file \in State \cup {NoFile}
    /\ service \in Process /\ script \in Process

Consistent(state) ==
    /\ state.losses >= LossLimit \/ state.daily <= -DailyLimit => state.triggered
    /\ state.triggered <=> state.reasons # {}

(* Through any sequence of trades, triggers, resets, crashes, failed       *)
(* writes and overwritten files, a state in memory or on disk whose        *)
(* counters have reached a limit is triggered, and it is triggered exactly *)
(* when it says why (check_after_trade, _fire, reset).                     *)
LimitsTrip ==
    /\ file # NoFile => Consistent(file)
    /\ Consistent(service.mem) /\ Consistent(script.mem)

(* A trip that is on disk and known to every running process survives      *)
(* crashes, restarts, failed writes and whole-file overwrites until the    *)
(* operator answers yes to a reset (_load_state, _save_state, reset).      *)
Known ==
    Load.triggered /\ \A p \in {service, script} : p.pc # "down" => p.mem.triggered

TripPersists == [][Known => Known' \/ script' = Saving(Fresh)]_vars
=============================================================================
