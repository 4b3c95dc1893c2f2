---------------------------- MODULE MCKillSwitch ----------------------------
(* Model-checking instance of KillSwitch. *)
EXTENDS KillSwitch

WinOrLose == {-1, 1}
NoScripts == {}
AllScripts == {"reset", "reconcile"}
=============================================================================
