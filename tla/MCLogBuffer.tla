---------------------------- MODULE MCLogBuffer ----------------------------
(***************************************************************************)
(* Three tasks that log and a ring of two slots, so that the ring wraps    *)
(* while several tasks are past the unlocked test.                         *)
(***************************************************************************)
EXTENDS LogBuffer

CONSTANTS shell, app, wifi, m1, m2

ThreeTasks == {shell, app, wifi}
TwoTasks == {shell, app}
OneApp == {app}
TwoMessages == {m1, m2}
=============================================================================
