---------------------------- MODULE MCAppRuntime ----------------------------
(***************************************************************************)
(* Instances of AppRuntime: one app that arrives as a signed bundle, and   *)
(* one built-in app.                                                       *)
(***************************************************************************)
EXTENDS AppRuntime, TLC

CONSTANTS diag, blinker, h1, h2

OneName == {diag}
OneBuiltin == <<diag>>
OneSigned == {blinker}
NoBuiltin == << >>
ShortTimeout == [a \in Names |-> 1]
TwoHandles == {h1, h2}

=============================================================================
