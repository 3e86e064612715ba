-------------------------- MODULE MCShellSession --------------------------
(***************************************************************************)
(* One letter and the blank; the letter twice stands for `exit`.           *)
(***************************************************************************)
EXTENDS ShellSession

CONSTANTS letter, blank

TwoChars == {letter, blank}
ExitWord == <<letter, letter>>
=============================================================================
