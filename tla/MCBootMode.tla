---- MODULE MCBootMode ----
(***************************************************************************)
(* Instances of BootMode for TLC: every command line, three turns of the   *)
(* loop instead of thirty.                                                 *)
(***************************************************************************)
EXTENDS BootMode

AllCmdlines == {None, "disk", "local", "live", "install", "shell", "typo"}
AllFallbacks == {None, "install", "live"}
====
