------------------------------- MODULE MCTui -------------------------------
(***************************************************************************)
(* Tui on the smallest instance, tasks without dependencies, where the     *)
(* daemon answers every load: the board is never read from the files, and  *)
(* every change goes through the daemon.                                   *)
(***************************************************************************)
EXTENDS Tui

NoDeps == [t \in Tasks |-> <<>>]

LoadsAnswered == \A i \in DOMAIN queue' : queue'[i].kind # "daemonError"

MCSpec == TuiInit /\ [][TuiNext /\ LoadsAnswered]_tuiVars
=============================================================================
