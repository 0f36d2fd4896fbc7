---------------------------- MODULE MCTaskStore ----------------------------
(***************************************************************************)
(* TaskStore on small instances: every operation on two tasks, and a       *)
(* reader that looks for one task while operations work on it.  Both are   *)
(* checked in one run; `instance` says which one a behaviour is of.        *)
(*                                                                         *)
(* Titles are treated alike by every action, so states that differ by a    *)
(* permutation of them are identified.                                     *)
(***************************************************************************)
EXTENDS TaskStore, TLC

CONSTANT Watchable   \* the task the reader looks for

VARIABLE instance

Reading == INSTANCE TaskStore WITH Births <- {Watchable}, Watched <- {Watchable}, MaxDeps <- 0

MCInit == \/ instance = "operations" /\ Init
          \/ instance = "reader" /\ Reading!Init

MCNext == /\ UNCHANGED instance
          /\ \/ instance = "operations" /\ Next
             \/ instance = "reader" /\ Reading!Next

MCSpec == MCInit /\ [][MCNext]_<<vars, instance>>

Symmetry == Permutations(Slugs) \cup Permutations(Births)
=============================================================================
