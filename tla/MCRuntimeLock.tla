--------------------------- MODULE MCRuntimeLock ---------------------------
(* RuntimeLock on small instances.  Processes and inodes are model values; *)
(* every action treats the members of each set alike, so safety runs may   *)
(* identify states that differ by a permutation of either set.             *)
EXTENDS RuntimeLock, TLC

Symmetry == Permutations(Procs) \cup Permutations(Inodes)
=============================================================================
