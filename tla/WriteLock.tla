----------------------------- MODULE WriteLock -----------------------------
(***************************************************************************)
(* What a runtime lock promises its callers: at any moment at most one     *)
(* process is inside, and a process that leaves (by closing the lock or by *)
(* dying) lets the next one in.  RuntimeLock, the lock built from flock,   *)
(* inodes and metadata files, is shown to implement this.                  *)
(***************************************************************************)
CONSTANTS Procs,    \* the processes that may ask for the lock
          NoProc    \* "nobody"

VARIABLE holder     \* the process inside, or NoProc

Init == holder = NoProc

\* ProjectWriteLock.acquire() returned a held lock to p.
Enter(p) == holder = NoProc /\ holder' = p

\* p closed the lock, or the kernel released it when p died.
Leave(p) == holder = p /\ holder' = NoProc

Next == \E p \in Procs : Enter(p) \/ Leave(p)

Spec == Init /\ [][Next]_holder
=============================================================================
