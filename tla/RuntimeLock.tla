---------------------------- MODULE RuntimeLock ----------------------------
(***************************************************************************)
(* The cross-process lock of src/backlog_py/runtime/locks.py, for one key: *)
(* the lock file, the metadata file beside it, and the processes that      *)
(*   - acquire and close it           (_RuntimeFileLock, _HeldRuntimeLock) *)
(*   - prune it when it looks dead    (prune_stale_locks)                  *)
(*   - probe it for daemon status     (list_runtime_locks)                 *)
(*   - die at any step.                                                    *)
(*                                                                         *)
(* flock() locks an open INODE, not a name: pruning unlinks the name, so a *)
(* process can win the flock of an inode nobody will ever open again.      *)
(* Inode identities are recycled once no name and no handle refers to      *)
(* them, as the kernel recycles them.                                      *)
(*                                                                         *)
(* Abstractions.  The week-long age gate of pruning (and the "project      *)
(* directory is gone" exception to it) may pass or fail at any time, so    *)
(* nothing rests on clocks.  The (mtime_ns, inode) stamp of the metadata   *)
(* is the boolean "still the file I saw".  A restarted process is another  *)
(* member of Procs (it has another pid).  The acquire deadline is a flag   *)
(* that Expire raises.                                                     *)
(***************************************************************************)
CONSTANTS Procs,     \* processes; each is its own pid
          NoProc,    \* not a process
          Inodes,    \* inodes the lock file may occupy
          NoInode,   \* no inode: the name is free, or no handle is open
          NoMeta,    \* no metadata file
          Faults     \* BOOLEAN: may unlink() and metadata writes fail?

ASSUME NoProcAssumption  == NoProc \notin Procs
ASSUME NoInodeAssumption == NoInode \notin Inodes
ASSUME FaultsAssumption  == Faults \in BOOLEAN
ASSUME NoMetaAssumption  == NoMeta \notin [active : BOOLEAN, owner : Procs]

VARIABLES path,      \* inode the lock path names, or NoInode
          meta,      \* content of the metadata file, or NoMeta
          flock,     \* flock[i]: the process whose handle holds inode i's flock
          handle,    \* handle[p]: inode p has open, or NoInode
          pc,        \* pc[p]: where p is in the operation it runs
          expired,   \* expired[p]: the deadline of p's acquire has passed
          same       \* same[p]: the metadata file is still the one p stat'ed

vars == <<path, meta, flock, handle, pc, expired, same>>

Metadata == [active : BOOLEAN, owner : Procs]

\* Program points, by what the process has in its hands there.
Empty    == {"idle", "reopen", "pruneStat", "pruneExists", "bareStat",
             "bareUnlink", "pruneOpen", "probeOpen", "dead"}
Opened   == {"try", "pruneTry", "probeTry"}
Locked   == {"check", "pruneCheck", "pruneUnlock", "probeUnlock"}
Critical == {"write", "held", "failed", "closing"}
Pruning  == {"pruneStamp", "metaStat", "metaUnlink", "pathUnlink"}
PC       == Empty \cup Opened \cup Locked \cup Critical \cup Pruning

TypeOK ==
  /\ path \in Inodes \cup {NoInode}
  /\ meta \in Metadata \cup {NoMeta}
  /\ flock \in [Inodes -> Procs \cup {NoProc}]
  /\ handle \in [Procs -> Inodes \cup {NoInode}]
  /\ pc \in [Procs -> PC]
  /\ expired \in [Procs -> BOOLEAN]
  /\ same \in [Procs -> BOOLEAN]

Init ==
  /\ path = NoInode
  /\ meta = NoMeta
  /\ flock = [i \in Inodes |-> NoProc]
  /\ handle = [p \in Procs |-> NoInode]
  /\ pc = [p \in Procs |-> "idle"]
  /\ expired = [p \in Procs |-> FALSE]
  /\ same = [p \in Procs |-> FALSE]

-----------------------------------------------------------------------------
(* System calls. *)

Goto(p, from, to) == pc[p] = from /\ pc' = [pc EXCEPT ![p] = to]

\* open(lock_path, "a+"): the inode at the path, or a fresh one created there.
OpenLockFile(p) ==
  \E i \in Inodes :
    /\ IF path = NoInode THEN \A q \in Procs : handle[q] # i ELSE i = path
    /\ path' = i
    /\ handle' = [handle EXCEPT ![p] = i]

\* flock(LOCK_EX | LOCK_NB) succeeds.
TryLock(p) == /\ flock[handle[p]] = NoProc
              /\ flock' = [flock EXCEPT ![handle[p]] = p]

Blocked(p) == flock[handle[p]] # NoProc

\* close(handle): the kernel drops the flock of an open file that is closed,
\* by the program or by its death.
CloseHandle(p) ==
  /\ flock' = [i \in Inodes |-> IF flock[i] = p THEN NoProc ELSE flock[i]]
  /\ handle' = [handle EXCEPT ![p] = NoInode]

\* The path still names the inode p has open (_locked_handle_is_current).
HandleIsCurrent(p) == handle[p] = path

\* os.replace() of the metadata file, or its unlink: no stamp matches any more.
PutMeta(m) == /\ meta' = m
              /\ same' = [q \in Procs |-> FALSE]

\* _lock_owner_may_be_live: an active record whose pid answers the probe.
OwnerMayBeLive(m) == m.active /\ pc[m.owner] # "dead"

-----------------------------------------------------------------------------
(* acquire() and close(). *)

Acquire(p) ==
  /\ Goto(p, "idle", "try")
  /\ OpenLockFile(p)
  /\ expired' = [expired EXCEPT ![p] = FALSE]
  /\ UNCHANGED <<meta, flock, same>>

\* The clock passes p's deadline.
Expire(p) ==
  /\ pc[p] \in {"try", "check", "reopen"} /\ ~expired[p]
  /\ expired' = [expired EXCEPT ![p] = TRUE]
  /\ UNCHANGED <<path, meta, flock, handle, pc, same>>

\* MUTANT of AcquireTry: the record is written as soon as the flock is won.
AcquireTry_RecordsFirst(p) ==
  /\ Goto(p, "try", "check")
  /\ TryLock(p)
  /\ PutMeta([active |-> TRUE, owner |-> p])
  /\ UNCHANGED <<path, handle, expired>>

AcquireTry(p) ==
  /\ Goto(p, "try", "check")
  /\ TryLock(p)
  /\ UNCHANGED <<path, meta, handle, expired, same>>

\* Blocked past the deadline: LockTimeoutError.  Before it, p polls again.
AcquireTimeout(p) ==
  /\ Goto(p, "try", "idle")
  /\ Blocked(p) /\ expired[p]
  /\ CloseHandle(p)
  /\ UNCHANGED <<path, meta, expired, same>>

\* MUTANT of AcquireCurrent: the inode is not compared with the path's.
AcquireCurrent_Unchecked(p) ==
  /\ Goto(p, "check", "write")
  /\ UNCHANGED <<path, meta, flock, handle, expired, same>>

AcquireCurrent(p) ==
  /\ Goto(p, "check", "write")
  /\ HandleIsCurrent(p)
  /\ UNCHANGED <<path, meta, flock, handle, expired, same>>

\* MUTANT of AcquireStale: reopening is not bounded by the deadline.
AcquireStale_NoDeadline(p) ==
  /\ Goto(p, "check", "reopen")
  /\ ~HandleIsCurrent(p)
  /\ CloseHandle(p)
  /\ UNCHANGED <<path, meta, expired, same>>

\* The inode p locked is no longer at the path: drop it, then give up past
\* the deadline or open whatever lives at the path now.
AcquireStale(p) ==
  /\ Goto(p, "check", IF expired[p] THEN "idle" ELSE "reopen")
  /\ ~HandleIsCurrent(p)
  /\ CloseHandle(p)
  /\ UNCHANGED <<path, meta, expired, same>>

AcquireReopen(p) ==
  /\ Goto(p, "reopen", "try")
  /\ OpenLockFile(p)
  /\ UNCHANGED <<meta, flock, expired, same>>

WriteMetadata(p) ==
  /\ Goto(p, "write", "held")
  /\ PutMeta([active |-> TRUE, owner |-> p])
  /\ UNCHANGED <<path, flock, handle, expired>>

\* The metadata cannot be written: acquire() closes the lock and raises.
WriteMetadataFails(p) ==
  /\ Faults
  /\ Goto(p, "write", "failed")
  /\ UNCHANGED <<path, meta, flock, handle, expired, same>>

\* close(), first half: rewrite the record as released; an unreadable record
\* or a failing write is ignored.
WriteReleasedMetadata(p) ==
  /\ Goto(p, "held", "closing") \/ Goto(p, "failed", "closing")
  /\ \/ meta # NoMeta /\ PutMeta([meta EXCEPT !.active = FALSE])
     \/ (meta = NoMeta \/ Faults) /\ UNCHANGED <<meta, same>>
  /\ UNCHANGED <<path, flock, handle, expired>>

\* close(), second half: unlock and close the handle.
Close(p) ==
  /\ Goto(p, "closing", "idle")
  /\ CloseHandle(p)
  /\ UNCHANGED <<path, meta, expired, same>>

-----------------------------------------------------------------------------
(* prune_stale_locks() and _remove_dead_lock(). *)

PruneRead(p) ==
  /\ Goto(p, "idle", "pruneStat")
  /\ meta # NoMeta /\ ~OwnerMayBeLive(meta)
  /\ UNCHANGED <<path, meta, flock, handle, expired, same>>

\* stat() the metadata; the age gate may keep the pair.
PruneStat(p) ==
  /\ \/ Goto(p, "pruneStat", "pruneExists") /\ meta # NoMeta
        /\ same' = [same EXCEPT ![p] = TRUE]
     \/ Goto(p, "pruneStat", "idle") /\ UNCHANGED same
  /\ UNCHANGED <<path, meta, flock, handle, expired>>

PruneExists(p) ==
  /\ Goto(p, "pruneExists", IF path = NoInode THEN "bareStat" ELSE "pruneOpen")
  /\ UNCHANGED <<path, meta, flock, handle, expired, same>>

\* No lock file: unlink the metadata if unchanged, holding nothing.
BareStat(p) ==
  /\ Goto(p, "bareStat", IF same[p] THEN "bareUnlink" ELSE "idle")
  /\ UNCHANGED <<path, meta, flock, handle, expired, same>>

BareUnlink(p) ==
  /\ Goto(p, "bareUnlink", "idle")
  /\ PutMeta(NoMeta) \/ (Faults /\ UNCHANGED <<meta, same>>)
  /\ UNCHANGED <<path, flock, handle, expired>>

PruneOpen(p) ==
  /\ Goto(p, "pruneOpen", "pruneTry")
  /\ OpenLockFile(p)
  /\ UNCHANGED <<meta, flock, expired, same>>

\* MUTANT of PruneTry: the pair is removed without holding its flock.
PruneTry_NoFlock(p) ==
  /\ Goto(p, "pruneTry", "pruneCheck")
  /\ UNCHANGED <<path, meta, flock, handle, expired, same>>

PruneTry(p) ==
  /\ Goto(p, "pruneTry", "pruneCheck")
  /\ TryLock(p)
  /\ UNCHANGED <<path, meta, handle, expired, same>>

\* Held by somebody: leave it strictly alone.
PruneBlocked(p) ==
  /\ Goto(p, "pruneTry", "idle")
  /\ Blocked(p)
  /\ CloseHandle(p)
  /\ UNCHANGED <<path, meta, expired, same>>

PruneCheck(p) ==
  /\ Goto(p, "pruneCheck", IF HandleIsCurrent(p) THEN "pruneStamp" ELSE "pruneUnlock")
  /\ UNCHANGED <<path, meta, flock, handle, expired, same>>

\* Somebody used the lock since p read its metadata: keep it.
PruneStamp(p) ==
  /\ Goto(p, "pruneStamp", IF same[p] THEN "metaStat" ELSE "pruneUnlock")
  /\ UNCHANGED <<path, meta, flock, handle, expired, same>>

\* _unlink_if_unchanged(metadata_path): stat, then unlink.
MetaStat(p) ==
  /\ Goto(p, "metaStat", IF same[p] THEN "metaUnlink" ELSE "pathUnlink")
  /\ UNCHANGED <<path, meta, flock, handle, expired, same>>

MetaUnlink(p) ==
  /\ Goto(p, "metaUnlink", "pathUnlink")
  /\ PutMeta(NoMeta) \/ (Faults /\ UNCHANGED <<meta, same>>)
  /\ UNCHANGED <<path, flock, handle, expired>>

\* _unlink_path(lock_path): frees the name; open handles keep the inode.
PathUnlink(p) ==
  /\ Goto(p, "pathUnlink", "pruneUnlock")
  /\ path' = NoInode \/ (Faults /\ UNCHANGED path)
  /\ UNCHANGED <<meta, flock, handle, expired, same>>

PruneUnlock(p) ==
  /\ Goto(p, "pruneUnlock", "idle")
  /\ CloseHandle(p)
  /\ UNCHANGED <<path, meta, expired, same>>

-----------------------------------------------------------------------------
(* list_runtime_locks(): the status probe takes the flock for an instant.  *)

ProbeRead(p) ==
  /\ Goto(p, "idle", "probeOpen")
  /\ meta # NoMeta /\ meta.active /\ meta.owner # p
  /\ UNCHANGED <<path, meta, flock, handle, expired, same>>

ProbeOpen(p) ==
  /\ Goto(p, "probeOpen", "probeTry")
  /\ OpenLockFile(p)
  /\ UNCHANGED <<meta, flock, expired, same>>

ProbeTry(p) ==
  /\ Goto(p, "probeTry", "probeUnlock")
  /\ TryLock(p)
  /\ UNCHANGED <<path, meta, handle, expired, same>>

\* The flock is taken: the lock is reported active.
ProbeBlocked(p) ==
  /\ Goto(p, "probeTry", "idle")
  /\ Blocked(p)
  /\ CloseHandle(p)
  /\ UNCHANGED <<path, meta, expired, same>>

ProbeUnlock(p) ==
  /\ Goto(p, "probeUnlock", "idle")
  /\ CloseHandle(p)
  /\ UNCHANGED <<path, meta, expired, same>>

-----------------------------------------------------------------------------
\* p is killed: its handle closes, its pid stops answering.
Crash(p) ==
  /\ pc[p] # "dead"
  /\ pc' = [pc EXCEPT ![p] = "dead"]
  /\ CloseHandle(p)
  /\ UNCHANGED <<path, meta, expired, same>>

AcquireSteps(p) ==
  \/ AcquireTry(p) \/ AcquireTimeout(p) \/ AcquireCurrent(p)
  \/ AcquireStale(p) \/ AcquireReopen(p)
  \/ WriteMetadata(p) \/ WriteMetadataFails(p)

CloseSteps(p) == WriteReleasedMetadata(p) \/ Close(p)

PruneSteps(p) ==
  \/ PruneStat(p) \/ PruneExists(p) \/ BareStat(p) \/ BareUnlink(p)
  \/ PruneOpen(p) \/ PruneTry(p) \/ PruneBlocked(p) \/ PruneCheck(p)
  \/ PruneStamp(p) \/ MetaStat(p) \/ MetaUnlink(p) \/ PathUnlink(p)
  \/ PruneUnlock(p)

ProbeSteps(p) == \/ ProbeOpen(p) \/ ProbeTry(p)
                 \/ ProbeBlocked(p) \/ ProbeUnlock(p)

Next == \E p \in Procs :
  \/ Acquire(p) \/ Expire(p) \/ AcquireSteps(p) \/ CloseSteps(p)
  \/ PruneRead(p) \/ PruneSteps(p) \/ ProbeRead(p) \/ ProbeSteps(p)
  \/ Crash(p)

Spec == Init /\ [][Next]_vars

\* Nobody has to start an operation, but a live process takes the next step
\* of the one it is in, and clocks advance.
Fairness == \A p \in Procs :
  /\ WF_vars(AcquireSteps(p)) /\ WF_vars(Expire(p))
  /\ WF_vars(CloseSteps(p)) /\ WF_vars(PruneSteps(p)) /\ WF_vars(ProbeSteps(p))

FairSpec == Spec /\ Fairness

-----------------------------------------------------------------------------
(* Properties. *)

\* At most one process is between a successful acquire() and its unlock,
\* whatever pruners unlink and whoever dies (locks.py:123-161, 201-210).
MutualExclusion ==
  \A p, q \in Procs : pc[p] \in Critical /\ pc[q] \in Critical => p = q

\* The lock a process is inside of is the one at the path: nobody prunes a
\* lock file out from under its holder, so the next acquirer meets this inode
\* and not a fresh one (locks.py:140-153, 340-356).
HolderIsAtPath ==
  \A p \in Procs : pc[p] \in Critical => path # NoInode /\ flock[path] = p

\* Pruning keeps every record of a live owner ("active metadata whose pid is
\* alive is always kept", locks.py:234-235).
PruneKeepsLiveRecords ==
  [][meta # NoMeta /\ meta' = NoMeta => ~OwnerMayBeLive(meta)]_vars

\* A process inside the lock is the one the metadata names, so status and
\* timeouts can tell who holds it (locks.py:163-173).
HolderIsRecorded ==
  \A p \in Procs : pc[p] = "held" => meta = [active |-> TRUE, owner |-> p]

\* Pruning never unlinks the record of the process inside the lock.
PruneKeepsHolderRecord ==
  [][meta # NoMeta /\ meta' = NoMeta => pc[meta.owner] # "held"]_vars

\* acquire() always returns or raises: polling, revalidation and reopening
\* are all bounded by the deadline (locks.py:128-153).
AcquireEnds ==
  \A p \in Procs : pc[p] = "try" ~> pc[p] \in {"held", "idle", "dead"}

\* The lock of files and flocks implements the abstract lock.
Holder == IF \E p \in Procs : pc[p] \in Critical
          THEN CHOOSE p \in Procs : pc[p] \in Critical
          ELSE NoProc

Abstract == INSTANCE WriteLock WITH holder <- Holder

ImplementsWriteLock == Abstract!Spec
=============================================================================
