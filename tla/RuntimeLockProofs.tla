------------------------- MODULE RuntimeLockProofs -------------------------
(***************************************************************************)
(* For every set of processes and of inodes, and with or without failing   *)
(* unlinks and writes: the runtime lock is type correct, excludes, keeps   *)
(* the lock file of its holder in place, and implements the abstract lock. *)
(*                                                                         *)
(* HolderIsAtPath is not inductive: that a pruner removes nobody's lock    *)
(* file rests on the pruner owning the flock of the inode at the path,     *)
(* which rests on flocks following open handles.  Ownership says so.       *)
(*                                                                         *)
(* HolderIsRecorded and PruneKeepsLiveRecords rest on RecordInv: a record  *)
(* whose owner may be live is the holder's, and there is no record without *)
(* a lock file, so that the branch that unlinks a record without its lock  *)
(* is never reached.  A failing unlink or write breaks that, and both      *)
(* properties with it: they are proved where nothing fails.                *)
(***************************************************************************)
EXTENDS RuntimeLock, TLAPS

\* Program points at which a process owns a flock.
Owning == Locked \cup Critical \cup Pruning

\* A flock belongs to the process that has its inode open at a point where
\* it owns one, and there the process does have an inode open.
FlockFollowsHandle ==
  /\ \A p \in Procs : pc[p] \in Owning => handle[p] \in Inodes /\ flock[handle[p]] = p
  /\ \A i \in Inodes, p \in Procs : flock[i] = p => handle[p] = i /\ pc[p] \in Owning

OpenedHasHandle ==
  \A p \in Procs : pc[p] \in Opened => handle[p] \in Inodes

\* Past its currency check, a process's inode stays the one at the path.
CheckedStaysCurrent ==
  \A p \in Procs : pc[p] \in Critical \cup Pruning => handle[p] = path

IInv == TypeOK /\ FlockFollowsHandle /\ OpenedHasHandle /\ CheckedStaysCurrent

-----------------------------------------------------------------------------

LEMMA InitIInv == Init => IInv
  BY NoInodeAssumption, NoProcAssumption
     DEF Init, IInv, TypeOK, FlockFollowsHandle, OpenedHasHandle,
         CheckedStaysCurrent, Owning, Locked, Critical, Pruning, Opened, PC, Empty

\* A step that moves p between points of the same kind and touches no file.
LEMMA MoveIInv ==
  ASSUME IInv, NEW p \in Procs, NEW to \in PC,
         pc' = [pc EXCEPT ![p] = to],
         pc[p] \in Owning <=> to \in Owning,
         to \in Opened => pc[p] \in Opened,
         to \in Critical \cup Pruning => handle[p] = path,
         UNCHANGED <<path, flock, handle>>,
         meta' \in Metadata \cup {NoMeta},
         expired' \in [Procs -> BOOLEAN], same' \in [Procs -> BOOLEAN]
  PROVE  IInv'
  BY DEF IInv, TypeOK, FlockFollowsHandle, OpenedHasHandle, CheckedStaysCurrent

\* p opens the lock file.
LEMMA OpenIInv ==
  ASSUME IInv, NEW p \in Procs, NEW to \in Opened,
         pc[p] \notin Owning, OpenLockFile(p),
         pc' = [pc EXCEPT ![p] = to],
         UNCHANGED <<meta, flock, same>>, expired' \in [Procs -> BOOLEAN]
  PROVE  IInv'
  <1>. PICK i \in Inodes :
         /\ IF path = NoInode THEN \A q \in Procs : handle[q] # i ELSE i = path
         /\ path' = i
         /\ handle' = [handle EXCEPT ![p] = i]
    BY DEF OpenLockFile
  <1>. to \in PC /\ to \notin Owning
    BY DEF PC, Opened, Owning, Locked, Critical, Pruning
  <1>1. TypeOK'
    BY DEF IInv, TypeOK
  <1>2. FlockFollowsHandle' /\ OpenedHasHandle'
    BY DEF IInv, TypeOK, FlockFollowsHandle, OpenedHasHandle
  <1>3. CheckedStaysCurrent'
    <2>. SUFFICES ASSUME NEW q \in Procs, pc'[q] \in Critical \cup Pruning
                  PROVE  handle'[q] = path'
      BY DEF CheckedStaysCurrent
    <2>1. q # p /\ pc[q] \in Critical \cup Pruning /\ handle'[q] = handle[q]
      BY DEF IInv, TypeOK, Owning
    <2>2. handle[q] = path /\ handle[q] \in Inodes
      BY <2>1 DEF IInv, CheckedStaysCurrent, FlockFollowsHandle, Owning
    <2>. QED
      BY <2>1, <2>2, NoInodeAssumption
  <1>. QED
    BY <1>1, <1>2, <1>3 DEF IInv

\* p wins the flock of the inode it has open.
LEMMA TryIInv ==
  ASSUME IInv, NEW p \in Procs, NEW to \in Locked,
         pc[p] \in Opened, TryLock(p),
         pc' = [pc EXCEPT ![p] = to],
         UNCHANGED <<path, meta, handle, expired, same>>
  PROVE  IInv'
  <1>. /\ to \in PC /\ to \in Owning
       /\ to \notin Opened /\ to \notin Critical \cup Pruning
       /\ pc[p] \notin Owning
    BY DEF PC, Opened, Owning, Locked, Critical, Pruning
  <1>. handle[p] \in Inodes /\ flock[handle[p]] = NoProc
    BY DEF IInv, OpenedHasHandle, TryLock
  <1>1. TypeOK'
    BY DEF IInv, TypeOK, TryLock
  <1>2. FlockFollowsHandle'
    BY NoProcAssumption DEF IInv, TypeOK, FlockFollowsHandle, TryLock
  <1>3. OpenedHasHandle' /\ CheckedStaysCurrent'
    BY DEF IInv, TypeOK, OpenedHasHandle, CheckedStaysCurrent
  <1>. QED
    BY <1>1, <1>2, <1>3 DEF IInv

\* p closes its handle, or dies.
LEMMA CloseIInv ==
  ASSUME IInv, NEW p \in Procs, NEW to \in Empty,
         CloseHandle(p), pc' = [pc EXCEPT ![p] = to],
         UNCHANGED <<path, meta, expired, same>>
  PROVE  IInv'
  <1>. to \in PC /\ to \notin Owning /\ to \notin Opened
    BY DEF PC, Empty, Opened, Owning, Locked, Critical, Pruning
  <1>1. TypeOK'
    BY DEF IInv, TypeOK, CloseHandle
  <1>2. FlockFollowsHandle'
    BY NoProcAssumption DEF IInv, TypeOK, FlockFollowsHandle, CloseHandle
  <1>3. OpenedHasHandle' /\ CheckedStaysCurrent'
    BY DEF IInv, TypeOK, OpenedHasHandle, CheckedStaysCurrent, CloseHandle, Owning
  <1>. QED
    BY <1>1, <1>2, <1>3 DEF IInv

\* A pruner past its checks unlinks the path: nobody else was past them.
LEMMA UnlinkIInv ==
  ASSUME IInv, NEW p \in Procs, PathUnlink(p)
  PROVE  IInv'
  <1>. /\ pc[p] = "pathUnlink" /\ pc' = [pc EXCEPT ![p] = "pruneUnlock"]
       /\ path' \in {path, NoInode} /\ UNCHANGED <<meta, flock, handle, expired, same>>
    BY DEF PathUnlink, Goto
  <1>. /\ "pathUnlink" \in Owning /\ "pathUnlink" \in Pruning
       /\ "pruneUnlock" \in Owning /\ "pruneUnlock" \in PC
       /\ "pruneUnlock" \notin Opened /\ "pruneUnlock" \notin Critical \cup Pruning
    BY DEF PC, Opened, Owning, Locked, Critical, Pruning
  <1>1. TypeOK' /\ FlockFollowsHandle' /\ OpenedHasHandle'
    BY DEF IInv, TypeOK, FlockFollowsHandle, OpenedHasHandle
  <1>2. \A q \in Procs : q # p => pc[q] \notin Critical \cup Pruning
    BY DEF IInv, FlockFollowsHandle, CheckedStaysCurrent, Owning
  <1>3. CheckedStaysCurrent'
    BY <1>2 DEF IInv, TypeOK, CheckedStaysCurrent
  <1>. QED
    BY <1>1, <1>3 DEF IInv

-----------------------------------------------------------------------------

LEMMA StepIInv == IInv /\ [Next]_vars => IInv'
  <1>. SUFFICES ASSUME IInv, [Next]_vars PROVE IInv'
    OBVIOUS
  <1>. USE DEF Goto
  <1>u. CASE UNCHANGED vars
    BY <1>u DEF vars, IInv, TypeOK, FlockFollowsHandle, OpenedHasHandle, CheckedStaysCurrent
  <1>n. ASSUME NEW p \in Procs,
               \/ Acquire(p) \/ Expire(p) \/ AcquireSteps(p) \/ CloseSteps(p)
               \/ PruneRead(p) \/ PruneSteps(p) \/ ProbeRead(p) \/ ProbeSteps(p)
               \/ Crash(p)
        PROVE  IInv'
    <2>t. /\ meta \in Metadata \cup {NoMeta} /\ expired \in [Procs -> BOOLEAN]
          /\ same \in [Procs -> BOOLEAN] /\ pc \in [Procs -> PC]
      BY DEF IInv, TypeOK
    <2>p. \A m \in Metadata \cup {NoMeta} :
            PutMeta(m) => meta' \in Metadata \cup {NoMeta} /\ same' \in [Procs -> BOOLEAN]
      BY DEF PutMeta
    <2>s. PC = Empty \cup Opened \cup Owning
      BY DEF PC, Owning
    <2>k. /\ "try" \in Opened /\ "pruneTry" \in Opened /\ "probeTry" \in Opened
          /\ "check" \in Locked /\ "pruneCheck" \in Locked /\ "probeUnlock" \in Locked
          /\ {"idle", "dead", "reopen"} \subseteq Empty
          /\ \A x \in Empty : x \notin Owning /\ x \notin Opened
      BY DEF Empty, Opened, Locked, Owning, Critical, Pruning
    <2>1. CASE Acquire(p) \/ AcquireReopen(p) \/ PruneOpen(p) \/ ProbeOpen(p)
      <3>1. OpenLockFile(p) /\ pc[p] \in {"idle", "reopen", "pruneOpen", "probeOpen"}
        BY <2>1 DEF Acquire, AcquireReopen, PruneOpen, ProbeOpen
      <3>2. \E to \in {"try", "pruneTry", "probeTry"} : pc' = [pc EXCEPT ![p] = to]
        BY <2>1 DEF Acquire, AcquireReopen, PruneOpen, ProbeOpen
      <3>3. UNCHANGED <<meta, flock, same>> /\ expired' \in [Procs -> BOOLEAN]
        BY <2>1, <2>t DEF Acquire, AcquireReopen, PruneOpen, ProbeOpen
      <3>4. pc[p] \notin Owning
        BY <3>1, <2>k DEF Empty
      <3>. QED
        BY <3>1, <3>2, <3>3, <3>4, <2>k, OpenIInv
    <2>2. CASE AcquireTry(p) \/ PruneTry(p) \/ ProbeTry(p)
      <3>1. TryLock(p) /\ pc[p] \in {"try", "pruneTry", "probeTry"}
        BY <2>2 DEF AcquireTry, PruneTry, ProbeTry
      <3>2. \E to \in {"check", "pruneCheck", "probeUnlock"} : pc' = [pc EXCEPT ![p] = to]
        BY <2>2 DEF AcquireTry, PruneTry, ProbeTry
      <3>3. UNCHANGED <<path, meta, handle, expired, same>>
        BY <2>2 DEF AcquireTry, PruneTry, ProbeTry
      <3>. QED
        BY <3>1, <3>2, <3>3, <2>k, TryIInv
    <2>3. CASE \/ AcquireTimeout(p) \/ AcquireStale(p) \/ Close(p) \/ PruneBlocked(p)
               \/ PruneUnlock(p) \/ ProbeBlocked(p) \/ ProbeUnlock(p) \/ Crash(p)
      <3>1. CloseHandle(p) /\ UNCHANGED <<path, meta, expired, same>>
        BY <2>3 DEF AcquireTimeout, AcquireStale, Close, PruneBlocked,
                    PruneUnlock, ProbeBlocked, ProbeUnlock, Crash
      <3>2. \E to \in {"idle", "dead", "reopen"} : pc' = [pc EXCEPT ![p] = to]
        BY <2>3 DEF AcquireTimeout, AcquireStale, Close, PruneBlocked,
                    PruneUnlock, ProbeBlocked, ProbeUnlock, Crash
      <3>. QED
        BY <3>1, <3>2, <2>k, CloseIInv
    <2>4. CASE PathUnlink(p)
      BY <2>4, UnlinkIInv
    <2>5. CASE Expire(p)
      <3>1. expired' \in [Procs -> BOOLEAN]
        BY <2>5, <2>t DEF Expire
      <3>. QED
        BY <2>5, <3>1 DEF Expire, IInv, TypeOK, FlockFollowsHandle, OpenedHasHandle,
                          CheckedStaysCurrent
    <2>6. CASE PruneRead(p) \/ PruneStat(p) \/ PruneExists(p) \/ BareStat(p)
               \/ BareUnlink(p) \/ ProbeRead(p)
      <3>1. pc[p] \in Empty
        BY <2>6 DEF PruneRead, PruneStat, PruneExists, BareStat, BareUnlink, ProbeRead, Empty
      <3>2. \E to \in Empty : pc' = [pc EXCEPT ![p] = to]
        BY <2>6 DEF PruneRead, PruneStat, PruneExists, BareStat, BareUnlink, ProbeRead, Empty
      <3>3. UNCHANGED <<path, flock, handle, expired>>
        BY <2>6 DEF PruneRead, PruneStat, PruneExists, BareStat, BareUnlink, ProbeRead
      <3>4. meta' \in Metadata \cup {NoMeta} /\ same' \in [Procs -> BOOLEAN]
        BY <2>6, <2>t, <2>p DEF PruneRead, PruneStat, PruneExists, BareStat, BareUnlink, ProbeRead
      <3>5. \A to \in Empty : to \in PC /\ to \notin Critical \cup Pruning
        BY <2>s, <2>k DEF Owning
      <3>. QED
        BY <3>1, <3>2, <3>3, <3>4, <3>5, <2>k, <2>t, MoveIInv
    <2>7. CASE AcquireCurrent(p) \/ PruneCheck(p)
      <3>1. pc[p] \in Locked /\ UNCHANGED <<path, meta, flock, handle, expired, same>>
        BY <2>7 DEF AcquireCurrent, PruneCheck, Locked
      <3>2. \E to \in {"write", "pruneStamp", "pruneUnlock"} :
              pc' = [pc EXCEPT ![p] = to] /\ (to # "pruneUnlock" => handle[p] = path)
        BY <2>7 DEF AcquireCurrent, PruneCheck, HandleIsCurrent
      <3>3. /\ \A to \in {"write", "pruneStamp", "pruneUnlock"} :
                 to \in PC /\ to \in Owning /\ to \notin Opened
            /\ "pruneUnlock" \notin Critical \cup Pruning
        BY DEF PC, Owning, Locked, Critical, Pruning, Opened
      <3>. QED
        BY <3>1, <3>2, <3>3, <2>t, MoveIInv DEF Owning
    <2>8. CASE WriteMetadata(p) \/ WriteMetadataFails(p) \/ WriteReleasedMetadata(p)
               \/ PruneStamp(p) \/ MetaStat(p) \/ MetaUnlink(p)
      <3>1. pc[p] \in Critical \cup Pruning /\ UNCHANGED <<path, flock, handle, expired>>
        BY <2>8 DEF WriteMetadata, WriteMetadataFails, WriteReleasedMetadata,
                    PruneStamp, MetaStat, MetaUnlink, Critical, Pruning
      <3>2. \E to \in Critical \cup Pruning \cup {"pruneUnlock"} : pc' = [pc EXCEPT ![p] = to]
        BY <2>8 DEF WriteMetadata, WriteMetadataFails, WriteReleasedMetadata,
                    PruneStamp, MetaStat, MetaUnlink, Critical, Pruning
      <3>3. handle[p] = path
        BY <3>1 DEF IInv, CheckedStaysCurrent
      <3>4. meta' \in Metadata \cup {NoMeta} /\ same' \in [Procs -> BOOLEAN]
        <4>1. [active |-> TRUE, owner |-> p] \in Metadata
          BY DEF Metadata
        <4>2. meta # NoMeta => [meta EXCEPT !.active = FALSE] \in Metadata
          BY <2>t DEF Metadata
        <4>. QED
          BY <2>8, <2>t, <2>p, <4>1, <4>2
             DEF WriteMetadata, WriteMetadataFails, WriteReleasedMetadata,
                 PruneStamp, MetaStat, MetaUnlink
      <3>5. \A to \in Critical \cup Pruning \cup {"pruneUnlock"} :
              to \in PC /\ to \in Owning /\ to \notin Opened
        BY DEF PC, Owning, Locked, Critical, Pruning, Opened
      <3>. QED
        BY <3>1, <3>2, <3>3, <3>4, <3>5, <2>t, MoveIInv DEF Owning
    <2>. QED
      BY <1>n, <2>1, <2>2, <2>3, <2>4, <2>5, <2>6, <2>7, <2>8
         DEF AcquireSteps, CloseSteps, PruneSteps, ProbeSteps
  <1>. QED
    BY <1>u, <1>n DEF Next

\* The invariant the theorems below read off.
THEOREM Invariance == Spec => []IInv
  BY InitIInv, StepIInv, PTL DEF Spec

\* The lock's variables keep their types (locks.py:123-210, 326-376).
THEOREM TypeCorrect == Spec => []TypeOK
  BY Invariance, PTL DEF IInv

LEMMA IInvHolderIsAtPath == IInv => HolderIsAtPath
  BY NoInodeAssumption
     DEF IInv, FlockFollowsHandle, CheckedStaysCurrent, HolderIsAtPath, Owning

LEMMA IInvMutualExclusion == IInv => MutualExclusion
  BY IInvHolderIsAtPath DEF HolderIsAtPath, MutualExclusion

\* A held lock is the flock of the inode at the path, whatever is pruned.
THEOREM HolderKeepsPath == Spec => []HolderIsAtPath
  BY Invariance, IInvHolderIsAtPath, PTL

\* Two processes are never inside one lock.
THEOREM LockExcludes == Spec => []MutualExclusion
  BY Invariance, IInvMutualExclusion, PTL

-----------------------------------------------------------------------------
(* Refinement of the abstract lock. *)

LEMMA HolderIsInside ==
  ASSUME MutualExclusion
  PROVE  /\ \A p \in Procs : pc[p] \in Critical => Holder = p
         /\ (\A p \in Procs : pc[p] \notin Critical) => Holder = NoProc
  BY DEF MutualExclusion, Holder

\* Every step is a step of at most one process.
LEMMA OneMoves ==
  ASSUME [Next]_vars
  PROVE  pc' = pc \/ \E p \in Procs : \E to : pc' = [pc EXCEPT ![p] = to]
  <1>. DEFINE Moves(p) == pc' = pc \/ \E to : pc' = [pc EXCEPT ![p] = to]
  <1>0. \A p, from, to : Goto(p, from, to) => Moves(p)
    BY DEF Goto
  <1>. HIDE DEF Moves
  <1>. USE <1>0
  <1>1. \A p \in Procs : AcquireSteps(p) => Moves(p)
    BY DEF AcquireSteps, AcquireTry, AcquireTimeout, AcquireCurrent, AcquireStale,
           AcquireReopen, WriteMetadata, WriteMetadataFails
  <1>2. \A p \in Procs : CloseSteps(p) \/ ProbeRead(p) \/ ProbeSteps(p) => Moves(p)
    BY DEF CloseSteps, WriteReleasedMetadata, Close, ProbeRead, ProbeSteps, ProbeOpen,
           ProbeTry, ProbeBlocked, ProbeUnlock
  <1>3. ASSUME NEW p \in Procs, PruneSteps(p)
        PROVE  Moves(p)
    <2>1. CASE PruneStat(p) \/ PruneExists(p) \/ BareStat(p) \/ BareUnlink(p)
      BY <2>1 DEF PruneStat, PruneExists, BareStat, BareUnlink
    <2>2. CASE PruneOpen(p) \/ PruneTry(p) \/ PruneBlocked(p) \/ PruneCheck(p)
      BY <2>2 DEF PruneOpen, PruneTry, PruneBlocked, PruneCheck
    <2>3. CASE PruneStamp(p) \/ MetaStat(p) \/ MetaUnlink(p)
      BY <2>3 DEF PruneStamp, MetaStat, MetaUnlink
    <2>4. CASE PathUnlink(p) \/ PruneUnlock(p)
      BY <2>4 DEF PathUnlink, PruneUnlock
    <2>. QED
      BY <1>3, <2>1, <2>2, <2>3, <2>4 DEF PruneSteps
  <1>4. \A p \in Procs : Acquire(p) \/ Expire(p) \/ PruneRead(p) \/ Crash(p) => Moves(p)
    BY DEF Acquire, Expire, PruneRead, Crash, Moves
  <1>5. CASE UNCHANGED vars
    BY <1>5 DEF vars
  <1>6. CASE Next
    BY <1>1, <1>2, <1>3, <1>4, <1>6 DEF Next, Moves
  <1>. QED
    BY <1>5, <1>6

LEMMA StepRefines ==
  ASSUME IInv, IInv', [Next]_vars
  PROVE  [Abstract!Next]_Holder
  <1>1. MutualExclusion /\ MutualExclusion'
    BY IInvMutualExclusion, IInvHolderIsAtPath, PTL
  <1>2. /\ \A p \in Procs : pc[p] \in Critical => Holder = p
        /\ (\A p \in Procs : pc[p] \notin Critical) => Holder = NoProc
    BY <1>1, HolderIsInside
  <1>3. /\ \A p \in Procs : pc'[p] \in Critical => Holder' = p
        /\ (\A p \in Procs : pc'[p] \notin Critical) => Holder' = NoProc
    BY <1>1 DEF MutualExclusion, Holder
  <1>4. CASE pc' = pc
    BY <1>4 DEF Holder
  <1>5. ASSUME NEW p \in Procs, NEW to, pc' = [pc EXCEPT ![p] = to]
        PROVE  [Abstract!Next]_Holder
    <2>1. \A q \in Procs : q # p => pc'[q] = pc[q]
      BY <1>5 DEF IInv, TypeOK
    <2>2. CASE pc[p] \notin Critical /\ pc'[p] \in Critical
      <3>1. \A q \in Procs : pc[q] \notin Critical
        BY <2>1, <2>2, <1>1 DEF MutualExclusion
      <3>2. Abstract!Enter(p)
        BY <3>1, <2>2, <1>2, <1>3 DEF Abstract!Enter
      <3>. QED
        BY <3>2 DEF Abstract!Next
    <2>3. CASE pc[p] \in Critical /\ pc'[p] \notin Critical
      <3>1. \A q \in Procs : pc'[q] \notin Critical
        BY <2>1, <2>3, <1>1 DEF MutualExclusion
      <3>2. Abstract!Leave(p)
        BY <3>1, <2>3, <1>2, <1>3 DEF Abstract!Leave
      <3>. QED
        BY <3>2 DEF Abstract!Next
    <2>4. CASE pc[p] \in Critical <=> pc'[p] \in Critical
      <3>1. Holder' = Holder
        <4>1. CASE \E q \in Procs : pc[q] \in Critical
          BY <4>1, <2>1, <2>4, <1>2, <1>3
        <4>2. CASE \A q \in Procs : pc[q] \notin Critical
          BY <4>2, <2>1, <2>4, <1>2, <1>3
        <4>. QED
          BY <4>1, <4>2
      <3>. QED
        BY <3>1
    <2>. QED
      BY <2>2, <2>3, <2>4
  <1>. QED
    BY <1>4, <1>5, OneMoves

\* The lock built from files and flocks implements the abstract lock: what
\* callers of acquire() and close() see is one holder at a time.
THEOREM Refinement == Spec => ImplementsWriteLock
  <1>1. Init => Abstract!Init
    BY DEF Init, Abstract!Init, Holder, Critical
  <1>2. IInv /\ IInv' /\ [Next]_vars => [Abstract!Next]_Holder
    BY StepRefines
  <1>. QED
    BY <1>1, <1>2, Invariance, PTL DEF Spec, ImplementsWriteLock, Abstract!Spec
-----------------------------------------------------------------------------
(* The metadata file, where no unlink and no write fails.                  *)

\* Nobody can be writing a record while a pruner is past its checks, and no
\* record is left when a lock file has gone: so a pruner that finds no lock
\* file finds that the metadata it saw is gone too, and unlinks nothing.
RecordInv ==
  /\ \A p \in Procs : same[p] => meta # NoMeta
  /\ path = NoInode => meta = NoMeta
  /\ \A p \in Procs : pc[p] = "bareStat" => ~same[p]
  /\ \A p \in Procs : pc[p] # "bareUnlink"
  /\ \A p \in Procs : pc[p] = "metaStat" /\ ~same[p] => meta = NoMeta
  /\ \A p \in Procs : pc[p] = "pathUnlink" => meta = NoMeta
  /\ HolderIsRecorded
  /\ meta # NoMeta /\ OwnerMayBeLive(meta) => pc[meta.owner] = "held"

LEMMA InitRecordInv == Init => RecordInv
  BY DEF Init, RecordInv, HolderIsRecorded

\* Past the comparison of inodes a process is alone, and there is a lock file.
LEMMA PastChecksAlone ==
  ASSUME IInv, NEW p \in Procs, pc[p] \in Critical \cup Pruning
  PROVE  /\ path # NoInode
         /\ \A q \in Procs : pc[q] \in Critical \cup Pruning => q = p
  BY NoInodeAssumption DEF IInv, FlockFollowsHandle, CheckedStaysCurrent, Owning

\* Points at which RecordInv says something of the process.
Watched == {"bareStat", "bareUnlink", "metaStat", "pathUnlink", "held"}

\* A step between other points that leaves the metadata alone.  A process that
\* is inside the lock leaves it so only by dying.
LEMMA QuietRecordInv ==
  ASSUME IInv, RecordInv, NEW p \in Procs, NEW to \in PC \ Watched,
         pc[p] # "dead", pc[p] = "held" => to = "dead",
         pc' = [pc EXCEPT ![p] = to],
         path' \in Inodes \cup {path}, UNCHANGED <<meta, same>>
  PROVE  RecordInv'
  <1>1. \A q \in Procs : pc'[q] = IF q = p THEN to ELSE pc[q]
    BY DEF IInv, TypeOK
  <1>2. path' = NoInode => meta' = NoMeta
    BY NoInodeAssumption DEF RecordInv
  <1>3. /\ \A q \in Procs : same'[q] => meta' # NoMeta
        /\ \A q \in Procs : pc'[q] = "bareStat" => ~same'[q]
        /\ \A q \in Procs : pc'[q] # "bareUnlink"
        /\ \A q \in Procs : pc'[q] = "metaStat" /\ ~same'[q] => meta' = NoMeta
        /\ \A q \in Procs : pc'[q] = "pathUnlink" => meta' = NoMeta
    BY <1>1 DEF RecordInv, Watched
  <1>4. HolderIsRecorded'
    BY <1>1 DEF RecordInv, HolderIsRecorded, Watched
  <1>5. ASSUME meta' # NoMeta, OwnerMayBeLive(meta)'
        PROVE  pc'[meta'.owner] = "held"
    <2>1. meta.owner \in Procs /\ meta # NoMeta /\ meta.active /\ pc'[meta.owner] # "dead"
      BY <1>5 DEF IInv, TypeOK, Metadata, OwnerMayBeLive
    <2>2. pc[meta.owner] = "held"
      BY <1>1, <2>1 DEF RecordInv, OwnerMayBeLive
    <2>. QED
      BY <1>1, <2>1, <2>2
  <1>. QED
    BY <1>2, <1>3, <1>4, <1>5 DEF RecordInv

\* The holder writes its record, or marks it as released.
LEMMA WriteRecordInv ==
  ASSUME IInv, RecordInv, NEW p \in Procs,
         pc[p] \in Critical, NEW m \in Metadata, PutMeta(m), NEW to \in Critical,
         pc' = [pc EXCEPT ![p] = to], UNCHANGED path,
         to = "held" => m = [active |-> TRUE, owner |-> p],
         m.active => to = "held" /\ m.owner = p
  PROVE  RecordInv'
  <1>1. \A q \in Procs : pc'[q] = IF q = p THEN to ELSE pc[q]
    BY DEF IInv, TypeOK
  <1>2. path # NoInode /\ \A q \in Procs : pc[q] \in Critical \cup Pruning => q = p
    BY PastChecksAlone
  <1>3. meta' = m /\ \A q \in Procs : same'[q] = FALSE
    BY DEF PutMeta
  <1>4. \A q \in Procs : pc'[q] \notin {"bareUnlink", "metaStat", "pathUnlink"}
    BY <1>1, <1>2 DEF RecordInv, Critical, Pruning
  <1>5. HolderIsRecorded'
    BY <1>1, <1>2, <1>3 DEF HolderIsRecorded, Critical
  <1>6. OwnerMayBeLive(meta)' => pc'[meta'.owner] = "held"
    BY <1>1, <1>3 DEF OwnerMayBeLive
  <1>. QED
    BY <1>2, <1>3, <1>4, <1>5, <1>6 DEF RecordInv

\* A pruner past its checks takes the record, then the lock file, away.
LEMMA PruneRecordInv ==
  ASSUME IInv, RecordInv, NEW p \in Procs, ~Faults,
         PruneStamp(p) \/ MetaStat(p) \/ MetaUnlink(p) \/ PathUnlink(p)
  PROVE  RecordInv'
  <1>0. pc[p] \in Pruning
    BY DEF PruneStamp, MetaStat, MetaUnlink, PathUnlink, Goto, Pruning
  <1>1. PICK to \in {"metaStat", "pruneUnlock", "metaUnlink", "pathUnlink"} :
          pc' = [pc EXCEPT ![p] = to]
    BY DEF PruneStamp, MetaStat, MetaUnlink, PathUnlink, Goto
  <1>2. \A q \in Procs : pc'[q] = IF q = p THEN to ELSE pc[q]
    BY <1>1 DEF IInv, TypeOK
  <1>3. path # NoInode /\ \A q \in Procs : pc[q] \in Critical \cup Pruning => q = p
    BY <1>0, PastChecksAlone
  <1>4. \A q \in Procs : pc'[q] # "held" /\ pc'[q] # "bareUnlink"
    BY <1>0, <1>2, <1>3 DEF Critical, Pruning, RecordInv
  <1>5. HolderIsRecorded'
    BY <1>4 DEF HolderIsRecorded
  <1>6. ~(meta # NoMeta /\ OwnerMayBeLive(meta))
    BY <1>0, <1>3 DEF RecordInv, Critical, Pruning, IInv, TypeOK, Metadata
  <1>7. CASE PruneStamp(p) \/ MetaStat(p)
    <2>1. UNCHANGED <<path, meta, same>>
      BY <1>7 DEF PruneStamp, MetaStat
    <2>2. /\ to = "metaStat" => same[p]
          /\ to = "pathUnlink" => meta = NoMeta
      BY <1>7, <1>1 DEF PruneStamp, MetaStat, Goto, RecordInv, IInv, TypeOK
    <2>3. ~(meta' # NoMeta /\ OwnerMayBeLive(meta)')
      BY <1>6, <1>7, <1>2, <2>1 DEF OwnerMayBeLive, IInv, TypeOK, Metadata, PruneStamp, MetaStat, Goto
    <2>. QED
      BY <1>2, <1>4, <1>5, <2>1, <2>2, <2>3 DEF RecordInv
  <1>8. CASE MetaUnlink(p)
    <2>1. PutMeta(NoMeta) /\ UNCHANGED path
      BY <1>8 DEF MetaUnlink
    <2>. QED
      BY <1>2, <1>4, <1>5, <2>1 DEF RecordInv, PutMeta
  <1>9. CASE PathUnlink(p)
    <2>1. meta = NoMeta /\ UNCHANGED <<meta, same>> /\ to = "pruneUnlock"
      BY <1>9, <1>1 DEF PathUnlink, RecordInv, Goto, IInv, TypeOK
    <2>. QED
      BY <1>2, <1>4, <1>5, <2>1 DEF RecordInv
  <1>. QED
    BY <1>7, <1>8, <1>9

LEMMA StepRecordInv ==
  ASSUME IInv, RecordInv, ~Faults, [Next]_vars
  PROVE  RecordInv'
  <1>. USE DEF Goto
  <1>t. /\ pc \in [Procs -> PC] /\ path \in Inodes \cup {NoInode}
        /\ meta \in Metadata \cup {NoMeta} /\ same \in [Procs -> BOOLEAN]
    BY DEF IInv, TypeOK
  <1>u. CASE UNCHANGED <<path, meta, pc, same>>
    BY <1>u DEF RecordInv, HolderIsRecorded, OwnerMayBeLive
  <1>n. ASSUME NEW p \in Procs,
               \/ Acquire(p) \/ Expire(p) \/ AcquireSteps(p) \/ CloseSteps(p)
               \/ PruneRead(p) \/ PruneSteps(p) \/ ProbeRead(p) \/ ProbeSteps(p)
               \/ Crash(p)
        PROVE  RecordInv'
    <2>q. /\ \A x \in {"try", "check", "idle", "write", "reopen", "pruneTry", "pruneCheck",
                       "pruneStamp", "pruneUnlock", "pruneStat", "pruneOpen", "pruneExists",
                       "probeOpen", "probeTry", "probeUnlock", "dead", "closing", "failed"} :
               x \in PC \ Watched
      BY DEF PC, Empty, Opened, Locked, Critical, Pruning, Watched
    <2>1. CASE Acquire(p) \/ AcquireReopen(p) \/ PruneOpen(p) \/ ProbeOpen(p)
      <3>1. PICK to \in {"try", "pruneTry", "probeTry"} : pc' = [pc EXCEPT ![p] = to]
        BY <2>1 DEF Acquire, AcquireReopen, PruneOpen, ProbeOpen
      <3>2. /\ path' \in Inodes /\ UNCHANGED <<meta, same>>
            /\ pc[p] \notin {"dead", "held"}
        BY <2>1 DEF Acquire, AcquireReopen, PruneOpen, ProbeOpen, OpenLockFile
      <3>. QED
        BY <3>1, <3>2, <2>q, QuietRecordInv
    <2>2. CASE AcquireTry(p) \/ PruneTry(p) \/ ProbeTry(p) \/ AcquireCurrent(p) \/ PruneCheck(p)
               \/ PruneRead(p) \/ ProbeRead(p)
      <3>1. PICK to \in {"check", "pruneCheck", "probeUnlock", "write", "pruneStamp",
                         "pruneUnlock", "pruneStat", "probeOpen"} :
              pc' = [pc EXCEPT ![p] = to]
        BY <2>2 DEF AcquireTry, PruneTry, ProbeTry, AcquireCurrent, PruneCheck, PruneRead, ProbeRead
      <3>2. UNCHANGED <<path, meta, same>> /\ pc[p] \notin {"dead", "held"}
        BY <2>2 DEF AcquireTry, PruneTry, ProbeTry, AcquireCurrent, PruneCheck, PruneRead, ProbeRead
      <3>. QED
        BY <3>1, <3>2, <2>q, QuietRecordInv
    <2>3. CASE \/ AcquireTimeout(p) \/ AcquireStale(p) \/ Close(p) \/ PruneBlocked(p)
               \/ PruneUnlock(p) \/ ProbeBlocked(p) \/ ProbeUnlock(p) \/ Crash(p)
      <3>1. PICK to \in {"idle", "reopen", "dead"} :
              pc' = [pc EXCEPT ![p] = to] /\ (pc[p] = "held" => to = "dead")
        BY <2>3 DEF AcquireTimeout, AcquireStale, Close, PruneBlocked,
                    PruneUnlock, ProbeBlocked, ProbeUnlock, Crash
      <3>2. UNCHANGED <<path, meta, same>> /\ pc[p] # "dead"
        BY <2>3 DEF AcquireTimeout, AcquireStale, Close, PruneBlocked,
                    PruneUnlock, ProbeBlocked, ProbeUnlock, Crash
      <3>. QED
        BY <3>1, <3>2, <2>q, QuietRecordInv
    <2>4. CASE WriteMetadata(p)
      <3>. DEFINE m == [active |-> TRUE, owner |-> p]
      <3>1. m \in Metadata /\ m.owner = p
        BY DEF Metadata
      <3>2. /\ pc[p] \in Critical /\ "held" \in Critical /\ PutMeta(m)
            /\ pc' = [pc EXCEPT ![p] = "held"] /\ UNCHANGED path
        BY <2>4 DEF WriteMetadata, Critical
      <3>. QED
        BY <3>1, <3>2, WriteRecordInv
    <2>5. CASE WriteReleasedMetadata(p)
      <3>1. /\ pc[p] \in {"held", "failed"} /\ pc' = [pc EXCEPT ![p] = "closing"]
            /\ pc[p] \in Critical /\ "closing" \in Critical /\ UNCHANGED path
        BY <2>5 DEF WriteReleasedMetadata, Critical
      <3>2. CASE meta # NoMeta /\ PutMeta([meta EXCEPT !.active = FALSE])
        <4>. DEFINE m == [meta EXCEPT !.active = FALSE]
        <4>1. m \in Metadata /\ ~m.active
          BY <1>t, <3>2 DEF Metadata
        <4>. QED
          BY <3>1, <3>2, <4>1, WriteRecordInv
      <3>3. CASE meta = NoMeta /\ UNCHANGED <<meta, same>>
        <4>1. pc'[p] = "closing" /\ \A q \in Procs : q # p => pc'[q] = pc[q]
          BY <1>t, <3>1
        <4>. QED
          BY <3>1, <3>3, <4>1 DEF RecordInv, HolderIsRecorded
      <3>. QED
        BY <2>5, <3>2, <3>3 DEF WriteReleasedMetadata
    <2>6. CASE PruneStat(p)
      <3>1. PICK to \in {"pruneExists", "idle"} : pc' = [pc EXCEPT ![p] = to]
        BY <2>6 DEF PruneStat
      <3>2. pc[p] = "pruneStat" /\ UNCHANGED <<path, meta>>
        BY <2>6 DEF PruneStat
      <3>3. CASE UNCHANGED same
        BY <3>1, <3>2, <3>3, <2>q, QuietRecordInv
      <3>4. CASE meta # NoMeta /\ same' = [same EXCEPT ![p] = TRUE]
        <4>1. /\ \A q \in Procs : pc'[q] = IF q = p THEN to ELSE pc[q]
              /\ \A q \in Procs : q # p => same'[q] = same[q]
          BY <1>t, <3>1, <3>4
        <4>2. meta.owner \in Procs
          BY <1>t, <3>4 DEF Metadata
        <4>3. OwnerMayBeLive(meta)' => OwnerMayBeLive(meta)
          BY <3>2, <4>1, <4>2 DEF OwnerMayBeLive
        <4>4. OwnerMayBeLive(meta)' => pc'[meta'.owner] = "held"
          BY <3>2, <3>4, <4>1, <4>2, <4>3 DEF RecordInv
        <4>. QED
          BY <3>1, <3>2, <3>4, <4>1, <4>4 DEF RecordInv, HolderIsRecorded
      <3>. QED
        BY <2>6, <3>3, <3>4 DEF PruneStat
    <2>7. CASE PruneExists(p)
      <3>1. pc[p] = "pruneExists" /\ UNCHANGED <<path, meta, same>>
        BY <2>7 DEF PruneExists
      <3>2. CASE path # NoInode
        <4>1. pc' = [pc EXCEPT ![p] = "pruneOpen"]
          BY <2>7, <3>2 DEF PruneExists
        <4>. QED
          BY <3>1, <4>1, <2>q, QuietRecordInv
      <3>3. CASE path = NoInode
        <4>1. meta = NoMeta /\ ~same[p]
          BY <3>3 DEF RecordInv
        <4>2. \A q \in Procs : pc'[q] = IF q = p THEN "bareStat" ELSE pc[q]
          BY <1>t, <2>7, <3>3 DEF PruneExists
        <4>. QED
          BY <3>1, <4>1, <4>2 DEF RecordInv, HolderIsRecorded
      <3>. QED
        BY <3>2, <3>3
    <2>8. CASE BareStat(p)
      <3>1. pc[p] = "bareStat" /\ ~same[p]
        BY <2>8 DEF BareStat, RecordInv
      <3>2. pc' = [pc EXCEPT ![p] = "idle"] /\ UNCHANGED <<path, meta, same>>
        BY <2>8, <3>1 DEF BareStat
      <3>. QED
        BY <3>1, <3>2, <2>q, QuietRecordInv
    <2>9. CASE BareUnlink(p) \/ WriteMetadataFails(p)
      BY <2>9 DEF BareUnlink, WriteMetadataFails, RecordInv
    <2>10. CASE PruneStamp(p) \/ MetaStat(p) \/ MetaUnlink(p) \/ PathUnlink(p)
      BY <2>10, PruneRecordInv
    <2>11. CASE Expire(p)
      BY <2>11, <1>u DEF Expire
    <2>. QED
      BY <1>n, <2>1, <2>2, <2>3, <2>4, <2>5, <2>6, <2>7, <2>8, <2>9, <2>10, <2>11
         DEF AcquireSteps, CloseSteps, PruneSteps, ProbeSteps
  <1>. QED
    BY <1>u, <1>n DEF Next, vars

LEMMA RecordInvariance ==
  ASSUME ~Faults
  PROVE  Spec => []RecordInv
  <1>1. IInv /\ RecordInv /\ [Next]_vars => RecordInv'
    BY StepRecordInv
  <1>. QED
    BY InitRecordInv, Invariance, <1>1, PTL DEF Spec

\* Where no unlink and no write fails, the process inside the lock is the one
\* that the metadata names, whatever is pruned and whoever dies.
THEOREM RecordNamesHolder ==
  ASSUME ~Faults
  PROVE  Spec => []HolderIsRecorded
  <1>1. RecordInv => HolderIsRecorded
    BY DEF RecordInv
  <1>. QED
    BY RecordInvariance, <1>1, PTL

LEMMA StepKeepsLiveRecords ==
  ASSUME IInv, RecordInv, ~Faults, Next, meta # NoMeta, meta' = NoMeta
  PROVE  ~OwnerMayBeLive(meta)
  <1>. SUFFICES ASSUME OwnerMayBeLive(meta) PROVE FALSE
    OBVIOUS
  <1>1. meta.owner \in Procs /\ pc[meta.owner] = "held" /\ pc[meta.owner] \in Critical
    BY DEF IInv, TypeOK, Metadata, RecordInv, Critical
  <1>2. \A q \in Procs : pc[q] \in Critical \cup Pruning => q = meta.owner
    BY <1>1, PastChecksAlone
  <1>3. PICK p \in Procs : WriteMetadata(p) \/ WriteReleasedMetadata(p) \/ BareUnlink(p) \/ MetaUnlink(p)
    <2>. USE DEF Goto
    <2>1. PICK p \in Procs :
               \/ Acquire(p) \/ Expire(p) \/ AcquireSteps(p) \/ CloseSteps(p)
               \/ PruneRead(p) \/ PruneSteps(p) \/ ProbeRead(p) \/ ProbeSteps(p)
               \/ Crash(p)
      BY DEF Next
    <2>2. /\ ~Acquire(p) /\ ~Expire(p) /\ ~PruneRead(p) /\ ~ProbeRead(p) /\ ~Crash(p)
          /\ ~ProbeSteps(p)
      BY DEF Acquire, Expire, PruneRead, ProbeRead, Crash, ProbeSteps, ProbeOpen, ProbeTry,
             ProbeBlocked, ProbeUnlock
    <2>3. AcquireSteps(p) => WriteMetadata(p)
      BY DEF AcquireSteps, AcquireTry, AcquireTimeout, AcquireCurrent, AcquireStale,
             AcquireReopen, WriteMetadataFails
    <2>4. CloseSteps(p) => WriteReleasedMetadata(p)
      BY DEF CloseSteps, Close
    <2>5. PruneSteps(p) => BareUnlink(p) \/ MetaUnlink(p)
      BY DEF PruneSteps, PruneStat, PruneExists, BareStat, PruneOpen, PruneTry, PruneBlocked,
             PruneCheck, PruneStamp, MetaStat, PathUnlink, PruneUnlock
    <2>. QED
      BY <2>1, <2>2, <2>3, <2>4, <2>5
  <1>4. CASE WriteMetadata(p)
    <2>1. meta' = [active |-> TRUE, owner |-> p]
      BY <1>4 DEF WriteMetadata, PutMeta
    <2>. QED
      BY <2>1, NoMetaAssumption
  <1>5. CASE WriteReleasedMetadata(p)
    <2>1. meta' = [meta EXCEPT !.active = FALSE]
      BY <1>5 DEF WriteReleasedMetadata, PutMeta
    <2>. QED
      BY <2>1, NoMetaAssumption DEF IInv, TypeOK, Metadata
  <1>6. CASE BareUnlink(p)
    BY <1>6 DEF BareUnlink, Goto, RecordInv
  <1>7. CASE MetaUnlink(p)
    <2>1. pc[p] = "metaUnlink" /\ pc[p] \in Pruning
      BY <1>7 DEF MetaUnlink, Goto, Pruning
    <2>. QED
      BY <2>1, <1>1, <1>2
  <1>. QED
    BY <1>3, <1>4, <1>5, <1>6, <1>7

\* Where no unlink and no write fails, pruning keeps the record of every owner
\* that is still alive (locks.py:234-235).
THEOREM LiveRecordsKept ==
  ASSUME ~Faults
  PROVE  Spec => PruneKeepsLiveRecords
  <1>1. IInv /\ RecordInv /\ [Next]_vars =>
          [meta # NoMeta /\ meta' = NoMeta => ~OwnerMayBeLive(meta)]_vars
    BY StepKeepsLiveRecords
  <1>. QED
    BY <1>1, Invariance, RecordInvariance, PTL DEF Spec, PruneKeepsLiveRecords
=============================================================================
