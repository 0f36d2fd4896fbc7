--------------------------- MODULE Orchestration ---------------------------
(***************************************************************************)
(* The orchestration service, src/backlog_py/orchestration/: agents claim, *)
(* release, transition, split and report on tasks.  A task file carries    *)
(* the orchestration mapping (status key, version, lease) and its run      *)
(* history.  Every mutation runs under the project write lock, so all of   *)
(* them are single steps except a split, which writes one file per child   *)
(* and can fail or die in between.  Readers take no lock: an agent decides *)
(* on what it read earlier (seen) and passes its version back.             *)
(*                                                                         *)
(* A refused or replayed request changes nothing and is not a step.        *)
(* Abstractions: times are small naturals; an entry keeps the fields the   *)
(* fingerprint and the properties tell apart (a split's items are their    *)
(* number); dependencies, review and workspace metadata are left out: no   *)
(* guard here reads them.  Hand-edited (invalid) mappings are left out.    *)
(***************************************************************************)
EXTENDS RunHistory

CONSTANTS Tasks, NoTask,
          Actors, NoActor,
          Keys,              \* idempotency keys
          EscapedKeys,       \* keys that JSON writes differently on a marker
          Statuses, NoStatus,
          Claimable, Terminal, Transitions, Entry,   \* the policy
          BoardStatuses,     \* plain statuses task edits choose from
          CompleteStatuses,  \* plain statuses that count as complete
          Updates,           \* state updates record_run may carry
          TTL, NoTime,       \* length of a lease; no expiry
          NoSplit,
          MaxVersion, MaxClock, MaxItems,  \* bounds of the model
          Children           \* the ids a child may get: as many as there are, another bound

\* validate_policy, as far as the model rests on it: transitions between known
\* states, an entry point, a terminal state.
ASSUME PolicyAssumption ==
  /\ Claimable \subseteq Statuses /\ Entry \in Claimable
  /\ Terminal \subseteq Statuses /\ Terminal # {}
  /\ Transitions \in [Statuses -> Seq(Statuses)]
ASSUME BoardAssumption == BoardStatuses \subseteq Statuses
ASSUME TimeAssumption  == TTL \in Nat \ {0} /\ NoTime = 0
ASSUME NoneAssumption  ==
  NoTask \notin Tasks /\ NoActor \notin Actors /\ NoKey \notin Keys /\ NoStatus \notin Statuses
ASSUME BoundsAssumption == MaxVersion \in Nat /\ MaxClock \in Nat \ {0} /\ MaxItems \in Nat

VARIABLES orch,      \* orch[t]: the orchestration mapping of t
          board,     \* board[t]: the plain status of t
          history,   \* history[t]: the run history of t
          seen,      \* seen[a]: the task a last read, and its mapping then
          now,       \* the clock
          split,     \* the split that holds the lock, or NoSplit
          files,     \* the child files there are
          kept,      \* the children of splits that succeeded, whether or not the entry is kept
          left       \* child files that could not be removed or not be read back, or whose
                     \* split died

vars == <<orch, board, history, seen, now, split, files, kept, left>>

childVars == <<files, kept, left>>

State == [status : Statuses \cup {NoStatus}, version : 0..MaxVersion,
          owner : Actors \cup {NoActor}, expires : 0..MaxClock + TTL]

Types == {"claim_task", "release_task", "transition_task", "record_run", "split_task"}

Event == [type : Types, actor : Actors, to : Statuses \cup {NoStatus},
          owner : Actors \cup {NoActor}, expires : 0..MaxClock + TTL,
          items : 0..MaxItems, key : Keys \cup {NoKey}]

\* made: its children so far; undo: it has failed, and they are removed again.
Split == [task : Tasks, event : Event, made : SUBSET Children, undo : BOOLEAN]

History == [marked : BOOLEAN, dropped : Seq(Keys), events : Seq(Event)]

\* The state updates that record_run may carry have the fields of a mapping, and a
\* split is not NoSplit.
ASSUME UpdatesAssumption ==
  Updates \subseteq [status : Statuses \cup {NoStatus}, owner : Actors \cup {NoActor},
                     expires : 0..MaxClock + TTL]
ASSUME NoSplitAssumption == NoSplit \notin Split

NoState == [status |-> NoStatus, version |-> 0, owner |-> NoActor, expires |-> NoTime]

TypeOK ==
  /\ orch \in [Tasks -> State]
  /\ board \in [Tasks -> Statuses]
  /\ history \in [Tasks -> History]
  /\ \A t \in Tasks : Size(history[t]) <= MaxEntries
  /\ seen \in [Actors -> [task : Tasks \cup {NoTask}, state : State]]
  /\ now \in 0..MaxClock
  /\ split # NoSplit => split \in Split
  /\ files \subseteq Children /\ kept \subseteq Children /\ left \subseteq Children

Init ==
  /\ orch = [t \in Tasks |-> NoState]
  /\ board \in [Tasks -> BoardStatuses]
  /\ history = [t \in Tasks |-> EmptyHistory]
  /\ seen = [a \in Actors |-> [task |-> NoTask, state |-> NoState]]
  /\ now = 1
  /\ split = NoSplit
  /\ files = {} /\ kept = {} /\ left = {}

-----------------------------------------------------------------------------
(* The policy. *)

CanTransition(from, to) == Contains(Transitions[from], to)

\* The places of the transition targets that are neither claimable nor terminal.
WorkingTargets(from) ==
  {i \in DOMAIN Transitions[from] : Transitions[from][i] \notin Claimable \cup Terminal}

FirstWorkingTarget(from) == Transitions[from][Min(WorkingTargets(from))]

\* MUTANT of ClaimTarget: no fallback to the entry point.
ClaimTarget_NoFallback(from) ==
  IF from \in Claimable /\ WorkingTargets(from) # {}
  THEN FirstWorkingTarget(from) ELSE from

\* Where a claim takes a task.  A task that is not claimable (a replay sees the
\* task already claimed) gets the target of the policy's entry point.
ClaimTarget(from) ==
  IF from \in Claimable /\ WorkingTargets(from) # {} THEN FirstWorkingTarget(from)
  ELSE IF WorkingTargets(Entry) # {} THEN FirstWorkingTarget(Entry) ELSE from

-----------------------------------------------------------------------------
(* Reading a task. *)

StatusKey(t) == IF orch[t].status # NoStatus THEN orch[t].status ELSE board[t]

LeaseIsActive(t) == orch[t].owner # NoActor /\ orch[t].expires > now

\* _require_lease_owner
MayAct(a, t) == LeaseIsActive(t) => orch[t].owner = a

\* MUTANT of ExpectedVersion: the version is not compared.
ExpectedVersion_Any(a, t) == seen[a].task = t

\* The expected_version that a passes is the one it read.
ExpectedVersion(a, t) == seen[a].task = t /\ seen[a].state.version = orch[t].version

\* a reads t (queue, status, board) while anybody may hold the lock.
Read(a, t) ==
  /\ split # NoSplit => split.event.actor # a
  /\ seen' = [seen EXCEPT ![a] = [task |-> t, state |-> orch[t]]]
  /\ UNCHANGED <<orch, board, history, now, split, childVars>>

\* A plain edit of the task's status, which leaves the mapping alone.
EditStatus(t) ==
  /\ split = NoSplit
  /\ \E s \in BoardStatuses : board' = [board EXCEPT ![t] = s]
  /\ UNCHANGED <<orch, history, seen, now, split, childVars>>

Tick == /\ now < MaxClock
        /\ now' = now + 1
        /\ UNCHANGED <<orch, board, history, seen, split, childVars>>

-----------------------------------------------------------------------------
(* Single-step mutations. *)

RunEvent(type, a, to, k) ==
  [type |-> type, actor |-> a, to |-> to, owner |-> NoActor, expires |-> NoTime,
   items |-> 0, key |-> k]

\* Replace the mapping and append the entry: one atomic write of the file.
Save(t, state, e) ==
  /\ state.version <= MaxVersion    \* bound
  /\ orch' = [orch EXCEPT ![t] = state]
  /\ history' = [history EXCEPT ![t] = AppendEntry(@, e)]

\* _workflow_mutation_locked: idempotency first, then the version; the caller's
\* own validation follows in the action.
WorkflowMutation(t, e, next) ==
  /\ split = NoSplit
  /\ Match(history[t], e) = "new"
  /\ ExpectedVersion(e.actor, t)
  /\ Save(t, [next EXCEPT !.version = orch[t].version + 1], e)
  /\ UNCHANGED <<board, seen, now, split, childVars>>

ClaimEvent(a, t, k) == RunEvent("claim_task", a, ClaimTarget(StatusKey(t)), k)

\* MUTANT of ClaimAllowed: a task without a mapping has no status to claim from.
ClaimAllowed_MappedOnly(a, t) ==
  /\ MayAct(a, t)
  /\ orch[t].status \in Claimable
  /\ CanTransition(StatusKey(t), ClaimTarget(StatusKey(t)))

\* The validation of a claim.
ClaimAllowed(a, t) ==
  /\ MayAct(a, t)
  /\ StatusKey(t) \in Claimable
  /\ CanTransition(StatusKey(t), ClaimTarget(StatusKey(t)))

ClaimTask(a, t, k) ==
  /\ ClaimAllowed(a, t)
  /\ WorkflowMutation(t, ClaimEvent(a, t, k),
       [orch[t] EXCEPT !.status = ClaimTarget(StatusKey(t)),
                       !.owner = a, !.expires = now + TTL])

\* MUTANT of ReleaseTask: a lease of somebody else is released.
ReleaseTask_AnyLease(a, t, k) ==
  WorkflowMutation(t, RunEvent("release_task", a, Entry, k),
    [orch[t] EXCEPT !.status = Entry, !.owner = NoActor, !.expires = NoTime])

\* From any status, a terminal one included.
ReleaseTask(a, t, k) ==
  /\ MayAct(a, t)
  /\ WorkflowMutation(t, RunEvent("release_task", a, Entry, k),
       [orch[t] EXCEPT !.status = Entry, !.owner = NoActor, !.expires = NoTime])

TransitionTask(a, t, to, k) ==
  /\ MayAct(a, t)
  /\ CanTransition(StatusKey(t), to)
  /\ WorkflowMutation(t, RunEvent("transition_task", a, to, k),
                      [orch[t] EXCEPT !.status = to])

\* record_run without a state update: only the history changes.
RecordRun(a, t, k) ==
  LET e == RunEvent("record_run", a, NoStatus, k)
  IN  /\ split = NoSplit
      /\ Match(history[t], e) = "new"
      /\ Save(t, orch[t], e)
      /\ UNCHANGED <<board, seen, now, split, childVars>>

\* _apply_state_update: only the fields the update carries.
Apply(state, u) ==
  [state EXCEPT !.status  = IF u.status = NoStatus THEN @ ELSE u.status,
                !.owner   = IF u.owner = NoActor THEN @ ELSE u.owner,
                !.expires = IF u.expires = NoTime THEN @ ELSE u.expires]

\* MUTANT of UpdateAllowed: the status may jump anywhere.
UpdateAllowed_AnyStatus(a, t, u) ==
  /\ MayAct(a, t)
  /\ (u.owner # NoActor \/ u.expires # NoTime)
       => orch[t].owner = a \/ StatusKey(t) \in Claimable

\* _validate_record_run_state_update: the policy of transition_task, and a lease
\* only where a claim could take one, or to renew one's own.
UpdateAllowed(a, t, u) ==
  /\ MayAct(a, t)
  /\ (u.owner # NoActor \/ u.expires # NoTime)
       => orch[t].owner = a \/ StatusKey(t) \in Claimable
  /\ u.status \notin {NoStatus, StatusKey(t)} => CanTransition(StatusKey(t), u.status)

\* _validate_updated_orchestration: an owner needs an expiry.
IsValid(state) == state.owner # NoActor => state.expires # NoTime

RecordRunUpdate(a, t, u, k) ==
  LET e       == [RunEvent("record_run", a, u.status, k)
                    EXCEPT !.owner = u.owner, !.expires = u.expires]
      updated == Apply(orch[t], u)
      next    == IF updated = orch[t] THEN updated
                 ELSE [updated EXCEPT !.version = @ + 1]
  IN  /\ split = NoSplit
      /\ Match(history[t], e) = "new"
      /\ ExpectedVersion(a, t)
      /\ UpdateAllowed(a, t, u)
      /\ updated # orch[t] => IsValid(updated)
      /\ Save(t, next, e)
      /\ UNCHANGED <<board, seen, now, split, childVars>>

-----------------------------------------------------------------------------
(* Splitting: child files are written one by one, the parent last. *)

\* The sweep skips a file whose text does not contain the key; a key dropped
\* into a marker is there as JSON text.
Mentions(h, k) == \/ \E i \in DOMAIN h.events : h.events[i].key = k
                  \/ Contains(h.dropped, k) /\ k \notin EscapedKeys

\* MUTANT of SplitIsNew: only the task itself is searched.
SplitIsNew_OwnTask(t, e) == Match(history[t], e) = "new"

\* _find_split_idempotency_match: the task's history, then all the others'.
SplitIsNew(t, e) ==
  /\ Match(history[t], e) = "new"
  /\ \A u \in Tasks \ {t} : Mentions(history[u], e.key) => Match(history[u], e) = "new"

SplitTask(a, t, items, to, k) ==
  LET e == [RunEvent("split_task", a, to, k) EXCEPT !.items = items]
  IN  /\ split = NoSplit
      /\ SplitIsNew(t, e)
      /\ ExpectedVersion(a, t)
      /\ to # NoStatus => CanTransition(StatusKey(t), to)
      /\ orch[t].version < MaxVersion    \* bound
      /\ split' = [task |-> t, event |-> e, made |-> {}, undo |-> FALSE]
      /\ UNCHANGED <<orch, board, history, seen, now, childVars>>

Splitting   == split # NoSplit /\ ~split.undo
RollingBack == split # NoSplit /\ split.undo

\* An id that no file has; TaskStore has the way to it.
NewChild == CHOOSE c \in Children : c \notin files

\* A child is written and read back.  If it cannot be read, the split fails and
\* does not know of it.
SplitCreate ==
  /\ Splitting /\ Cardinality(split.made) < split.event.items
  /\ files # Children    \* bound
  /\ files' = files \cup {NewChild}
  /\ \/ split' = [split EXCEPT !.made = @ \cup {NewChild}] /\ UNCHANGED left
     \/ split' = [split EXCEPT !.undo = TRUE] /\ left' = left \cup {NewChild}
  /\ UNCHANGED <<orch, board, history, seen, now, kept>>

\* The parent, with the entry that names the children.  If it cannot be read back,
\* they are removed, and the entry stays.
SplitCommit ==
  /\ Splitting /\ Cardinality(split.made) = split.event.items
  /\ LET t == split.task
         e == split.event
     IN  Save(t, [orch[t] EXCEPT !.version = @ + 1,
                                 !.status = IF e.to = NoStatus THEN @ ELSE e.to], e)
  /\ \/ split' = NoSplit /\ kept' = kept \cup split.made
     \/ split' = [split EXCEPT !.undo = TRUE] /\ UNCHANGED kept
  /\ UNCHANGED <<board, seen, now, files, left>>

\* A child, or the parent, cannot be written.
SplitFails ==
  /\ Splitting
  /\ split' = [split EXCEPT !.undo = TRUE]
  /\ UNCHANGED <<orch, board, history, seen, now, childVars>>

\* MUTANT of RemoveChild: a child that cannot be removed ends the rollback.
RemoveChild_OrStop(c) ==
  /\ RollingBack /\ c \in split.made
  /\ \/ /\ files' = files \ {c} /\ split' = [split EXCEPT !.made = @ \ {c}]
        /\ UNCHANGED left
     \/ /\ left' = left \cup {c} /\ split' = [split EXCEPT !.made = {}]
        /\ UNCHANGED files
  /\ UNCHANGED <<orch, board, history, seen, now, kept>>

\* _rollback_created_tasks: one that cannot be removed is passed over.  Their order
\* is left open; the code's is the reverse.
RemoveChild(c) ==
  /\ RollingBack /\ c \in split.made
  /\ split' = [split EXCEPT !.made = @ \ {c}]
  /\ \/ files' = files \ {c} /\ UNCHANGED left
     \/ left' = left \cup {c} /\ UNCHANGED files
  /\ UNCHANGED <<orch, board, history, seen, now, kept>>

\* The error is passed on.
RollbackEnds ==
  /\ RollingBack /\ split.made = {}
  /\ split' = NoSplit
  /\ UNCHANGED <<orch, board, history, seen, now, childVars>>

\* The process dies before the parent is written, or during the rollback: the
\* children that are there stay, and nothing ever looks for them.
Crash ==
  /\ split # NoSplit
  /\ left' = left \cup split.made
  /\ split' = NoSplit
  /\ UNCHANGED <<orch, board, history, seen, now, files, kept>>

-----------------------------------------------------------------------------
OptionalKeys == Keys \cup {NoKey}

Next ==
  \/ Tick
  \/ \E t \in Tasks : EditStatus(t)
  \/ \E a \in Actors, t \in Tasks : Read(a, t)
  \/ \E a \in Actors, t \in Tasks, k \in OptionalKeys :
       \/ ClaimTask(a, t, k)
       \/ ReleaseTask(a, t, k)
       \/ \E to \in Statuses : TransitionTask(a, t, to, k)
       \/ RecordRun(a, t, k)
       \/ \E u \in Updates : RecordRunUpdate(a, t, u, k)
       \/ \E to \in Statuses \cup {NoStatus}, n \in 1..MaxItems :
            SplitTask(a, t, n, to, k)
  \/ SplitCreate \/ SplitCommit \/ SplitFails
  \/ \E c \in Children : RemoveChild(c)
  \/ RollbackEnds \/ Crash

Spec == Init /\ [][Next]_vars

-----------------------------------------------------------------------------
(* Properties. *)

\* The entry the step appended to t.
NewEntry(t) == Last(history'[t].events)

\* Nobody changes a mapping it has not seen: between an agent's read and its
\* write no other change slipped in, of whatever kind, although readers take no
\* lock and only the version is compared (service.py:242-255, 361-369, 719-727).
NoLostUpdate ==
  [][\A t \in Tasks : orch'[t] # orch[t] =>
       seen[NewEntry(t).actor] = [task |-> t, state |-> orch[t]]]_vars

\* While an agent's lease is active, nobody else changes the mapping, a split
\* apart (service.py:294-295, 567-576, 633, 673).
LeaseRespected ==
  [][\A t \in Tasks : orch'[t] # orch[t] /\ LeaseIsActive(t) =>
       NewEntry(t).actor = orch[t].owner \/ NewEntry(t).type = "split_task"]_vars

\* The same, splits included.
LeaseProtects ==
  [][\A t \in Tasks : orch'[t] # orch[t] /\ LeaseIsActive(t) =>
       NewEntry(t).actor = orch[t].owner]_vars

\* The workflow status of a task moves along the policy's transitions, whatever
\* operation moves it; only a release goes straight back to the entry point
\* (service.py:311-327, 372-380, 577-585, 675-683).
WorkflowOrder ==
  [][\A t \in Tasks : orch'[t].status # orch[t].status =>
       \/ CanTransition(StatusKey(t), orch'[t].status)
       \/ NewEntry(t).type = "release_task" /\ orch'[t].status = Entry
       \/ orch'[t].status = StatusKey(t)]_vars

\* A client that repeats a claim word for word, not knowing that it went
\* through, gets the recorded result for as long as the entry is kept, whatever
\* happened to the task since (service.py:709-718, models.py:342-363).
ClaimReplays ==
  \A t \in Tasks : \A i \in DOMAIN history[t].events :
    LET e == history[t].events[i]
    IN  e.type = "claim_task" /\ e.key # NoKey =>
          Match(history[t], ClaimEvent(e.actor, t, e.key)) = "replay"

\* No idempotency key the file still knows about was used for two pieces of
\* work, on either side of the truncation marker (history.py:165-187).
KeysUnique ==
  \A t \in Tasks :
    LET h == history[t]
    IN  /\ IsInjective(h.dropped)
        /\ \A i, j \in DOMAIN h.events :
             h.events[i].key # NoKey /\ h.events[i].key = h.events[j].key => i = j
        /\ \A i \in DOMAIN h.events : ~Contains(h.dropped, h.events[i].key)

\* A key that any task still knows about never starts a new split, of the same
\* task or of another (history.py:168-177, service.py:832-837).
SplitKeyOnce ==
  [][\A t \in Tasks :
       history'[t] # history[t] /\ NewEntry(t).type = "split_task" /\ NewEntry(t).key # NoKey
         => \A u \in Tasks : ~Knows(history[u], NewEntry(t).key)]_vars

\* Whatever splits have failed or died before, and with whatever keys they are
\* retried: a split that succeeded has all its children, and a child file of no such
\* split is one that could itself not be removed or not be read back, or whose
\* split died (service.py:453-491, 407-419, 926-929).
ChildrenAccountedFor ==
  /\ kept \subseteq files /\ left \subseteq files /\ kept \cap left = {}
  /\ split = NoSplit => files = kept \cup left

\* Every variable has its type as well; a history keeps the cap (history.py:195-213).
SplitsLeaveNoOrphans == TypeOK /\ ChildrenAccountedFor

\* Work the queue shows as ready (reports.py:122-135) can be claimed by anybody.
Eligible(t) ==
  /\ StatusKey(t) \notin Terminal /\ board[t] \notin CompleteStatuses
  /\ ~(orch[t].owner # NoActor /\ orch[t].expires # NoTime)
  /\ StatusKey(t) \in Claimable

EligibleIsClaimable ==
  \A t \in Tasks : Eligible(t) => \A a \in Actors : ClaimAllowed(a, t)
=============================================================================
