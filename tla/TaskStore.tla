----------------------------- MODULE TaskStore -----------------------------
(***************************************************************************)
(* The task and draft files of a project (core/repository.py,              *)
(* core/drafts.py), the operations that write, rename and move them, and a *)
(* reader that scans them.                                                 *)
(*                                                                         *)
(* Operations hold the project write lock, so one runs at a time; each     *)
(* checks everything first and then goes through a list of file system     *)
(* calls, any of which may fail and between any of which the process may   *)
(* die.  Readers take no lock and see every intermediate state.            *)
(*                                                                         *)
(* A file's path is its directory, the id and the slug of the title.  Its  *)
(* content is whose work it is (born: the task created or drafted once,    *)
(* whatever its id has become) and the ids it depends on.  Its status,     *)
(* subtasks, other checkouts and the remaining fields are left out.        *)
(***************************************************************************)
EXTENDS Naturals, FiniteSets, Sequences, FiniteSetsExt, SequencesExt, Functions, Relation

CONSTANTS Births,       \* every task or draft that can come to exist
          Watched,      \* those of them a reader may look for
          Slugs,        \* titles, as they appear in file names
          MaxId,        \* ids are 1..MaxId
          MaxDeps,      \* dependencies of one task
          MaxFaults,    \* crashes and failed unlinks and rollback steps, in all
          NoTask        \* the reader looks for none

ASSUME BoundsAssumption == MaxId \in Nat /\ MaxDeps \in Nat /\ MaxFaults \in Nat
ASSUME WatchedAssumption == Watched \subseteq Births

VARIABLES files,   \* files[p]: the content of the file at path p
          op,      \* the operation that holds the lock, or NoOp
          scan,    \* the reader
          faults   \* how many faults there have been

vars == <<files, op, scan, faults>>

Ids      == 1..MaxId
Lookup   == {"tasks", "completed", "archive"}            \* _task_lookup_dirs
Dirs     == Lookup \cup {"drafts", "archivedDrafts"}
Paths    == [dir : Dirs, id : Ids, slug : Slugs]
DepSets  == {d \in SUBSET Ids : Cardinality(d) <= MaxDeps}
Contents == [born : Births, deps : DepSets]
Writes   == [from : Paths, to : Paths, content : Contents, undo : Contents]

FileMaps == UNION {[D -> Contents] : D \in SUBSET Paths}

Kinds   == {"create", "edit", "promote", "demote", "renumber", "renumberFile"}

\* An operation at work: file writes to come and done, names to unlink after
\* them, whether it is rolling back, and whether a rollback step failed.
Op == [kind : Kinds, before : FileMaps,
       todo : Seq(Writes), done : Seq(Writes), unlinks : Seq(Paths),
       rolling : BOOLEAN, spoilt : BOOLEAN]

NoOp == [kind |-> "none"]

Here(dir) == {p \in DOMAIN files : p.dir = dir}
Tasks     == {p \in DOMAIN files : p.dir \in Lookup}

\* Every variable has its type, and a name that is to be unlinked is still there.
TypeOK ==
  /\ DOMAIN files \subseteq Paths
  /\ \A p \in DOMAIN files : files[p] \in Contents
  /\ op = NoOp \/ /\ op.kind \in Kinds
                  /\ op.todo \in Seq(Writes) /\ op.done \in Seq(Writes)
                  /\ op.unlinks \in Seq(Paths)
                  /\ op.rolling \in BOOLEAN /\ op.spoilt \in BOOLEAN
                  /\ Range(op.unlinks) \subseteq DOMAIN files
  /\ faults \in 0..MaxFaults
  /\ scan \in [at : {"idle", "tasks", "completed"}, for : Births \cup {NoTask}, listed : SUBSET Paths,
               seen : BOOLEAN, excused : BOOLEAN]

NoScan == [at |-> "idle", for |-> NoTask, listed |-> {}, seen |-> FALSE, excused |-> FALSE]

Init ==
  /\ files = [p \in {} |-> 0]
  /\ op = NoOp
  /\ scan = NoScan
  /\ faults = 0

-----------------------------------------------------------------------------
(* What an operation sees when it begins. *)

\* MUTANT of Reserved: only the active tasks reserve their ids.
Reserved_ActiveOnly == {p.id : p \in Here("tasks")}

Reserved    == {p.id : p \in Tasks}              \* _reserved_task_ids
NextTaskId  == Max(Reserved \cup {0}) + 1        \* _next_task_id
NextDraftId == Max({p.id : p \in Here("drafts")} \cup {0}) + 1

\* The files get_task may return for an id: active before completed before
\* archived.  Two files with one id in one directory: which one is visible
\* depends on commit times.
Resolve(i) ==
  LET in(dir) == {p \in Here(dir) : p.id = i}
  IN  IF in("tasks") # {} THEN in("tasks")
      ELSE IF in("completed") # {} THEN in("completed") ELSE in("archive")

\* The dependency graph of one visible file for each id, with root's
\* dependencies replaced (_reject_circular_dependencies).
HasCycle(visible, root, deps) ==
  LET graph == [e \in Ids \X Ids |->
                  IF e[1] = root THEN e[2] \in deps
                  ELSE \E p \in visible : p.id = e[1] /\ e[2] \in files[p].deps]
      reach == TransitiveClosure(graph, Ids)
  IN  \E i \in Ids : (i = root \/ reach[root, i]) /\ reach[i, i]

\* MUTANT of DepsAllowed: only a task that names itself is a circle.
DepsAllowed_SelfOnly(root, deps) == deps \subseteq Reserved /\ root \notin deps

DepsAllowed(root, deps) ==
  /\ deps \subseteq Reserved
  /\ \E visible \in SUBSET Tasks :
       /\ \A p \in visible : p \in Resolve(p.id)
       /\ {p.id : p \in visible} = Reserved
       /\ Cardinality(visible) = Cardinality(Reserved)
       /\ ~HasCycle(visible, root, deps)

-----------------------------------------------------------------------------
(* File system calls. *)

Put(p, c) == files' = [q \in DOMAIN files \cup {p} |-> IF q = p THEN c ELSE files[q]]
Unlinked(p) == [q \in DOMAIN files \ {p} |-> files[q]]

\* os.replace of one path by another.
Renamed(from, to) ==
  [q \in (DOMAIN files \ {from}) \cup {to} |-> IF q = to THEN files[from] ELSE files[q]]

\* A file is written in place.
Rewrite(p, c) == [from |-> p, to |-> p, content |-> c, undo |-> files[p]]

\* A file is written under another name; the old one is unlinked later.
MoveTo(p, q, c) == [from |-> p, to |-> q, content |-> c, undo |-> files[p]]

\* A name of b goes: a reader that looks for b may miss it.
LosesSight(b) ==
  /\ scan' = [scan EXCEPT !.excused = @ \/ (scan.at # "idle" /\ b = scan.for)]
  /\ UNCHANGED faults

Begin(kind, writes, unlinks) ==
  /\ op = NoOp
  /\ op' = [kind |-> kind, before |-> files, todo |-> writes, done |-> <<>>,
            unlinks |-> unlinks, rolling |-> FALSE, spoilt |-> FALSE]
  /\ UNCHANGED <<files, scan, faults>>

-----------------------------------------------------------------------------
(* Operations, up to the first file system call. *)

Content(b, deps) == [born |-> b, deps |-> deps]
Unborn == Births \ {files[p].born : p \in DOMAIN files}

\* create_task, with an explicit or an allocated id.
CreateTask ==
  \E i \in Ids \ Reserved, s \in Slugs, b \in Unborn, deps \in DepSets :
    LET p == [dir |-> "tasks", id |-> i, slug |-> s]
        c == Content(b, deps)
    IN  /\ DepsAllowed(i, deps)
        /\ p \notin DOMAIN files
        /\ Begin("create", <<[from |-> p, to |-> p, content |-> c, undo |-> c]>>, <<>>)

\* DraftService.create_draft
CreateDraft ==
  \E s \in Slugs, b \in Unborn, deps \in SUBSET Reserved :
    LET p == [dir |-> "drafts", id |-> NextDraftId, slug |-> s]
        c == Content(b, deps)
    IN  /\ p \in Paths /\ c \in Contents
        /\ p \notin DOMAIN files
        /\ Begin("create", <<[from |-> p, to |-> p, content |-> c, undo |-> c]>>, <<>>)

\* MUTANT of EditTask: a new title leaves the old file in place.
EditTask_KeepsOldFile ==
  \E i \in Reserved, s \in Slugs : \E p \in Resolve(i) :
    LET q == [p EXCEPT !.slug = s]
    IN  /\ q = p \/ q \notin DOMAIN files
        /\ Begin("edit", <<MoveTo(p, q, files[p])>>, <<>>)

\* edit_task: dependencies and title.
EditTask ==
  \E i \in Reserved, s \in Slugs, deps \in DepSets : \E p \in Resolve(i) :
    LET q == [p EXCEPT !.slug = s]
        c == [files[p] EXCEPT !.deps = deps]
    IN  /\ deps = files[p].deps \/ DepsAllowed(i, deps)
        /\ q = p \/ q \notin DOMAIN files
        /\ Begin("edit", <<MoveTo(p, q, c)>>, IF q = p THEN <<>> ELSE <<p>>)

\* DraftService.promote_draft: the dependencies are not looked at again.
PromoteDraft ==
  \E p \in Here("drafts") :
    LET q == [p EXCEPT !.dir = "tasks", !.id = NextTaskId]
    IN  /\ q \in Paths /\ q \notin DOMAIN files
        /\ Begin("promote", <<MoveTo(p, q, files[p])>>, <<p>>)

\* DraftService.demote_task
DemoteTask ==
  \E i \in Reserved : \E p \in Resolve(i) :
    LET q == [p EXCEPT !.dir = "drafts", !.id = NextDraftId]
    IN  /\ q \in Paths /\ q \notin DOMAIN files
        /\ Begin("demote", <<MoveTo(p, q, files[p])>>, <<p>>)

Repointed(c, old, new) ==
  [c EXCEPT !.deps = {IF d = old THEN new ELSE d : d \in @}]

\* The order files are read in: directory by directory, then by name.
ScanOrders(ps) ==
  LET dirs == <<"tasks", "completed", "archive", "drafts">>
      Rank(p) == CHOOSE n \in DOMAIN dirs : dirs[n] = p.dir
  IN  {o \in SetToSeqs(ps) : \A m, n \in DOMAIN o : m < n => Rank(o[m]) <= Rank(o[n])}

\* MUTANT of Referrers: archived tasks are not repointed.
Referrers_ActiveOnly(old) == {p \in Here("tasks") : old \in files[p].deps}

Referrers(old) == {p \in Tasks \cup Here("drafts") : old \in files[p].deps}

\* renumber_task: one file carries the id; it moves, and every reference with it.
RenumberTask ==
  \E old \in Reserved, new \in Ids \ Reserved :
    LET root    == CHOOSE p \in Tasks : p.id = old
        target  == [root EXCEPT !.id = new]
        Change(p) == MoveTo(p, IF p = root THEN target ELSE p, Repointed(files[p], old, new))
    IN  /\ Cardinality({p \in Tasks : p.id = old}) = 1
        /\ target \notin DOMAIN files
        /\ \E order \in ScanOrders({root} \cup Referrers(old)) :
             Begin("renumber", [n \in DOMAIN order |-> Change(order[n])], <<root>>)

\* renumber_task with a file name: only this file changes.
RenumberFile ==
  \E p \in Tasks, new \in Ids \ Reserved :
    LET q == [p EXCEPT !.id = new]
    IN  /\ q \notin DOMAIN files
        /\ Begin("renumberFile", <<MoveTo(p, q, files[p])>>, <<p>>)

-----------------------------------------------------------------------------
(* Moves of one os.replace: they happen or they do not. *)

Move(p, dir) ==
  LET q == [p EXCEPT !.dir = dir]
  IN  /\ op = NoOp
      /\ q \notin DOMAIN files
      /\ files' = Renamed(p, q)
      /\ LosesSight(IF dir = "completed" THEN NoTask ELSE files[p].born)
      /\ UNCHANGED op

ArchiveTask  == \E i \in Reserved : \E p \in Resolve(i) : Move(p, "archive")

\* Only a task whose status is Done can be completed; which ones are is left open.
CompleteTask == \E i \in Reserved : \E p \in Resolve(i) : Move(p, "completed")
ArchiveDraft == \E p \in Here("drafts") : Move(p, "archivedDrafts")

-----------------------------------------------------------------------------
(* The file system calls of an operation. *)

End == op' = NoOp

Fault == faults < MaxFaults /\ faults' = faults + 1

AtWrite  == op # NoOp /\ ~op.rolling /\ op.todo # <<>>

\* MUTANT of AtUnlink: the old name goes without waiting for the new file.
AtUnlink_Early == op # NoOp /\ ~op.rolling /\ op.unlinks # <<>>

AtUnlink == op # NoOp /\ ~op.rolling /\ op.todo = <<>> /\ op.unlinks # <<>>
AtUndo   == op # NoOp /\ op.rolling

Write ==
  /\ AtWrite
  /\ LET w == Head(op.todo)
     IN  /\ Put(w.to, w.content)
         /\ IF Tail(op.todo) = <<>> /\ op.unlinks = <<>> THEN End
            ELSE op' = [op EXCEPT !.todo = Tail(@), !.done = Append(@, w)]
  /\ UNCHANGED <<scan, faults>>

\* A write that raises leaves the file as it was; what was written before it is
\* rolled back.
WriteFails ==
  /\ AtWrite
  /\ IF op.done = <<>> THEN End ELSE op' = [op EXCEPT !.rolling = TRUE]
  /\ UNCHANGED <<files, scan, faults>>

\* MUTANT of UndoWrite: a file written under a new name is left there.
UndoWrite_InPlaceOnly ==
  /\ AtUndo
  /\ LET w == Last(op.done)
     IN  IF w.from = w.to THEN Put(w.to, w.undo) ELSE UNCHANGED files
  /\ IF Len(op.done) = 1 THEN End ELSE op' = [op EXCEPT !.done = Front(@)]
  /\ UNCHANGED <<scan, faults>>

UndoWrite ==
  /\ AtUndo
  /\ LET w == Last(op.done)
     IN  IF w.from = w.to THEN Put(w.to, w.undo) ELSE files' = Unlinked(w.to)
  /\ IF Len(op.done) = 1 THEN End ELSE op' = [op EXCEPT !.done = Front(@)]
  /\ UNCHANGED <<scan, faults>>

UndoFails ==
  /\ AtUndo /\ Fault
  /\ IF Len(op.done) = 1 THEN End
     ELSE op' = [op EXCEPT !.done = Front(@), !.spoilt = TRUE]
  /\ UNCHANGED <<files, scan>>

\* The old name goes.  A reader that has listed it and not yet read it loses it.
Unlink ==
  /\ AtUnlink
  /\ files' = Unlinked(Head(op.unlinks))
  /\ IF Len(op.unlinks) = 1 THEN End ELSE op' = [op EXCEPT !.unlinks = Tail(@)]
  /\ LosesSight(files[Head(op.unlinks)].born)

\* An edit or a renumber raises; promote and demote log a warning and succeed.
UnlinkFails ==
  /\ AtUnlink /\ Fault
  /\ End
  /\ UNCHANGED <<files, scan>>

\* The process dies: the kernel releases the lock, the files stay as they are.
Crash ==
  /\ Fault /\ op # NoOp
  /\ End
  /\ UNCHANGED <<files, scan>>

-----------------------------------------------------------------------------
(* A reader: _load_tasks_from_dir lists a directory and then reads the files   *)
(* one by one, skipping one that is gone; tasks/ first, then completed/.       *)

\* MUTANT of FirstDir: completed/ is scanned first.
FirstDir_Completed == "completed"

FirstDir == "tasks"
NextDir(dir) == IF dir = "tasks" THEN "completed" ELSE "tasks"

Listing(dir, b) == {p \in Here(dir) : files[p].born = b}

ScanBegin ==
  /\ scan.at = "idle"
  /\ \E b \in Watched :
       /\ Listing("tasks", b) \cup Listing("completed", b) # {}
       /\ scan' = [at |-> FirstDir, for |-> b, listed |-> Listing(FirstDir, b),
                   seen |-> FALSE, excused |-> FALSE]
  /\ UNCHANGED <<files, op, faults>>

ScanRead ==
  /\ scan.at # "idle"
  /\ \E p \in scan.listed :
       scan' = [scan EXCEPT !.listed = @ \ {p},
                  !.seen = @ \/ (p \in DOMAIN files /\ files[p].born = scan.for)]
  /\ UNCHANGED <<files, op, faults>>

ScanNextDir ==
  /\ scan.at = FirstDir /\ scan.listed = {}
  /\ scan' = [scan EXCEPT !.at = NextDir(FirstDir), !.listed = Listing(NextDir(FirstDir), scan.for)]
  /\ UNCHANGED <<files, op, faults>>

ScanEnd ==
  /\ scan.at = NextDir(FirstDir) /\ scan.listed = {}
  /\ scan' = NoScan
  /\ UNCHANGED <<files, op, faults>>

Next ==
  \/ CreateTask \/ CreateDraft \/ EditTask \/ PromoteDraft \/ DemoteTask
  \/ RenumberTask \/ RenumberFile
  \/ ArchiveTask \/ CompleteTask \/ ArchiveDraft
  \/ Write \/ WriteFails \/ UndoWrite \/ UndoFails \/ Unlink \/ UnlinkFails \/ Crash
  \/ ScanBegin \/ ScanRead \/ ScanNextDir \/ ScanEnd

Spec == Init /\ [][Next]_vars

-----------------------------------------------------------------------------
(* Properties. *)

\* An operation ends without a fault: it succeeds (or its first write fails and
\* nothing has happened), or everything it wrote has been rolled back.
Ends       == op # NoOp /\ op' = NoOp /\ faults' = faults
Succeeds   == Ends /\ ~op.rolling
RolledBack == Ends /\ op.rolling /\ ~op.spoilt

Lineages(fs) == {fs[p].born : p \in DOMAIN fs}

\* No step, of an operation that succeeds, fails, is rolled back or dies half-way,
\* removes the last file of a task (write then unlink, repository.py:817-819,
\* drafts.py:161-166).
NothingLost == [][Lineages(files) \subseteq Lineages(files')]_vars

\* Two files with one id are always the same task, also after crashes, failed
\* unlinks, demotions that free an id and promotions that allocate one
\* (repository.py:216-230, 1161-1170).
IdsNameOneTask ==
  \A p, q \in Tasks : p.id = q.id => files[p].born = files[q].born

Duplicated(fs) == {i \in Ids : Cardinality({p \in DOMAIN fs : p.dir \in Lookup /\ p.id = i}) > 1}

\* An operation that reports success leaves no id on two files that was not
\* before it (repository.py:817-819, 1235-1237).
SuccessAddsNoDuplicate ==
  [][Succeeds => Duplicated(files') \subseteq Duplicated(op.before)]_vars

\* An operation whose write fails, and whose rollback does not, changes nothing
\* (repository.py:1205-1234).
FailedWriteChangesNothing ==
  [][RolledBack => files' = op.before]_vars

Edges(fs) ==
  {e \in Births \X Births : \E p, q \in DOMAIN fs :
     /\ e = <<fs[p].born, fs[q].born>>
     /\ p.dir # "archivedDrafts"
     /\ q.dir \in Lookup /\ q.id \in fs[p].deps}

\* A renumbering leaves every task depending on the tasks it depended on: active,
\* completed and archived tasks and drafts.  So does the renumbering of a file,
\* if another one keeps its id.  An archived draft is never read again (repository.py:1040-1048, 1084-1137).
RenumberKeepsReferences ==
  [][Succeeds
       /\ \/ op.kind = "renumber"
          \/ op.kind = "renumberFile" /\ Head(op.unlinks).id \in Duplicated(op.before)
     => Edges(op.before) \subseteq Edges(files')]_vars

\* A scan misses a task only if it was renamed, archived or demoted meanwhile: a
\* task completed meanwhile is found in one of the two directories
\* (repository.py:358-362, 434-469).
ScanFindsTask ==
  [][scan.at # "idle" /\ scan'.at = "idle" => scan.seen \/ scan.excused]_vars

Acyclic(fs) ==
  LET graph == [e \in Ids \X Ids |->
                  \E p \in DOMAIN fs : p.dir \in Lookup /\ p.id = e[1] /\ e[2] \in fs[p].deps]
      reach == TransitiveClosure(graph, Ids)
  IN  \A i \in Ids : ~reach[i, i]

\* Creating and editing tasks closes no circle of dependencies, through completed
\* and archived tasks and ids that no file carries for the moment
\* (repository.py:570, 674, 2000-2031).
ChecksKeepAcyclic ==
  [][Succeeds /\ op.kind \in {"create", "edit"}
       /\ Acyclic(op.before) /\ Duplicated(op.before) = {} => Acyclic(files')]_vars

\* No task waits for itself, directly or through others: the checks of
\* create_task and edit_task see to it (repository.py:570, 674).
DependenciesAcyclic == op = NoOp => Acyclic(files)
=============================================================================
