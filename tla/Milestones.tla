----------------------------- MODULE Milestones -----------------------------
(***************************************************************************)
(* Milestone files (src/backlog_py/core/milestones.py): adding, editing,   *)
(* removing and archiving a milestone, as file system calls that may fail, *)
(* with their verification and rollback.  Operations hold the project      *)
(* write lock, so one runs at a time; a program that knows no lock may put *)
(* a file of its own where a milestone is about to be published.           *)
(*                                                                         *)
(* The program compares inode and bytes of what it has published; here a   *)
(* content does for both, since a foreign file never has that of a         *)
(* milestone.  A check and the unlink right behind it are one step.        *)
(***************************************************************************)
EXTENDS Integers, FiniteSets, TLC

CONSTANTS Births,    \* milestones
          Titles,    \* titles; one that is a number is also an alias of an id
          Tasks,     \* files in tasks/
          MaxId,     \* bound on ids
          MaxFaults, \* bound on failing calls, deaths and foreign files
          Foreign, NoRef, NoOp

VARIABLES file,      \* file[p]: the content of each path p there is
          ref,       \* ref[t]: the milestone field of task t
          op,        \* the operation that holds the lock
          gone,      \* milestones that were removed, or whose restoration failed
          faults,
          tidy       \* no death and no failed rollback so far

vars == <<file, ref, op, gone, faults, tidy>>

\* A legacy milestone has no id (0): its file is named after its title.
Path    == [dir : {"active", "archive"}, id : 0..MaxId, stem : Titles]
Content == [born : Births, id : 0..MaxId, title : Titles, text : {0, 1}]

Known(fs)       == {p \in DOMAIN fs : fs[p] # Foreign}
Within(dir, fs) == {p \in Known(fs) : p.dir = dir}

\* A reference is a title, or n for the number of an id, or -n for "m-n".
Ids(n) == {n, -n}

\* _milestone_aliases: the id, its number, the title and the name of the file
\* (of a current milestone that is the id again).
Aliases(p, fs) == {fs[p].title} \cup IF fs[p].id = 0 THEN {p.stem} ELSE Ids(fs[p].id)

Matching(r, ps, fs) == {p \in ps : r \in Aliases(p, fs)}

\* Ids in file names and in front matter, active and archived.
Reserved == {p.id : p \in DOMAIN file} \cup {file[p].id : p \in Known(file)}

NextId == LET n == CHOOSE n \in {0} \cup Reserved : \A m \in Reserved : m <= n IN n + 1

AliasesFree(as, p) ==
  \A q \in Within("active", file) \ {p} : as \cap Aliases(q, file) = {}

Init ==
  /\ \/ file = [p \in {} |-> Foreign]
     \/ \E b \in Births, t \in Titles :
          file = [dir |-> "active", id |-> 0, stem |-> t]
                 :> [born |-> b, id |-> 0, title |-> t, text |-> 0]
  /\ ref = [t \in Tasks |-> NoRef]
  /\ op = NoOp /\ gone = {} /\ faults = 0 /\ tidy = TRUE

Put(p, content) == file' = (p :> content) @@ file
Drop(p)         == file' = [q \in DOMAIN file \ {p} |-> file[q]]
Exists(p)       == p \in DOMAIN file
Holds(p, content) == Exists(p) /\ file[p] = content

Idle  == op = NoOp
Added == gone \cup {file[p].born : p \in Known(file)}

AddMilestone(b, t) ==
  /\ Idle /\ b \notin Added /\ NextId <= MaxId
  /\ LET p == [dir |-> "active", id |-> NextId, stem |-> t] IN
       /\ AliasesFree(Ids(NextId) \cup {t}, p)
       /\ Put(p, [born |-> b, id |-> NextId, title |-> t, text |-> 0])
  /\ UNCHANGED <<ref, op, gone, faults, tidy>>

\* A task is assigned an active milestone, under any of its names.
Assign(t) ==
  /\ Idle
  /\ \E p \in Within("active", file) : \E r \in Aliases(p, file) :
       /\ Cardinality(Matching(r, Within("active", file), file)) = 1
       /\ ref' = [ref EXCEPT ![t] = r]
  /\ UNCHANGED <<file, op, gone, faults, tidy>>

Refers(t, p) == ref[t] # NoRef /\ Matching(ref[t], Known(file), file) = {p}

\* _task_reference_updates: a reference that matches nothing else is replaced,
\* but for one that is the id already.
References(p, new) ==
  [t \in {u \in Tasks : Refers(u, p) /\ (new = NoRef \/ file[p].id = 0 \/ ref[u] \notin Ids(file[p].id))} |-> new]

NoUpdates == [t \in {} |-> NoRef]

\* "asked" is whether the caller has asked for the tasks' references to follow.
Begin(kind, src, dst, new, asked, updates) ==
  /\ Idle
  /\ op' = [kind |-> kind, pc |-> IF kind = "archive" THEN "link"
                                  ELSE IF kind = "remove" THEN "tasks" ELSE "write",
            src |-> src, dst |-> dst, old |-> file[src], new |-> new,
            asked |-> asked, updates |-> IF asked THEN updates ELSE NoUpdates,
            done |-> {}, moved |-> FALSE, clean |-> TRUE,
            file0 |-> file, ref0 |-> ref]
  /\ UNCHANGED <<file, ref, gone, faults, tidy>>

\* A reference resolves to one active milestone.
Chosen(p) ==
  /\ p \in Within("active", file)
  /\ \E r \in Aliases(p, file) : Matching(r, Within("active", file), file) = {p}

EditMilestone(p) ==
  /\ Chosen(p)
  /\ \E t \in Titles, retitled, update \in BOOLEAN :
       LET new == IF retitled THEN [file[p] EXCEPT !.title = t, !.text = 1 - @]
                  ELSE [file[p] EXCEPT !.text = 1 - @]
           dst == IF retitled THEN [p EXCEPT !.id = new.id, !.stem = t] ELSE p
           own == {t} \cup IF new.id = 0 THEN {} ELSE Ids(new.id) IN
         /\ ~retitled => t = file[p].title
         /\ retitled => AliasesFree(own, p) /\ (dst = p \/ dst \notin DOMAIN file)
         /\ Begin("edit", p, dst, new, update,
                  References(p, IF new.id = 0 THEN new.title ELSE -new.id))

RemoveMilestone(p) ==
  /\ Chosen(p)
  /\ \E clear \in BOOLEAN : Begin("remove", p, p, file[p], clear, References(p, NoRef))

ArchiveMilestone(p) ==
  /\ Chosen(p)
  /\ LET dst == [p EXCEPT !.dir = "archive"] IN
       dst \notin DOMAIN file /\ Begin("archive", p, dst, file[p], FALSE, NoUpdates)

-----------------------------------------------------------------------------
(* The calls of an operation, in order. *)

At(pc)   == ~Idle /\ op.pc = pc
Goto(pc) == op' = [op EXCEPT !.pc = pc]

\* A call raises instead of doing its work.
Fault  == faults < MaxFaults /\ faults' = faults + 1

AfterTasks == CASE op.kind = "remove" -> "delete"
                [] op.kind = "edit" /\ op.src = op.dst -> "check"
                [] OTHER -> "link"

\* _atomic_write_text of the milestone under its old name.
Write ==
  /\ At("write")
  /\ \/ Put(op.src, op.new) /\ Goto("tasks") /\ UNCHANGED faults
     \/ Fault /\ Goto("undo tasks") /\ UNCHANGED file
  /\ UNCHANGED <<ref, gone, tidy>>

\* _write_task_updates: a task is noted as written before it is.
WriteTask ==
  /\ At("tasks") /\ op.done # DOMAIN op.updates
  /\ \E t \in DOMAIN op.updates \ op.done :
       \/ /\ ref' = [ref EXCEPT ![t] = op.updates[t]]
          /\ op' = [op EXCEPT !.done = @ \cup {t}]
          /\ UNCHANGED faults
       \/ Fault /\ op' = [op EXCEPT !.done = @ \cup {t}, !.pc = "undo tasks"] /\ UNCHANGED ref
  /\ UNCHANGED <<file, gone, tidy>>

TasksWritten ==
  /\ At("tasks") /\ op.done = DOMAIN op.updates
  /\ Goto(AfterTasks)
  /\ UNCHANGED <<file, ref, gone, faults, tidy>>

\* remove_milestone unlinks last.
Delete ==
  /\ At("delete")
  /\ \/ Drop(op.src) /\ gone' = gone \cup {op.old.born} /\ Goto("done") /\ UNCHANGED faults
     \/ Fault /\ Goto("undo tasks") /\ UNCHANGED <<file, gone>>
  /\ UNCHANGED <<ref, tidy>>

\* Mutant: the milestone is renamed over whatever is there.
Link_Clobbers ==
  /\ At("link")
  /\ Put(op.dst, file[op.src]) /\ Goto("unlink")
  /\ UNCHANGED <<ref, gone, faults, tidy>>

\* _move_no_clobber: the new name, which must be free.
Link ==
  /\ At("link")
  /\ \/ ~Exists(op.dst) /\ Put(op.dst, file[op.src]) /\ Goto("unlink") /\ UNCHANGED faults
     \/ Exists(op.dst) /\ Goto("undo tasks") /\ UNCHANGED <<file, faults>>
     \/ Fault /\ Goto("undo tasks") /\ UNCHANGED file
  /\ UNCHANGED <<ref, gone, tidy>>

\* The old name, once both are seen to be the same file.
Unlink ==
  /\ At("unlink")
  /\ \/ /\ Holds(op.dst, file[op.src])
        /\ Drop(op.src) /\ op' = [op EXCEPT !.pc = "check", !.moved = TRUE]
        /\ UNCHANGED faults
     \/ ~Holds(op.dst, file[op.src]) /\ Goto("undo link") /\ UNCHANGED <<file, faults>>
     \/ Fault /\ Goto("undo link") /\ UNCHANGED file
  /\ UNCHANGED <<ref, gone, tidy>>

\* _load_milestone and _assert_published_milestone.
CheckMilestone ==
  /\ At("check")
  /\ \/ Holds(op.dst, op.new) /\ Goto("done") /\ UNCHANGED faults
     \/ ~Holds(op.dst, op.new) /\ Goto("undo tasks") /\ UNCHANGED faults
     \/ Fault /\ Goto("undo tasks")
  /\ UNCHANGED <<file, ref, gone, tidy>>

-----------------------------------------------------------------------------
(* Rollback: each step that fails is logged and left out. *)

Unclean(pc) == Fault /\ op' = [op EXCEPT !.pc = pc, !.clean = FALSE] /\ tidy' = FALSE
Clean(pc)   == Goto(pc) /\ UNCHANGED <<faults, tidy>>

\* _remove_created_link: the new name, if it is still ours.
UndoLink ==
  /\ At("undo link")
  /\ \/ /\ IF Holds(op.dst, op.new) THEN Drop(op.dst) ELSE UNCHANGED file
        /\ Clean("undo tasks")
     \/ Unclean("undo tasks") /\ UNCHANGED file
  /\ UNCHANGED <<ref, gone>>

UndoTask ==
  /\ At("undo tasks") /\ op.done # {}
  /\ \E t \in op.done :
       \/ /\ ref' = [ref EXCEPT ![t] = op.ref0[t]]
          /\ op' = [op EXCEPT !.done = @ \ {t}]
          /\ UNCHANGED <<faults, tidy>>
       \/ /\ Fault /\ tidy' = FALSE /\ UNCHANGED ref
          /\ op' = [op EXCEPT !.done = @ \ {t}, !.clean = FALSE]
  /\ UNCHANGED <<file, gone>>

\* The old name is there: an edit writes the old content back over the new.
TasksUndone ==
  /\ At("undo tasks") /\ op.done = {}
  /\ Goto(IF Exists(op.src)
          THEN IF op.kind = "edit" /\ Holds(op.src, op.new) THEN "undo write" ELSE "failed"
          ELSE "back")
  /\ UNCHANGED <<file, ref, gone, faults, tidy>>

UndoWrite ==
  /\ At("undo write")
  /\ \/ Put(op.src, op.old) /\ Clean("failed")
     \/ Unclean("failed") /\ UNCHANGED file
  /\ UNCHANGED <<ref, gone>>

\* The old name is gone.  The new one is ours: move it back, whose failure leads
\* to the restoration.
BackLink ==
  /\ At("back") /\ op.moved /\ Holds(op.dst, op.new)
  /\ \/ Put(op.src, op.new) /\ Clean("back unlink")
     \/ Unclean("discard") /\ UNCHANGED file
  /\ UNCHANGED <<ref, gone>>

BackIsForeign ==
  /\ At("back") /\ ~(op.moved /\ Holds(op.dst, op.new))
  /\ Goto("restore")
  /\ UNCHANGED <<file, ref, gone, faults, tidy>>

BackUnlink ==
  /\ At("back unlink")
  /\ \/ /\ Holds(op.dst, op.new) /\ Drop(op.dst)
        /\ Clean(IF op.kind = "edit" THEN "undo write" ELSE "failed")
     \/ /\ ~Holds(op.dst, op.new) /\ UNCHANGED file
        /\ Clean("back undo")
     \/ Unclean("back undo") /\ UNCHANGED file
  /\ UNCHANGED <<ref, gone>>

\* _remove_created_link of the way back.
BackUndo ==
  /\ At("back undo")
  /\ \/ /\ IF Holds(op.src, op.new) THEN Drop(op.src) ELSE UNCHANGED file
        /\ Clean("discard")
     \/ Unclean("discard") /\ UNCHANGED file
  /\ UNCHANGED <<ref, gone>>

\* _unlink_published_milestone.
DiscardTarget ==
  /\ At("discard")
  /\ \/ /\ IF Holds(op.dst, op.new) THEN Drop(op.dst) ELSE UNCHANGED file
        /\ Clean("restore")
     \/ Unclean("restore") /\ UNCHANGED file
  /\ UNCHANGED <<ref, gone>>

\* _restore_no_clobber links a copy of the old content to the old name.
Restore ==
  /\ At("restore")
  /\ \/ /\ IF ~Exists(op.src) THEN Put(op.src, op.old) ELSE UNCHANGED file
        /\ Clean("failed") /\ UNCHANGED gone
     \/ /\ Unclean("failed") /\ UNCHANGED file
        /\ gone' = gone \cup {op.old.born}
  /\ UNCHANGED ref

End ==
  /\ At("done") \/ At("failed")
  /\ op' = NoOp
  /\ UNCHANGED <<file, ref, gone, faults, tidy>>

\* The only copy of a milestone is the one its restoration would write.
InMemory(b) ==
  /\ ~Idle /\ op.old.born = b /\ \A p \in Known(file) : file[p].born # b
  /\ op.pc \in {"discard", "restore"} \/ Holds(op.dst, Foreign)

Crash ==
  /\ ~Idle /\ op.pc \notin {"done", "failed"} /\ Fault
  /\ op' = NoOp /\ tidy' = FALSE
  /\ gone' = gone \cup {b \in {op.old.born} : InMemory(b)}
  /\ UNCHANGED <<file, ref>>

\* Another program creates or replaces the file at the new name.
ForeignFile ==
  /\ ~Idle /\ op.src # op.dst /\ ~Holds(op.dst, Foreign) /\ Fault
  /\ op.pc \notin {"done", "failed"}
  /\ Put(op.dst, Foreign)
  /\ UNCHANGED <<ref, op, gone, tidy>>

Next ==
  \/ \E b \in Births, t \in Titles : AddMilestone(b, t)
  \/ \E t \in Tasks : Assign(t)
  \/ \E p \in DOMAIN file : EditMilestone(p) \/ RemoveMilestone(p) \/ ArchiveMilestone(p)
  \/ Write \/ WriteTask \/ TasksWritten \/ Delete \/ Link \/ Unlink \/ CheckMilestone
  \/ UndoLink \/ UndoTask \/ TasksUndone \/ UndoWrite
  \/ BackLink \/ BackIsForeign \/ BackUnlink \/ BackUndo \/ DiscardTarget \/ Restore
  \/ End \/ Crash \/ ForeignFile

Spec == Init /\ [][Next]_vars

-----------------------------------------------------------------------------
(* Properties. *)

MilestonesTypeOK ==
  /\ DOMAIN file \subseteq Path
  /\ \A p \in DOMAIN file : file[p] \in Content \cup {Foreign}
  /\ ref \in [Tasks -> {NoRef} \cup -MaxId..MaxId \cup Titles]

Homes(b) == {p \in Known(file) : file[p].born = b}

\* No milestone is lost but by a removal, by the failure of its restoration or
\* by a death that leaves no time for it, and a foreign file stays where it was
\* put: whatever fails, dies or gets in between the link and the unlink.
KeepsMilestones ==
  /\ \A b \in Births :
       Homes(b) # {} \/ InMemory(b) => \/ (Homes(b) # {})' \/ InMemory(b)'
                                       \/ b \in gone'
  /\ \A p \in DOMAIN file : file[p] = Foreign => p \in DOMAIN file' /\ file'[p] = Foreign
MilestonesKept == [][KeepsMilestones]_vars

\* An operation that raises, and whose rollback does not, leaves the milestones
\* and every task's reference as they were.
FailureRestores ==
  At("failed") /\ op.clean =>
    /\ ref = op.ref0
    /\ DOMAIN op.file0 \subseteq DOMAIN file
    /\ \A p \in DOMAIN file : file[p] # Foreign => p \in DOMAIN op.file0 /\ file[p] = op.file0[p]

\* As long as nothing is left over: whoever named the milestone names it after
\* an archiving, and among the active ones after an edit that updates tasks,
\* nobody does after a removal that clears tasks, and what named another active
\* one still does.
ReferencesFollow ==
  At("done") /\ tidy =>
    \A t \in Tasks :
      LET was == Matching(op.ref0[t], Known(op.file0), op.file0)
          now == Matching(ref[t], Within("active", file), file) IN
        /\ was = {op.src} =>
             CASE op.kind = "archive" -> Matching(ref[t], Known(file), file) = {op.dst}
               [] op.kind = "edit"    -> op.asked => now = {op.dst}
               [] op.kind = "remove"  -> op.asked => ref[t] = NoRef
        /\ \A q \in Within("active", op.file0) \ {op.src} : was = {q} => now = {q}

\* An id is of one milestone, active or archived, also after deaths; and as
\* long as nothing is left over, a name is of one active milestone.
NamesOneMilestone ==
  /\ \A p, q \in Known(file) :
       file[p].id = file[q].id /\ file[p].id # 0 => file[p].born = file[q].born
  /\ Idle /\ tidy =>
       \A p, q \in Within("active", file) :
         p # q => Aliases(p, file) \cap Aliases(q, file) = {}
=============================================================================
