-------------------------------- MODULE Tui --------------------------------
(***************************************************************************)
(* The terminal board (src/backlog_py/tui): an application whose messages  *)
(* are handled one at a time, and threads that load the board and carry    *)
(* out what the user asks for, through the daemon or on the files, while   *)
(* other programs change the same tasks.                                   *)
(*                                                                         *)
(* Starting an exclusive thread, as every load and every editor is,        *)
(* cancels the application's other threads: they run on, but what becomes  *)
(* of them is not heard.  The cards of a column are in the order of their  *)
(* numbers, the filter is one on the status, and the keys pressed in a     *)
(* dialog are the dialog's.                                                *)
(***************************************************************************)
EXTENDS Integers, Sequences, FiniteSets

CONSTANTS Cards,      \* number of tasks there may be
          Spare,      \* those of them that may be created
          Last,       \* number of columns
          Deps,       \* Deps[t]: dependencies of task t, in order
          Sources,    \* where the board may come from at first
          Dialogs,    \* the dialogs a user may open
          Filters,    \* the filters a user may set
          MaxChanges, \* bound on changes by other programs
          MaxJobs,    \* bound on what a user asks for
          MaxJumps,   \* bound on the jumps that can be taken back
          MaxQueue    \* bound on messages

VARIABLES disk,   \* disk[t]: column of task t
          source, \* "daemon" or "local"
          load,   \* the thread that loads the board
          jobs,   \* threads that change tasks
          queue,  \* messages of the application
          app,    \* what it shows and keeps
          jump,   \* what it keeps for jumps along dependencies
          changes

\* What is assumed of them.
TuiAssumption == Sources \subseteq {"daemon", "local"}

tuiVars == <<disk, source, load, jobs, queue, app, jump, changes>>

Tasks   == 1..Cards
Columns == 1..Last
None    == 0                     \* no task, no column, no filter
Snap    == [column : [Tasks -> 0..Last], status : [Tasks -> 0..Last]]
Blank   == [column |-> [t \in Tasks |-> None], status |-> [t \in Tasks |-> None]]
NoSnap  == <<>>
NoLoad  == <<>>
NoDialog == <<>>
Nothing == [task |-> None, column |-> None, row |-> 1]

-----------------------------------------------------------------------------
(* What is visible.                                                        *)

Matches(b, f, t) == b.column[t] # None /\ f \in {None, b.status[t]}

\* filter_snapshot
Visible(b, f)  == IF b = NoSnap THEN {} ELSE {t \in Tasks : Matches(b, f, t)}
Shown(b, f, c) == SelectSeq([t \in Tasks |-> t], LAMBDA t : Matches(b, f, t) /\ b.column[t] = c)

Clamp(n, low, high) == IF n < low THEN low ELSE IF n > high THEN high ELSE n

At(b, f, c, row) ==
  LET tasks == Shown(b, f, c)
      r     == Clamp(row, 1, Len(tasks)) IN
    [task |-> tasks[r], column |-> c, row |-> r]

\* _find_task_selection
Where(b, f, t) ==
  LET c == b.column[t] IN
    [task |-> t, column |-> c, row |-> CHOOSE r \in DOMAIN Shown(b, f, c) : Shown(b, f, c)[r] = t]

\* The first full column from c on, to the right or to the left.
NextFull(b, f, c, delta) ==
  LET full == {d \in Columns : (IF delta > 0 THEN d > c ELSE d < c) /\ Shown(b, f, d) # <<>>} IN
    IF full = {} THEN None
    ELSE CHOOSE d \in full : \A e \in full : IF delta > 0 THEN d <= e ELSE d >= e

\* select_after_refresh, _first_selection
SelectAfterRefresh(b, f, old) ==
  LET right == NextFull(b, f, old.column, 1)
      left  == NextFull(b, f, old.column, -1) IN
    CASE old.task \in Visible(b, f) -> Where(b, f, old.task)
      [] old.task \notin Visible(b, f) /\ old.column # None /\ Shown(b, f, old.column) # <<>> ->
           At(b, f, old.column, old.row)
      [] OTHER -> IF right # None THEN At(b, f, right, 1)
                  ELSE IF left # None THEN At(b, f, left, 1) ELSE Nothing

\* _selected_task
Selected == IF app.selection.task \in Visible(app.board, app.filter) THEN app.selection.task ELSE None

-----------------------------------------------------------------------------
(* Threads.                                                                *)

Job == [op : {"move", "archive", "create", "edit", "settings", "editor"}, task : 0..Cards, to : 0..Last,
        phase : {"running", "carried", "done", "failed"}, heard : BOOLEAN, carried : Nat]

Ask(op, t, c) == [op |-> op, task |-> t, to |-> c, phase |-> "running", heard |-> TRUE, carried |-> 0]

Busy(j)   == jobs[j].phase \in {"running", "carried"}
Cancelled == [j \in DOMAIN jobs |-> IF Busy(j) THEN [jobs[j] EXCEPT !.heard = FALSE] ELSE jobs[j]]

\* The application waits for an editor it has started.
Free == \A j \in DOMAIN jobs : ~(jobs[j].op = "editor" /\ Busy(j) /\ jobs[j].heard)

Starting == [phase |-> "start", snap |-> Blank, left |-> {}]

\* refresh_board: the load cancels what runs.
Refresh == load' = Starting /\ jobs' = Cancelled

Post(m) == queue' = Append(queue, m)

TuiInit ==
  /\ disk \in {d \in [Tasks -> 0..Last] : \A t \in Tasks : t \in Spare <=> d[t] = None}
  /\ source \in Sources
  /\ load = Starting /\ jobs = <<>> /\ queue = <<>> /\ changes = 0
  /\ app = [board |-> NoSnap, filter |-> None, selection |-> Nothing, dialog |-> NoDialog,
            deferred |-> NoSnap, reselect |-> None]
  /\ jump = [history |-> <<>>, dependency |-> None, dependent |-> None]

\* Another program moves or archives a task.
Change ==
  /\ changes < MaxChanges /\ changes' = changes + 1
  /\ \E t \in Tasks, c \in 0..Last : disk[t] \notin {None, c} /\ disk' = [disk EXCEPT ![t] = c]
  /\ UNCHANGED <<source, load, jobs, queue, app, jump>>

\* The timer, or the key r.
Tick ==
  /\ Len(queue) < MaxQueue
  /\ Refresh
  /\ UNCHANGED <<disk, source, queue, app, jump, changes>>

\* The columns are read; the daemon is then asked for each task.
LoadColumns ==
  /\ load # NoLoad /\ load.phase = "start"
  /\ LET snap == [column |-> disk, status |-> IF source = "local" THEN disk ELSE Blank.status] IN
       IF source = "local"
         THEN load' = NoLoad /\ Post([kind |-> "board", snap |-> snap])
         ELSE /\ load' = [phase |-> "views", snap |-> snap, left |-> {t \in Tasks : disk[t] # None}]
              /\ UNCHANGED queue
  /\ UNCHANGED <<disk, source, jobs, app, jump, changes>>

LoadView ==
  /\ load # NoLoad /\ load.phase = "views"
  /\ IF load.left = {}
       THEN load' = NoLoad /\ Post([kind |-> "board", snap |-> load.snap])
       ELSE LET t == CHOOSE u \in load.left : \A v \in load.left : u <= v IN
              IF disk[t] = None
                THEN load' = NoLoad /\ Post([kind |-> "daemonError"])
                ELSE /\ load' = [load EXCEPT !.left = @ \ {t}, !.snap.status[t] = disk[t]]
                     /\ UNCHANGED queue
  /\ UNCHANGED <<disk, source, jobs, app, jump, changes>>

\* The daemon does not answer, or a file cannot be read.
LoadFails ==
  /\ load # NoLoad
  /\ load' = NoLoad
  /\ Post([kind |-> IF load.phase = "views" \/ source = "daemon" THEN "daemonError" ELSE "error"])
  /\ UNCHANGED <<disk, source, jobs, app, jump, changes>>

\* A thread changes its task, through the source there is now.
Carry(j) ==
  /\ jobs[j].phase = "running"
  /\ \E t \in 0..Cards :
       /\ CASE jobs[j].op = "create"   -> t \in Spare /\ \A k \in DOMAIN jobs : jobs[k].task # t
            [] jobs[j].op = "settings" -> t = None
            [] OTHER                   -> t = jobs[j].task /\ disk[t] # None
       /\ jobs' = [jobs EXCEPT ![j].task = t, ![j].phase = "carried", ![j].carried = @ + 1]
       /\ disk' = IF t = None THEN disk ELSE [disk EXCEPT ![t] = jobs[j].to]
  /\ UNCHANGED <<source, load, queue, app, jump, changes>>

\* Mutant: what the daemon has failed to do is done on the files.
End_Retries(j, phase) ==
  /\ Busy(j) /\ (phase = "done" => jobs[j].phase = "carried")
  /\ LET again == phase = "failed" /\ source = "daemon" IN
       /\ jobs' = [jobs EXCEPT ![j].phase = IF again THEN "running" ELSE phase]
       /\ source' = IF again THEN "local" ELSE source
       /\ IF jobs[j].heard /\ ~again THEN Post([kind |-> phase, job |-> j]) ELSE UNCHANGED queue
  /\ UNCHANGED <<disk, load, app, jump, changes>>

\* It ends; a thread that is not heard ends in silence.  What was carried out
\* may fail all the same: the daemon's answer is lost, or the task's view
\* cannot be built.
End(j, phase) ==
  /\ Busy(j) /\ (phase = "done" => jobs[j].phase = "carried")
  /\ jobs' = [jobs EXCEPT ![j].phase = phase]
  /\ IF jobs[j].heard THEN Post([kind |-> phase, job |-> j]) ELSE UNCHANGED queue
  /\ UNCHANGED <<disk, source, load, app, jump, changes>>

-----------------------------------------------------------------------------
(* The application.                                                        *)

\* Mutant: a board is shown under a dialog.
Apply_UnderDialog(b) ==
  LET old == IF app.reselect = None THEN app.selection ELSE [app.selection EXCEPT !.task = app.reselect] IN
    app' = [app EXCEPT !.board = b, !.reselect = None,
                       !.selection = SelectAfterRefresh(b, app.filter, old)]

\* _apply_snapshot
Apply(b) ==
  LET old == IF app.reselect = None THEN app.selection ELSE [app.selection EXCEPT !.task = app.reselect] IN
    app' = IF app.dialog # NoDialog THEN [app EXCEPT !.deferred = b]
           ELSE [app EXCEPT !.board = b, !.reselect = None,
                            !.selection = SelectAfterRefresh(b, app.filter, old)]

\* on_worker_state_changed, and what was put off with call_later.
Handle ==
  /\ Free /\ queue # <<>> /\ queue' = Tail(queue)
  /\ LET m == Head(queue) IN
       CASE m.kind = "board" -> Apply(m.snap) /\ UNCHANGED <<source, load, jobs>>
         [] m.kind = "daemonError" -> source' = "local" /\ Refresh /\ UNCHANGED app
         [] m.kind = "error" -> UNCHANGED <<source, load, jobs, app>>
         [] m.kind = "failed" -> Refresh /\ UNCHANGED <<source, app>>
         [] m.kind = "done" ->
              /\ Refresh /\ UNCHANGED source
              /\ app' = IF jobs[m.job].op \in {"settings", "editor"} THEN app
                        ELSE [app EXCEPT !.reselect = jobs[m.job].task]
         [] m.kind = "editor" ->
              /\ Len(jobs) < MaxJobs
              /\ jobs' = Append(Cancelled, Ask("editor", m.task, m.to)) /\ load' = NoLoad
              /\ UNCHANGED <<source, app>>
  /\ UNCHANGED <<disk, jump, changes>>

Showing  == Free /\ app.board # NoSnap /\ app.dialog = NoDialog
Unjumped == [jump EXCEPT !.dependency = None, !.dependent = None]
Select(t) == app' = [app EXCEPT !.selection = Where(app.board, app.filter, t)]

MoveColumns(delta) ==
  LET s == app.selection
      c == NextFull(app.board, app.filter, IF s.column = None THEN 1 ELSE s.column, delta) IN
    /\ Showing /\ c # None
    /\ app' = [app EXCEPT !.selection = At(app.board, app.filter, c, s.row)]
    /\ UNCHANGED <<disk, source, load, jobs, queue, jump, changes>>

MoveRows(delta) ==
  LET s == app.selection IN
    /\ Showing /\ s.column # None /\ Shown(app.board, app.filter, s.column) # <<>>
    /\ app' = [app EXCEPT !.selection = At(app.board, app.filter, s.column, s.row + delta)]
    /\ UNCHANGED <<disk, source, load, jobs, queue, jump, changes>>

\* select_task: a click on a card.
SelectTask(t) ==
  /\ Showing /\ t \in Visible(app.board, app.filter)
  /\ Select(t) /\ jump' = Unjumped
  /\ UNCHANGED <<disk, source, load, jobs, queue, changes>>

SetFilters(f) ==
  /\ Free /\ app.dialog = NoDialog
  /\ app' = [app EXCEPT !.filter = f,
               !.selection = IF app.board = NoSnap THEN @ ELSE SelectAfterRefresh(app.board, f, @)]
  /\ UNCHANGED <<disk, source, load, jobs, queue, jump, changes>>

\* _move_selected_task_to_adjacent_status
MoveSelected(delta) ==
  LET t == Selected IN
    /\ Showing /\ t # None
    /\ app.board.status[t] + delta \in Columns
    /\ Len(jobs) < MaxJobs
    /\ jobs' = Append(jobs, Ask("move", t, app.board.status[t] + delta))
    /\ app' = [app EXCEPT !.reselect = t]
    /\ UNCHANGED <<disk, source, load, queue, jump, changes>>

OpenDialog(kind) ==
  /\ Free /\ app.dialog = NoDialog
  /\ kind \notin {"search", "settings"} => app.board # NoSnap
  /\ kind \notin {"search", "settings", "create"} => Selected # None
  /\ app' = [app EXCEPT !.dialog = [kind |-> kind, task |-> Selected]]
  /\ UNCHANGED <<disk, source, load, jobs, queue, jump, changes>>

\* What is done with a dialog's answer: the job it starts, and the task to
\* select afterwards.
Answer(d, c) ==
  CASE d.kind = "move"     -> Ask("move", app.selection.task, c)
    [] d.kind = "archive"  -> Ask("archive", app.selection.task, None)
    [] d.kind = "update"   -> Ask("edit", d.task, c)
    [] d.kind = "create"   -> Ask("create", None, c)
    [] d.kind = "settings" -> Ask("settings", None, None)
Reselect(j) == IF j.op \in {"move", "edit"} THEN j.task ELSE None

\* The dialog closes; the board that was put off is posted.
Closed(a) == [a EXCEPT !.dialog = NoDialog, !.deferred = NoSnap]
PutOff    == IF app.deferred = NoSnap THEN <<>> ELSE <<[kind |-> "board", snap |-> app.deferred]>>

CancelDialog ==
  /\ Free /\ app.dialog # NoDialog
  /\ app' = Closed(app) /\ queue' = queue \o PutOff
  /\ UNCHANGED <<disk, source, load, jobs, jump, changes>>

SubmitDialog(c) ==
  LET d == app.dialog IN
    /\ Free /\ d # NoDialog /\ d.kind \in {"move", "archive", "update", "create", "settings"}
    /\ (d.kind \in {"move", "archive"} => app.selection.task # None)
    /\ Len(jobs) < MaxJobs
    /\ jobs' = Append(jobs, Answer(d, c))
    /\ app' = Closed([app EXCEPT !.reselect = Reselect(Answer(d, c))])
    /\ queue' = queue \o PutOff
    /\ UNCHANGED <<disk, source, load, jump, changes>>

\* _edit_task_result
SubmitEditor(c) ==
  /\ Free /\ app.dialog # NoDialog /\ app.dialog.kind = "editor"
  /\ Len(jobs) + Len(SelectSeq(queue, LAMBDA m : m.kind = "editor")) < MaxJobs
  /\ app' = Closed([app EXCEPT !.reselect = app.dialog.task])
  /\ queue' = Append(queue, [kind |-> "editor", task |-> app.dialog.task, to |-> c]) \o PutOff
  /\ UNCHANGED <<disk, source, load, jobs, jump, changes>>

\* _global_search_result
SubmitSearch(t) ==
  /\ Free /\ app.dialog # NoDialog /\ app.dialog.kind = "search"
  /\ t \in Visible(app.board, app.filter)
  /\ app' = Closed([app EXCEPT !.selection = Where(app.board, app.filter, t)])
  /\ queue' = queue \o PutOff /\ jump' = Unjumped
  /\ UNCHANGED <<disk, source, load, jobs, changes>>

-----------------------------------------------------------------------------
(* Jumps along dependencies.                                               *)

RangeOf(s)  == {s[i] : i \in DOMAIN s}
InOrder(S)  == \* _visible_tasks_in_order
  LET Place(t) == Where(app.board, app.filter, t) IN
    SelectSeq([i \in 1..(Last * Cards) |-> LET c == 1 + ((i - 1) \div Cards) r == 1 + ((i - 1) % Cards) IN
                 IF \E t \in S : Place(t).column = c /\ Place(t).row = r
                   THEN CHOOSE t \in S : Place(t).column = c /\ Place(t).row = r ELSE None],
              LAMBDA t : t # None)

\* The one after t, round and round; the first if t is none of them.
After(s, t) == IF t \in RangeOf(s) THEN LET i == CHOOSE k \in DOMAIN s : s[k] = t IN s[1 + (i % Len(s))]
               ELSE s[1]

Record(h, from, to) == IF from # to /\ (h = <<>> \/ h[Len(h)] # from) THEN Append(h, from) ELSE h

\* Dependencies (or dependents) of `from` that are visible.
Ahead(kind, from) ==
  IF kind = "dependency"
    THEN SelectSeq(Deps[from], LAMBDA u : u \in Visible(app.board, app.filter))
    ELSE InOrder({u \in Visible(app.board, app.filter) \ {from} : from \in RangeOf(Deps[u])})

Jump(kind) ==
  LET t    == Selected
      kept == jump[kind]
      on   == /\ kept \in Visible(app.board, app.filter)
              /\ IF kind = "dependency" THEN t \in RangeOf(Deps[kept]) ELSE kept \in RangeOf(Deps[t])
      from == IF on THEN kept ELSE t
      s    == Ahead(kind, from)
      to   == After(s, t)
      h    == Record(jump.history, from, to) IN
    /\ Showing /\ t # None
    /\ IF s = <<>> THEN jump' = [jump EXCEPT ![kind] = None] /\ UNCHANGED app
       ELSE /\ Len(h) <= MaxJumps
            /\ jump' = [jump EXCEPT ![kind] = from, !.history = h]
            /\ Select(to)
    /\ UNCHANGED <<disk, source, load, jobs, queue, changes>>

JumpBack ==
  LET h    == jump.history
      back == {i \in DOMAIN h : h[i] \in Visible(app.board, app.filter)}
      i    == CHOOSE k \in back : \A l \in back : l <= k IN
    /\ Showing /\ h # <<>>
    /\ IF back = {} THEN jump' = [jump EXCEPT !.history = <<>>] /\ UNCHANGED app
       ELSE /\ jump' = [Unjumped EXCEPT !.history = SubSeq(h, 1, i - 1)]
            /\ Select(h[i])
    /\ UNCHANGED <<disk, source, load, jobs, queue, changes>>

Jumps == MaxJumps > 0 /\ (JumpBack \/ \E kind \in {"dependency", "dependent"} : Jump(kind))

User ==
  \/ \E delta \in {-1, 1} : MoveColumns(delta) \/ MoveRows(delta) \/ MoveSelected(delta)
  \/ \E t \in Tasks : SelectTask(t) \/ SubmitSearch(t)
  \/ \E f \in Filters : SetFilters(f)
  \/ \E kind \in Dialogs : OpenDialog(kind)
  \/ \E c \in Columns : SubmitDialog(c) \/ SubmitEditor(c)
  \/ CancelDialog \/ Jumps

Threads ==
  \/ LoadColumns \/ LoadView \/ LoadFails
  \/ \E j \in DOMAIN jobs : Carry(j) \/ End(j, "done") \/ End(j, "failed")

TuiNext == Change \/ Tick \/ Threads \/ Handle \/ User

TuiSpec == TuiInit /\ [][TuiNext]_tuiVars

-----------------------------------------------------------------------------
(* Properties.                                                             *)

TuiTypeOK ==
  /\ disk \in [Tasks -> 0..Last] /\ source \in {"daemon", "local"}
  /\ jobs \in Seq(Job)
  /\ app.board = NoSnap \/ app.board \in Snap
  /\ app.filter \in 0..Last /\ app.reselect \in 0..Cards
  /\ RangeOf(jump.history) \subseteq Tasks

\* Whatever board arrives and whatever the filter becomes, the selection is a
\* visible card at its place, and there is none only where no card is visible
\* (_apply_snapshot, set_filters, select_after_refresh).
SelectionIsOnBoard ==
  LET s == app.selection IN
    IF Visible(app.board, app.filter) = {} THEN app.board # NoSnap => s.task = None
    ELSE s.task \in Visible(app.board, app.filter) /\ s = Where(app.board, app.filter, s.task)

\* What a dialog is answered with happens to the task it was opened for, though
\* the board is loaded again while it is open (_push_modal, _move_task_result,
\* _archive_task_result).
DialogKeepsItsTask ==
  app.dialog # NoDialog => app.dialog.task = Selected

\* What the user asks for once is carried out at most once, also when the
\* daemon's answer is lost; and only what was carried out is reported as done
\* (DaemonBoardDataSource._mutate, _handle_load_error).
CarriedOutOnce ==
  \A j \in DOMAIN jobs : jobs[j].carried <= 1 /\ (jobs[j].phase = "done" => jobs[j].carried = 1)

\* The source is left for good, and only because a load failed.
LeavesSource ==
  source' # source => source = "daemon" /\ queue # <<>> /\ Head(queue).kind = "daemonError"

\* Both, of every step.
TuiWrites == [][CarriedOutOnce' /\ LeavesSource]_tuiVars

\* Design: a failed mutation is surfaced.
FailuresAreSurfaced == \A j \in DOMAIN jobs : jobs[j].phase = "failed" => jobs[j].heard
=============================================================================
