------------------------------- MODULE Browser -------------------------------
(***************************************************************************)
(* The browser service (src/backlog_py/browser/service.py) and the pages   *)
(* that show its board (browser/assets/board.js).  Every request has a     *)
(* thread; a POST takes the project's write lock, which the processes of   *)
(* others take too, and a GET takes none.  A page learns of changes from   *)
(* events it asks for, or by polling, and loads itself anew.               *)
(*                                                                         *)
(* One milestone stands for all.  Of a board the cards and the milestone   *)
(* are kept.  That a scan and its cache are as recent as the request is    *)
(* ScanCache's subject: here a GET reads the project in one step.          *)
(***************************************************************************)
EXTENDS Integers, FiniteSets

CONSTANTS Pages,
          Filtered,   \* pages whose address asks for the milestone's tasks only
          MaxId,
          NoPage,
          MaxChanges, \* bound on requests sent and on what others do
          MaxFaults   \* bound on settings that cannot be parsed, timeouts and errors

\* What is assumed of them.
BrowserAssumption == NoPage \notin Pages /\ MaxId \in Nat

VARIABLES task,      \* task[i]: where it is, its revision, and if it refers to the milestone
          milestone, \* it exists
          broken,    \* the settings file that cannot be parsed, if any
          lock,      \* holder of the write lock: the page whose request it is
          request,   \* request[p]: the POST that page p has sent
          page,
          service,
          changes, faults

browserVars == <<task, milestone, broken, lock, request, page, service, changes, faults>>
project     == <<task, milestone, broken>>

Ids    == 1..MaxId
\* A task in tasks/, there while a branch has a later copy, on a branch only, or
\* in archive/tasks.
Places == {"none", "local", "older", "branch", "archived"}
Kinds  == {"create", "edit", "check", "archive", "remove", "shutdown"}

NoCard == [rev |-> -2, refers |-> FALSE, mutable |-> FALSE]

\* _board_payload_body: what the cards show; a branch's copy is read only.
Card(i) ==
  CASE task[i].place = "local"             -> [rev |-> task[i].rev, refers |-> task[i].refers, mutable |-> TRUE]
    [] task[i].place \in {"older", "branch"} -> [rev |-> -1, refers |-> FALSE, mutable |-> FALSE]
    [] OTHER                               -> NoCard
Board == [cards |-> [i \in Ids |-> Card(i)], milestone |-> milestone]

\* _board_revision, a hash of the board.  Mutant: of what the filters leave of it.
Revision_Filtered(filtered) ==
  [Board EXCEPT !.cards = [i \in Ids |-> IF filtered /\ ~Card(i).refers THEN NoCard ELSE Card(i)]]

Revision(filtered) == Board

\* _milestone_reference_counts: the local files only.
References == {i \in Ids : task[i].place \in {"local", "older"} /\ task[i].refers}

NoRequest == [kind |-> "none", pc |-> "idle", id |-> 0, refers |-> FALSE, handling |-> "none",
              base |-> 0, done |-> FALSE, answer |-> "none", heard |-> FALSE]
NoBoard   == [cards |-> [i \in Ids |-> NoCard], milestone |-> FALSE]
NewPage   == [shown |-> NoBoard, board |-> NoBoard, dialog |-> FALSE, pending |-> FALSE, feed |-> "loading"]

Answers == {"none", "ok", "bad", "missing", "conflict", "error"}

BrowserTypeOK ==
  /\ \A i \in Ids : task[i].place \in Places /\ task[i].refers \in BOOLEAN
  /\ milestone \in BOOLEAN /\ broken \in {"none", "config", "policy"} /\ lock \in Pages \cup {NoPage}
  /\ \A p \in Pages :
       /\ request[p].kind \in Kinds \cup {"none"} /\ request[p].answer \in Answers
       /\ request[p].pc \in {"idle", "lock", "check", "write", "schedule", "payload", "answered"}
       /\ page[p].feed \in {"loading", "events", "poll", "closed", "gone"}

\* create_browser_server.
BrowserInit ==
  /\ task \in [Ids -> {[place |-> "local", rev |-> 0, refers |-> FALSE],
                       [place |-> "none",  rev |-> 0, refers |-> FALSE]}]
  /\ task[1].place = "local"
  /\ milestone = TRUE /\ broken = "none" /\ lock = NoPage
  /\ request = [p \in Pages |-> NoRequest] /\ page = [p \in Pages |-> NewPage]
  /\ service = [asked |-> FALSE, stops |-> 0, up |-> TRUE]
  /\ changes = 0 /\ faults = 0

Change == changes < MaxChanges /\ changes' = changes + 1
Fault  == faults < MaxFaults /\ faults' = faults + 1

-----------------------------------------------------------------------------
(* Pages. *)

\* window.location.reload: what the page waits for is not heard.
Reload(p) ==
  /\ page' = [page EXCEPT ![p] = NewPage]
  /\ request' = [request EXCEPT ![p].heard = FALSE]

\* render_board_html reads both settings files; an answer that is an error replaces
\* the page.
Load(p) ==
  /\ page[p].feed = "loading" /\ service.up
  /\ page' = IF broken = "none"
             THEN [page EXCEPT ![p] = [NewPage EXCEPT !.shown = Revision(p \in Filtered), !.board = Board,
                                                      !.feed = "events"]]
             ELSE [page EXCEPT ![p].feed = "gone"]
  /\ UNCHANGED <<project, lock, request, service, changes, faults>>

\* The user loads the page again.
Open(p) ==
  /\ page[p].feed = "gone" /\ broken = "none" /\ Reload(p)
  /\ UNCHANGED <<project, lock, service, changes, faults>>

Alive(p) == page[p].feed \in {"events", "poll", "closed"}

OpenDialog(p) ==
  /\ Alive(p) /\ ~page[p].dialog /\ service.up
  /\ page' = [page EXCEPT ![p].dialog = TRUE]
  /\ UNCHANGED <<project, lock, request, service, changes, faults>>

\* A reload that had to wait for the dialog.
CloseDialog(p) ==
  /\ page[p].dialog
  /\ IF page[p].pending THEN Reload(p)
     ELSE page' = [page EXCEPT ![p].dialog = FALSE] /\ UNCHANGED request
  /\ UNCHANGED <<project, lock, service, changes, faults>>

\* handleBoardRevision.
HandleBoardRevision(p, revision) ==
  CASE revision = page[p].shown -> UNCHANGED <<page, request>>
    [] revision # page[p].shown /\ page[p].dialog ->
         page' = [page EXCEPT ![p].pending = TRUE] /\ UNCHANGED request
    [] OTHER -> Reload(p)

\* One event for each connection: the revision without filters, or that the
\* service is stopping.  Where the answer is an error the page takes to polling.
BoardEvent(p) ==
  /\ page[p].feed = "events" /\ service.up
  /\ CASE service.asked -> page' = [page EXCEPT ![p].feed = "closed"] /\ UNCHANGED request
       [] ~service.asked /\ broken = "none" -> HandleBoardRevision(p, Revision(FALSE))
       [] OTHER -> page' = [page EXCEPT ![p].feed = "poll"] /\ UNCHANGED request
  /\ UNCHANGED <<project, lock, service, changes, faults>>

\* pollBoardRevision: of the timer, and whenever the page becomes visible.
Poll(p) ==
  /\ Alive(p) /\ service.up /\ broken = "none"
  /\ HandleBoardRevision(p, Revision(FALSE))
  /\ UNCHANGED <<project, lock, service, changes, faults>>

-----------------------------------------------------------------------------
(* Requests. *)

Sent(kind, i, refers, handling) ==
  [NoRequest EXCEPT !.kind = kind, !.id = i, !.refers = refers, !.handling = handling,
                    !.heard = TRUE, !.pc = "lock"]

\* A dialog's form, or a card that is dropped on a column.  Origin and body are
\* checked first.
Submit(p) ==
  /\ Alive(p) /\ service.up /\ request[p] = NoRequest /\ Change
  /\ \E kind \in Kinds, i \in Ids, refers \in BOOLEAN, handling \in {"none", "keep", "clear"} :
       /\ kind \in {"create", "check", "archive", "remove", "shutdown"} => page[p].dialog
       /\ kind \notin {"check", "edit", "archive"} => i = 1
       /\ kind \notin {"create", "edit"} => ~refers
       /\ kind # "remove" => handling = "none"
       /\ request' = [request EXCEPT ![p] = Sent(kind, i, refers, handling)]
  /\ UNCHANGED <<project, lock, page, service, faults>>

At(p, pc) == request[p].pc = pc

AnswerWith(p, answer) == request' = [request EXCEPT ![p].pc = "answered", ![p].answer = answer]

Refuse(p) ==
  /\ At(p, "lock") /\ Fault /\ AnswerWith(p, "bad")
  /\ UNCHANGED <<project, lock, page, service, changes>>

\* with_project_write_lock.  Mutant: without the lock.
TakeLock_Shared(p) ==
  /\ At(p, "lock") /\ request[p].kind # "shutdown"
  /\ lock' = p /\ request' = [request EXCEPT ![p].pc = "check"]
  /\ UNCHANGED <<project, page, service, changes, faults>>

TakeLock(p) ==
  /\ At(p, "lock") /\ request[p].kind # "shutdown" /\ lock = NoPage
  /\ lock' = p /\ request' = [request EXCEPT ![p].pc = "check"]
  /\ UNCHANGED <<project, page, service, changes, faults>>

\* LockTimeoutError is none of the errors a handler knows.
LockTimeout(p) ==
  /\ At(p, "lock") /\ request[p].kind # "shutdown" /\ Fault /\ AnswerWith(p, "error")
  /\ UNCHANGED <<project, lock, page, service, changes>>

\* _browser_task_provenance: the copy that is shown is the local file.  get_task
\* finds the archived ones too.
Mutable(i) == task[i].place \in {"local", "archived"}

\* What the handlers find wrong before they write.
TaskObjection(r) ==
  CASE task[r.id].place = "none"                           -> "missing"
    [] task[r.id].place # "none" /\ ~Mutable(r.id)         -> "bad"
    [] r.kind = "archive" /\ task[r.id].place = "archived" -> "bad"
    [] OTHER                                               -> "none"

\* The milestone is looked up again, and referred to now, not when the page was
\* told so.
MilestoneObjection(r) ==
  CASE ~milestone                                          -> "missing"
    [] milestone /\ References # {} /\ r.handling = "none" -> "conflict"
    [] OTHER                                               -> "none"

Objection(r) ==
  CASE r.kind \in {"edit", "check", "archive"} -> TaskObjection(r)
    [] r.kind = "remove"                       -> MilestoneObjection(r)
    [] OTHER -> IF \A i \in Ids : task[i].place # "none" THEN "bad" ELSE "none"

\* _refreshed_project, create_task, and edit_task where references are cleared.
ReadsConfig(r) == r.kind # "remove" \/ (r.handling = "clear" /\ References # {})

Check(p) ==
  /\ At(p, "check")
  /\ LET r == request[p]
         objections == IF broken = "config" /\ ReadsConfig(r) THEN {"bad", "error"}
                       ELSE {Objection(r)} IN
       \E objection \in objections :
         IF objection = "none"
         THEN /\ request' = [request EXCEPT ![p].pc = "write", ![p].base = task[r.id].rev]
              /\ UNCHANGED lock
         ELSE AnswerWith(p, objection) /\ lock' = NoPage
  /\ UNCHANGED <<project, page, service, changes, faults>>

\* What the repository and the milestone service store, each file by os.replace.
EditTask(r)  == [task EXCEPT ![r.id].rev = r.base + 1, ![r.id].refers = r.refers]
CheckItem(r) == [task EXCEPT ![r.id].rev = r.base + 1]
ArchiveTask(r) == [task EXCEPT ![r.id].place = "archived"]

\* The lowest free id; for TLC, MaxId is the last there is.
NextId == CHOOSE i \in Ids : \A j \in Ids : task[j].place = "none" => task[i].place = "none" /\ i <= j
CreateTask(r) == [task EXCEPT ![NextId] = [place |-> "local", rev |-> 0, refers |-> r.refers]]

RemoveMilestone(r) ==
  IF r.handling # "clear" THEN task
  ELSE [i \in Ids |-> IF i \in References THEN [task[i] EXCEPT !.rev = @ + 1, !.refers = FALSE] ELSE task[i]]

Write(p) ==
  /\ At(p, "write")
  /\ LET r == request[p] IN
       /\ r.kind = "create" => \E i \in Ids : task[i].place = "none"
       /\ task' = CASE r.kind = "edit"    -> EditTask(r)
                    [] r.kind = "check"   -> CheckItem(r)
                    [] r.kind = "archive" -> ArchiveTask(r)
                    [] r.kind = "create"  -> CreateTask(r)
                    [] r.kind = "remove"  -> RemoveMilestone(r)
       /\ milestone' = (milestone /\ r.kind # "remove")
  /\ request' = [request EXCEPT ![p].pc = "payload", ![p].done = TRUE] /\ lock' = NoPage
  /\ UNCHANGED <<broken, page, service, changes, faults>>

\* The mutation raises: an error the handler knows, or another.
Raise(p) ==
  /\ At(p, "write") /\ Fault
  /\ \E answer \in {"bad", "error"} : AnswerWith(p, answer)
  /\ lock' = NoPage
  /\ UNCHANGED <<project, page, service, changes>>

\* After the change: auto-commit reads the configuration, and the answer about a
\* task, outside the handler's try, the orchestration policy.
Answer(p) ==
  /\ At(p, "payload")
  /\ \E answer \in CASE broken = "none"   -> {"ok"}
                      [] broken = "config" -> {"ok", "error"}
                      [] broken = "policy" -> IF request[p].kind = "remove" THEN {"ok"} ELSE {"error"} :
       AnswerWith(p, answer)
  /\ UNCHANGED <<project, lock, page, service, changes, faults>>

\* The page loads itself again, but for a checklist and for milestones; told of
\* an error it stays as it is.
Deliver(p) ==
  /\ At(p, "answered") /\ service.up
  /\ LET r == request[p] IN
       IF r.heard /\ r.answer = "ok" /\ r.kind \in {"create", "edit", "archive"}
       THEN page' = [page EXCEPT ![p] = NewPage]
       ELSE UNCHANGED page
  /\ request' = [request EXCEPT ![p] = NoRequest]
  /\ UNCHANGED <<project, lock, service, changes, faults>>

\* _request_server_shutdown: shutdown_lock covers the flag, and the thread is
\* started after it.
AskShutdown(p) ==
  /\ At(p, "lock") /\ request[p].kind = "shutdown"
  /\ service' = [service EXCEPT !.asked = TRUE]
  /\ IF service.asked THEN AnswerWith(p, "ok")
     ELSE request' = [request EXCEPT ![p].pc = "schedule"]
  /\ UNCHANGED <<project, lock, page, changes, faults>>

ScheduleShutdown(p) ==
  /\ At(p, "schedule")
  /\ service' = [service EXCEPT !.stops = @ + 1] /\ AnswerWith(p, "ok")
  /\ UNCHANGED <<project, lock, page, changes, faults>>

\* run_browser_service_foreground returns, and the threads of the requests end
\* with the process wherever they are.
Stop ==
  /\ service.up /\ service.stops > 0
  /\ service' = [service EXCEPT !.up = FALSE]
  /\ lock' = NoPage /\ request' = [p \in Pages |-> [request[p] EXCEPT !.pc = "idle"]]
  /\ UNCHANGED <<project, page, changes, faults>>

-----------------------------------------------------------------------------
(* Others. *)

\* Another process, with the lock.
OtherWrites(i) ==
  /\ lock = NoPage /\ Change /\ task[i].place \in {"local", "older"}
  /\ \E refers \in BOOLEAN :
       \/ task' = [task EXCEPT ![i].rev = @ + 1, ![i].refers = refers]
       \/ task' = [task EXCEPT ![i].place = "archived"]
  /\ UNCHANGED <<milestone, broken, lock, request, page, service, faults>>

\* A commit of another branch, fetched or made, and a checkout of it.
Moved(place) ==
  CASE place = "local" -> "older" [] place = "older" -> "local" [] place = "none" -> "branch"
    [] OTHER -> place

BranchMoves(i) ==
  /\ Change
  /\ task' = [task EXCEPT ![i].place = Moved(@)]
  /\ UNCHANGED <<milestone, broken, lock, request, page, service, faults>>

\* A settings file is spoilt by hand, and repaired.
Spoil  == broken = "none" /\ Fault /\ broken' \in {"config", "policy"}
          /\ UNCHANGED <<task, milestone, lock, request, page, service, changes>>
Mend   == broken # "none" /\ broken' = "none"
          /\ UNCHANGED <<task, milestone, lock, request, page, service, changes, faults>>

BrowserNext ==
  \/ \E p \in Pages :
       \/ Load(p) \/ Open(p) \/ OpenDialog(p) \/ CloseDialog(p) \/ BoardEvent(p) \/ Poll(p)
       \/ Submit(p) \/ Refuse(p) \/ TakeLock(p) \/ LockTimeout(p) \/ Check(p) \/ Write(p)
       \/ Raise(p) \/ Answer(p) \/ Deliver(p) \/ AskShutdown(p) \/ ScheduleShutdown(p)
  \/ Stop
  \/ \E i \in Ids : OtherWrites(i) \/ BranchMoves(i)
  \/ Spoil \/ Mend

Spec == BrowserInit /\ [][BrowserNext]_browserVars

-----------------------------------------------------------------------------
(* Properties. *)

\* A page that shows an older board while the service runs has a feed that will
\* tell it, or will load itself when its dialog is closed.
StalePagesAreTold ==
  \A p \in Pages :
    Alive(p) /\ page[p].board # Board /\ ~service.asked
    => page[p].feed \in {"events", "poll"}

\* No feed makes a page load itself that shows the board as it is, filtered or
\* not, unless a dialog held the reload back.
ReloadsForChange ==
  \A p \in Pages :
    /\ Alive(p) /\ page'[p].feed = "loading" /\ ~At(p, "answered") /\ ~page[p].pending
    => page[p].board # Board

\* An answer that refuses a request means it changed nothing, and one that grants
\* it that it is on disk; the service is stopped once.
AnswersAreTrue ==
  /\ \A p \in Pages :
       /\ request[p].answer \in {"bad", "missing", "conflict"} => ~request[p].done
       /\ request[p].answer = "ok" /\ request[p].kind # "shutdown" => request[p].done
  /\ service.stops <= 1 /\ (service.stops = 1 => service.asked)

\* No request writes over what another writer stored after its own reading, and
\* none removes a milestone that tasks refer to without having been told what to
\* do with them.
WritesWhatItChecked ==
  \A p \in Pages :
    At(p, "write") /\ request'[p].done
    => /\ request[p].kind \in {"edit", "check"} => task[request[p].id].rev = request[p].base
       /\ request[p].kind = "remove" /\ request[p].handling = "none" => References = {}

\* Of the pages: every page that is behind will be told, and none loads for nothing.
PagesFollowBoard == [](BrowserTypeOK /\ StalePagesAreTold) /\ [][ReloadsForChange]_browserVars

\* Of the requests: what is answered, and what is written.
BrowserWrites == []AnswersAreTrue /\ [][WritesWhatItChecked]_browserVars
=============================================================================
