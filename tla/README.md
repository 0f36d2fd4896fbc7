# backlog-md-py in TLA+

This directory is a TLA+ development of `backlog-md-py`: models of the parts of
the program that carry its own logic, TLC configurations that check them on
small instances, and theorems about them with proofs checked by TLAPS. The
repository is under `src/`; the Python package is `src/src/backlog_py/`, and
paths below are relative to it unless they begin with `src/`.

Contents: [the system](#the-system), [components](#components),
[modules](#modules), [runs](#runs-bounds-and-what-they-show),
[fairness](#fairness), [disagreements](#disagreements-between-the-code-and-its-documentation),
[observations](#met-while-modelling-without-a-run), [proofs](#proofs),
[what is left out](#what-is-left-out), [plan](#plan).

## The system

A project is a directory of Markdown files: tasks, drafts, documents,
decisions, milestones and one config file. Several processes work on it at once
and share nothing but the file system: CLI commands, one local daemon that
serves MCP over HTTP and a browser board, stdio MCP servers that forward to the
daemon when there is one, a terminal interface, and the user's editor and git.

- **Mutations** run one at a time, under the *project write lock*
  (`runtime/locks.py`): an `flock` on a file in a runtime directory, with a
  metadata file beside it. `with_project_write_lock` also brackets a mutation
  with auto-commit (`runtime/git.py`).
- **Readers take no lock.** They list directories and read files one by one, or
  a cache of them, and see whatever intermediate states a mutation goes through;
  what they read may be stale by the time they act on it. Forms and dialogs
  (browser, terminal, wizard, editor) are such readers with a user in between.
- **Nothing is a transaction.** One file is replaced atomically (a temporary file
  and `os.replace`); an operation on several files is a list of such calls with a
  hand-written rollback, and a process that dies in the middle leaves what it
  has done.
- **The daemon** has a lock and a record file of its own; stdio servers and CLI
  commands find it through that record.
- **Other checkouts and branches** of the same git repository have locks of their
  own; their tasks are read with git commands, one after the other.

## Components

| component | state | operations | hard behaviours | what makes it correct | status |
|---|---|---|---|---|---|
| Runtime locks `runtime/locks.py` | lock file (an inode at a path), flock, metadata file | acquire, close, prune, probe | `flock` locks inodes, pruning unlinks names; crashes, timeouts, failing unlinks | one holder; its inode stays at the path; live records kept; acquire ends | modelled |
| Orchestration `orchestration/` | per task: status key, version, lease | claim, release, transition, record_run, split, queue | unlocked reads, retries, expiring leases, failing splits | no lost update; leases respected; policy followed; retries recognised | partly |
| Run history `orchestration/history.py` | entries, truncation marker with dropped keys | append, truncate, match a key | a key used again after its entry went | bounded; no known key reused | partly |
| Auto-commit `runtime/git.py` | work tree, index, HEAD | prepare, commit, reset | git commands fail, the user edits and stages meanwhile | commits its own work and nothing else | partly |
| Task repository `core/repository.py`, `core/ids.py` | files in tasks/, completed/, archive/tasks/ | create, edit, renumber, archive, complete, scan | half-done batches, rollback, crashes, ids freed and allocated | nothing lost; an id is one task; references survive; no dependency circle | partly |
| Drafts `core/drafts.py` | files in drafts/, archive/drafts/ | create, promote, demote, archive | two directories, two id series | as above | partly |
| Board ordinals `core/repository.py` | a number per task | move, sort | cards without a number, floats, batches that fail | the column's order is the one shown, with the card where it was put | modelled |
| Task text `markdown/task_parser.py`, `core/doctor.py`, `core/repository.py` | the lines of a file | edits of sections and checklists, repair | positions in lists that change during the call; half-written markers | an edit changes what it was asked to; a repair adds ENDs only | partly |
| Milestones `core/milestones.py` | milestone files, the tasks that name them | add, edit, remove, archive | rewrite, task updates, link and unlink, verification, rollback, foreign files | all or nothing; references follow the name; nothing lost | partly |
| Documents and decisions `core/documents.py`, `core/decisions.py` | files and ids | create, update, move | moves in two calls, broken front matter | none lost; an id is one document | partly |
| Configuration `storage/config.py`, `storage/project.py`, `core/init.py` | one file | get, set, init, three forms | forms loaded before the lock, two spellings of a key | what was asked for last holds | partly |
| Scratch-copy editing `core/editing.py` | scratch file, source file | edit with an external editor | minutes between read and write, failures after the user has saved | no other writer's change overwritten; the user's text kept | modelled |
| Scan cache `runtime/scan_cache.py` | a cached scan with its signature | get | files change during a scan | what is served is as recent as the request | partly |
| SQLite index `indexing/sqlite.py` | database, fingerprint | read, rebuild, publish, discard | concurrent rebuilds, writers during a rebuild, a discarded file | what is loaded is as recent as the load | modelled |
| Branch snapshots `runtime/git.py`, `core/repository.py` | branches, checkouts, commit times | scan of visible tasks, choice of a new id | commits and edits between the git commands; commands that fail | the latest copy is shown; a new id is unused | partly |
| Daemon lifecycle `daemon/`, `runtime/state.py` | record file, child process, port, logs | status, ensure, start, stop, foreground run | probes without the lock, a crash between launch and record, reused pids | the record of a serving daemon is kept; a managed daemon is reachable | modelled |
| MCP stdio and HTTP servers `mcp/stdio_server.py`, `mcp/server.py`, `mcp/http_server.py` | forward target, handler threads | forward, answer, stop | target dead or restarted, answer lost, threads cut off | a call reaches the daemon it was typed for, once | partly |
| Browser service `browser/` | pages, requests, lock, shutdown flag | requests, revision events, polling | stale forms, two pages and other writers, settings that do not parse | pages are told of changes; what an answer says is true | partly |
| Terminal interface `tui/` | board, selection, dialogs, threads, source | load, change, filter, jump, edit | threads that are cancelled, lost answers, boards that arrive under a dialog | an action happens to the card chosen, at most once | partly |
| MCP tools and resources `mcp/tools.py`, `mcp/catalog.py`, `mcp/resources.py` | none | argument checks around the services | none of its own | calls the service once, under the lock | not modelled |
| Command line `cli/` | none | calls to the services | none of its own | | not modelled |
| Search, path checks, export, agents, callbacks, registry, compat, oracle, shim | none | pure functions, reports, a user's command | | | not modelled |

`PROJECT.json` has a finer list with a note for each component, and under
"hazards" what in this code is hard to test, each at its line, with the
properties that cover it.

How they interact: every mutation of the repository, drafts, orchestration,
milestones, documents and settings runs inside the write lock, so `TaskStore`,
`Orchestration`, `AutoCommit`, `Milestones`, `Documents` and `Board` each take from
`RuntimeLock` that one mutation runs at a time and that a holder that dies lets
the next one in. That is what `WriteLock` says and what `RuntimeLock` is proved to
implement. Where work before or after the lock is the point, the module has the
lock as a variable (`ScratchEdit`, `Settings`, `Browser`) or a `WriteLock` of its own
(`Daemon`). `McpForward` extends `Daemon`: sessions and handler threads among the
commands that start and stop what they talk to. `ScanCache` and `ReadIndex` both
extend `WatchedFiles`, the files and clock they are to keep up with.

## Modules

| module | models | EXTENDS / uses | instantiated by |
|---|---|---|---|
| `WriteLock` | what a runtime lock promises: `Enter` when nobody is inside, `Leave` | | `RuntimeLock`, `Daemon` |
| `RuntimeLock` | `runtime/locks.py`, one system call per action | `WriteLock` by refinement | `MCRuntimeLock` |
| `RuntimeLockProofs`, `OrchestrationProofs`, `TaskStoreProofs`, `DaemonProofs`, `WatchedFilesProofs` | theorems and lemmas about the module named (`OrchestrationProofs`, `DaemonProofs`: about `MCOrchestration`, and `McpForward` and `MCDaemon`, too) | | |
| `ViewsProofs` | theorems about `ScanCache`, `Branches`, `Browser`, `Tui` | `WatchedFilesProofs` | `ReadsProofs`, `FilesProofs` |
| `ReadsProofs` | theorems about `ReadIndex` and `MCReads` | `WatchedFilesProofs`, `ViewsProofs` | |
| `FilesProofs` | theorems about `ScratchEdit`, `Documents`, `Settings`, `AutoCommit` and the terminal board in `MCFiles` | `ViewsProofs` | |
| `RunHistory` | `orchestration/history.py` as operators | | |
| `Orchestration` | `orchestration/service.py` and the policy | `RunHistory` | `MCOrchestration` |
| `TaskStore` | `core/repository.py`, `core/drafts.py` | | `MCTaskStore` |
| `Daemon` | `daemon/lifecycle.py`, `daemon/service.py`, `runtime/state.py` | `WriteLock` | |
| `McpForward` | `mcp/stdio_server.py`, `mcp/http_server.py` | `Daemon` | `MCDaemon` |
| `WatchedFiles` | files, their timestamps and signatures | | |
| `ScanCache`, `ReadIndex` | `runtime/scan_cache.py`, `indexing/sqlite.py` | `WatchedFiles` | `MCReads` (extends `ReadIndex`) |
| `Branches` | `runtime/git.py` (snapshots), ids and visible tasks of `core/repository.py` | | `MCReads` |
| `TaskText` | `markdown/task_parser.py`, text edits, `core/doctor.py` | | `MCFiles` |
| `Browser` | `browser/service.py`, `browser/assets/board.js` | | `MCReads` |
| `Milestones`, `Documents`, `Settings`, `ScratchEdit`, `Board`, `AutoCommit` | the files of that name under `core/`, `storage/`, `runtime/git.py` | | `MCFiles` |
| `Tui` | `tui/app.py`, `tui/data.py`, `tui/models.py` | | `MCFiles`, `MCTui` |

`MCReads` and `MCFiles` check several components in one run. A behaviour is of one
component, the one the variable `part` names, which never changes; the parts share the
variables and nothing else, so such a run is the union of the runs of its parts. In
`MCFiles` the variables are `x1`, `x2`, ...; in `MCReads`, which extends `ReadIndex`, they are
those of `ReadIndex`, and the other components use them for theirs. A property of such a
module is the conjunction of a part's type invariant with what the component's module
states; the comments are there. `MCOrchestration` and `MCDaemon` check one specification on
two instances in the same way: a variable (`focus`, `acting`) that never changes says which
agents, tasks or commands take steps, and every behaviour is still one of `Spec`
(`ForwardSpec`), so what is proved of that holds of the run.

**RuntimeLock.** One lock key. `path` is the inode the lock file's name refers to,
`flock[i]` the process whose open handle has the lock of inode `i`, `handle[p]` the
inode `p` has open, `meta` the metadata file. `pc[p]` goes through the
system calls of `_RuntimeFileLock.acquire` (open, flock, compare inodes, write the
record), `_HeldRuntimeLock.close`, `prune_stale_locks`/`_remove_dead_lock` and the
probe of `list_runtime_locks`; `Crash` closes the handle of a process at any point.
The inode of a file that has neither a name nor an open handle is used again, as a
kernel does. The age gate of pruning may pass or fail at any time, and the
`(mtime_ns, inode)` stamp is one bit, "still the file I saw", so nothing depends on
how old a file is.

**Orchestration.** `orch[t]` is the mapping in the task file (status key, version,
owner and expiry of the lease), `history[t]` the run history, `board[t]` the plain
status. A mutation is one step, since it is one write under the lock; a refused
or replayed request changes nothing and is no step. `seen[a]` is what agent `a` read
last, without the lock; the version of that read is what it passes as
`expected_version`. A split is several steps, one per file: `SplitTask`, `SplitCreate` for
each child, `SplitCommit` for the parent. Any file can fail to be written (`SplitFails`),
and a child or the parent to be read back after it was written; then the children are
removed one at a time, and each removal may fail and is passed over (`RemoveChild`,
`RollbackEnds`). A process that dies leaves what it has written (`Crash`). `files` are the
child files there are, `kept` the children of splits that succeeded, `left` the files that
nothing will remove. The policy is a constant; the runs use the default policy of `models.py:294-310`. **RunHistory** has the list of entries, its
cap, the truncation marker and the match of an idempotency key (`new`, `replay` or
`conflict`).

**TaskStore.** `files` maps a path (directory, id, slug of the title) to a content:
which task it is (`born`) and the ids it depends on. `op` is the operation that holds
the lock: the writes it has still to do (`todo`), those it has done, the names it
will unlink after them, and whether it is rolling back. An operation's first action
makes every check the code makes before it touches a file; `Write`, `WriteFails`,
`UndoWrite`, `UndoFails`, `Unlink`, `UnlinkFails` and `Crash` are the file system calls
of `_write_task_source_batch`, `edit_task`, `promote_draft` and `demote_task`.
`ArchiveTask`, `CompleteTask` and `ArchiveDraft` are one `os.replace`. `scan` is a
reader that takes no lock. `born` is a ghost: the code has no identity for a
task other than its id, and the properties are about what happens to it.

**Daemon and McpForward.** `record` is the runtime record, `proc[i]` the process that
has pid `i` (a daemon, managed or foreground, or a stranger), `cmd[c]` a command with
its program counter, `logs` the log files by launch. A command takes the daemon lock
where the code does and may die anywhere; a pid and a port are used again by
whoever comes next. A poll loop is one step when its answer is there, or one when its
deadline passes. `call[k]` is a forwarded call: the session, the target it was
addressed to, the process that carries it out, and how far it is.

**WatchedFiles, ScanCache, ReadIndex.** A file has contents and a timestamp that the
file system rounds down to the start of a tick; `lastHad[f][d]` is a ghost, when `f`
last had content `d`. `Racy` is the window in which a signature includes a hash. In
`ScanCache`, requests are threads that share a mutex and scan file by file; in
`ReadIndex`, loaders are processes, `db[i]` is what is committed in inode `i`, and
rebuilding, the second fingerprint, publishing and discarding are steps among
writers and other loaders.

**Branches.** `work[w][t]` is the file of task `t` in checkout `w`, `tree[b][t]` what branch
`b` has of it and since when, `tip[b]` the time of its last commit. `scan` and `alloc[w]`
go through the git commands of `visible_tasks` and of the allocation of an id.

**Milestones, Documents, Board.** As `TaskStore`: `op` is the operation under way, an
action is a file system call that may fail, and `Crash`/`Die` ends the process between
two. In `Milestones`, `ref[t]` is the milestone field of task `t` (by id, a negative number
for the other spelling of one, or by title) and a foreign program may create a file at any
name. In `Board`, an ordinal is an integer or a float that rounds to multiples of
`Spacing` past `Exact`.

**Settings, ScratchEdit, Browser, Tui.** Here sessions begin before they take the lock and
carry what they read then. `Settings.want` and `ScratchEdit.authored` are ghosts: what was
asked for last, what a user saved last. `Browser.page[p]` is what a page shows, its feed
(events, polling, loading), its dialog and whether a reload is pending; `request[p]` is the
POST under way from the body to the answer. `Tui.queue` is the application's message queue,
`load` and `jobs` the threads; a thread that has been cancelled runs on but is not heard.

**TaskText.** `doc` is a sequence of lines (headings, BEGIN and END markers, items,
text). A call is a set of changes to sections and checklists, made one by one in the
code's order with the text parsed again in between. `MeantText` and `Meant` are the
reference definitions. What the parser and the repair do line by line is written as
functions on the positions of the text, each value from the one before it.

**AutoCommit.** Each file has a version in the work tree, in the index and in HEAD,
and a version says who wrote it. A mutation is `Prepare`, `Mutate`, `Proceed`, `Add`,
`Commit`, with every git command able to fail and `Reset` after a failed commit.
The user edits, stages and commits between mutations.

## Runs, bounds and what they show

| run | instance | shows |
|---|---|---|
| `lock` | 2 processes, 3 inodes, no failing call, fairness | the holder is the process the record names; pruning keeps the records of live owners; `acquire()` ends: it returns a held lock or raises |
| `lock_faults` | 3 processes, 3 inodes, unlinks and record writes may fail | one holder at most, `WriteLock` is implemented |
| `orch` | 2 agents, 1 task, 1 key, clock 0..2, versions 0..3, cap of 2 entries; and 1 agent, 2 tasks, splits of 1 or 2 children, 3 child ids | no lost update, leases respected, policy order, retried claims replay, keys unique, what is shown as eligible can be claimed; whatever files of a split fail or it dies, one that succeeded has its children and any other child is one that itself could not be removed or read back, or whose split died; a known key starts no second split on any task |
| `task_store` | 2 tasks or drafts, 2 ids, 2 titles, 1 fault; and a reader that looks for one task | nothing lost, ids name one task, success adds no duplicate, rollback restores, renumbering keeps references, checks keep the graph acyclic; a reader misses a task only if its name goes in an edit, renumbering, demotion or archiving meanwhile |
| `daemon` | 2 commands without forwarded calls, and 1 command with 1 forwarded call (`acting`); 2 pids, 2 ports, 2 launches, 1 log kept | the record of a serving daemon is neither dropped nor replaced; a managed daemon is recorded, or being recorded or stopped, or its starter failed; its log is kept; a call is carried out by the daemon its session found |
| `reads` | `ScanCache`: 2 requests, 2 files (one the configuration, there at first), 2 contents, clock 2..5, 2 writes. `ReadIndex`: 2 loaders, 2 inodes, 1 file, 2 contents, clock 1..2, 1 write, 2 rebuilds, 1 error. `Branches`: a scan with 2 checkouts, 1 task, 2 edits, clock 0..2; 2 creations with 2 checkouts, a branch of nobody, 3 ids. `Browser`: one filtered page, 2 tasks, 2 changes, 1 fault; two pages, 1 task, 2 changes | what a scan or a load answers was so after the request began; the copy of a task that is shown is the latest; a new id is unused elsewhere; a page with an old board has a feed that will tell it, none reloads for nothing; a request does what its answer says, to the state it checked |
| `files` | `Milestones`: 2 milestones, 1 task, 2 ids, a title that is a number, 1 fault; 1 milestone and 2 faults. `ScratchEdit`: 2 users (one with an editor that does not wait), 2 saves, 1 other write, 1 fault. `Documents`: 2 documents, 2 folders, 2 ids, 2 faults. `Settings`: 2 sessions of any interface, 2 runs, 1 fault. `Board`: 3 cards, 2 columns, integers and floats, 2 operations, 1 fault. `AutoCommit`: one task file and a config file outside the backlog directory, failing commands, crashes. `Tui`: four small instances. `TaskText`: one call on a file with one change by hand, one repair of a file with two | none lost and all or nothing (milestones, documents, cards); nobody's bytes overwritten; settings asked for last hold; a commit holds its mutation's work, all of it and nothing else; what a dialog is answered with happens to its card, at most once; an edit changes what it was asked to, a repair only adds ENDs |
| `task_cycle`, `daemon_stop`, `index_rows`, `tui_failures`, `branch_times` | | violations, described below |

Why the bounds are enough to be of interest:

- *Lock.* The races are between a holder, a pruner and the next acquirer, each with
  a handle of its own; three processes and three inodes let all three have
  different inodes open, and inodes are reused. A process may prune, probe and
  acquire any number of times. `RuntimeLockProofs` removes the bound for all the safety
  properties.
- *Orchestration.* `MaxEntries = 2` is the smallest cap with a marker and one entry:
  the first truncation, which drops two, and the later ones both happen, and
  so does a retry of a dropped key. `MaxClock = 2` with `TTL = 1` lets a lease expire
  and be taken over. `MaxVersion` bounds the number of changes of a mapping; two
  stale readers need two. `OrchestrationProofs` removes all these bounds, and the choice
  of the policy, for every property of the run (three of them under a hypothesis on the
  policy or the keys, named below).
- *Task store.* A circle needs two ids, a renamed task needs two titles, a duplicate
  id needs two files. `MaxFaults = 1` bounds crashes, failed unlinks and failed
  rollback steps together; failing writes, which the code handles, are not counted.
  `TaskStoreProofs` removes the bounds for all of the properties but `ChecksKeepAcyclic`.
- *Daemon.* Two launches are what a race for the record needs; a third pid would be a
  stranger, which the two pids may become. Every command may run any number of times.
  Forwarded calls have an instance of their own with one command, since calls take no step
  that a command could notice; `DaemonProofs` has them together, with any number of each.
- *Caches.* A stale answer needs a scan, a write and a second request; the ticks and the
  window are such that a write hides behind its predecessor's timestamp. A second write
  lets a file change and change back. `ViewsProofs` removes the bounds for the scan cache
  and `ReadsProofs` for the index: any tick and window, any number of files, contents,
  requests, loaders, databases and writes.
- *Branches.* A wrong answer needs a commit or an edit between two git commands of one scan
  and a copy that differs; two checkouts and one task have that. `ViewsProofs` removes the
  bounds.
- *Milestones, documents, board, settings.* `MaxFaults` bounds failing calls and deaths
  together; a failure in a rollback needs two in `Milestones`, where the first one starts
  it, so a second instance with one milestone has two. Board operations begin from
  every assignment of ordinals. `FilesProofs` removes the bounds for documents, settings and
  scratch copies.
- *Auto-commit.* A version has one bit besides its author, so histories are unbounded
  and the state space finite. `FilesProofs` has any number of files.
- *Browser and terminal.* One change by another writer and one by the page make a form
  stale; a second one makes the revision it was told stale as well. A queue of one
  message and one job is enough for a load to overtake a mutation and the reverse. `MaxId` in
  `Browser` is the last id there is, so a creation needs a free one. `ViewsProofs` removes the
  bounds.
- `CHECK_DEADLOCK FALSE` everywhere: nobody has to start an operation, all processes
  may be dead, and the counters above reach their bounds.

Some properties have exceptions that the code has too; each is a conjunct with a comment:
a content that was replaced and restored within one tick of the file system's clock
(`ScanCache`, `ReadIndex`), a file that was created and removed again while the files were
read (`ScanCache`, see below), a second rebuild of one load (`ReadIndex`, see `index_rows`),
ids that nobody checks (`Documents`), what an editor that does not wait saves after the copy
has been read (`ScratchEdit`), sources that change or cease to be recent during a scan
(`Branches`).

`GitFails` in `MCFiles.cfg` leaves out `status`. `_git_porcelain` fails open
(`runtime/git.py:490`): a `git status` that fails before the mutation counts as a
clean tree. Adding "status" to the set makes TLC find `CommitsItsWork` violated: a
file the user has edited is committed under the operation's name. The code documents
that a failing git never blocks a mutation and says nothing of this case.
`Concurrent` is false there: with a user who stages a file during a mutation the
property fails too (see below).

Every property of a passing run has a mutant, an altered definition under which it
fails; mutants stand before the definition they alter, named after it and marked
"mutant".

## Fairness

Only `AcquireEnds` (`lock`) needs any. `FairSpec` assumes weak fairness for each
process on the steps of the operation it is *in* (acquire, close, prune, probe) and on
the passing of its deadline. The operating system runs a live process that is ready to
run, and a clock advances; nobody is assumed to start anything, and a dead process
owes nothing. `AcquireEnds` includes waiting behind a holder that never
closes: the deadline ends it.

That a page catches up with the board is stated as safety (`PagesFollowBoard`): whenever its
board is old, the feed that will reload it is armed. The step from there to "it is
reloaded" is the timer of a browser and the network, about which the code says nothing.

## Disagreements between the code and its documentation

- `task_cycle`. `create_task` and `edit_task` refuse a circle of dependencies.
  `demote_task` leaves the ids that name the demoted task in place, and
  `renumber_task` (or `promote_draft`) gives the free id to a task that depends on it.
- `daemon_stop`. The daemon design says that a stop waits for active writes. The handler
  threads of `McpThreadingHTTPServer` are daemon threads: they end with the process,
  a write half done.
- `index_rows`. The comment in `_load_task_sources` says that rows are published only when
  the second fingerprint confirms them. Within one repository object a rebuild returns
  the rows of the first one, so a file that changes during the first of two rebuilds is
  published with its old content under its new fingerprint.
- `tui_failures`. The design of the terminal interface says of the daemon's errors that a failed
  mutation is shown. A load starts an exclusive worker, which cancels running mutations; their
  errors are dropped. In the run the daemon answers every load, so the lost move is one through
  the daemon; on local files it is lost in the same way.
- `branch_times`. In a project below the root of its git repository no file on a branch has
  a commit time of its own, since the two commands name it differently; all have that of
  the branch's last commit, and an old copy is shown for a new one.

## Met while modelling, without a run

Locks and orchestration:

- A record whose lock file is missing is unlinked without the flock, in a `stat` followed
  by an `unlink` (`runtime/locks.py:329`): a process that acquires in between loses its
  record (`PruneKeepsHolderRecord`). Mutual exclusion is not affected.
- `split_task` never looks at the lease (`LeaseProtects`), which the design lists among
  the operations that do. A release is accepted in a terminal status and reopens the task.
  A split's key that JSON escapes is not found by the text search over the other tasks once
  its entry has been dropped (`EscapedKeys`).
- A split that fails leaves the children it cannot remove (`service.py:926`), the one it has
  written but cannot read back (`repository.py:609`), and all of them if it dies; the retry
  creates them again, and nothing looks for the first ones. If the parent is written and
  cannot be read back (`repository.py:851`), the children are removed although its entry names
  them, and a retry with the key is answered with their ids. `SplitsLeaveNoOrphans` says that
  there is no other way.
- The comment at `runtime/git.py:503` says that the pathspec keeps files of an editor session
  out of the commit. It restricts `git add`; `git commit` takes the whole index, also a
  file the user stages in between, or outside the project root before.
- `_forward_jsonrpc_text` (`mcp/stdio_server.py:160`) turns only `URLError` into an error
  response; a timeout while the answer is read ends the session.

Files:

- *Scratch-copy editing.* An editor that returns before it is closed: what is saved after
  the copy has been read is lost when the copy is removed (the docstring, `editing.py:14`,
  promises more).
- *Milestones.* A rollback checks a path and then moves it, so a foreign file that appears in
  between can be moved. Renaming a legacy milestone (one without an id) to the title of an
  archived one makes references ambiguous. Removing the milestone with the highest id frees
  the id, and references left behind attach to the next one. A milestone whose title is the
  next number blocks additions. Three failing calls in a row can lose a milestone.
- *Documents.* `create_document` with an explicit id ignores numbers in file names
  (`documents.py:231-248`); an id changed through `document_update` metadata is not checked
  (`mcp/tools.py:601-648`). The docstring of `_move_document` says that no duplicate is ever
  left; its fall back leaves one when the unlink fails. A view during a move can miss the
  document.
- *Settings.* The terminal interface writes all keys of a form that may be old, one write
  per key, and can be left half done (`tui/data.py:423-454`); so can the wizard. `init`
  with the configuration at the root, in a project that has it under `backlog/`, creates a
  second one that hides the first.
- *Text.* A missing final summary is inserted before the first "Definition of Done" heading
  anywhere: if a text contains that heading, the section goes into its middle. After
  `remove-ac` the numbers shown with the items no longer match the positions `check-ac` takes,
  and an added item can repeat one (`repository.py:1655-1714`).

Readers and interfaces:

- *Scan cache.* The signature is taken first and the scan second (`scan_cache.py:65-77`). A task
  file that is created after the first and removed after the second is in the scan, and the
  next signature, without it, is the old one again: the task is served until some file
  changes. The docstring of `read_repository` says that "a caller never sees state older than its
  own last write" (`scan_cache.py:140`). The property had no exception for this until its
  proof failed on it; the instance of the run did not get there.
- *Scan cache.* The orchestration policy, leases that run out and branches are not in its
  signature (`scan_cache.py:81` calls it "a cheap fingerprint of files that affect
  cached repositories and boards").
- *Branches.* A commit between the `ls-tree` and the `log` of one ref gives an old blob the
  new time. With equal seconds the branch's copy wins over the file. Archived tasks reappear
  from other branches. Two creations in two checkouts can choose one id: each has a lock of
  its own. Two commits within a second leave the index's freshness of git unchanged.
- *Browser.* An answer 500 can come after the change: an orchestration policy that does not
  parse makes every task mutation answer 500 although it is stored (`service.py:926`), and a
  user who tries again creates a second task. A page that reloads itself while a settings file
  does not parse is replaced by an error and never comes back by itself. An edit form stores all
  its fields, a checklist request names an item by its position in an old dialog, and an edit of
  a task that has been archived changes the archived file. A shutdown ends the request threads
  wherever they are.
- *Terminal.* A board that was put off under a dialog can replace a newer one until the next
  load. A task archived by another program during a daemon load makes the interface leave the
  daemon for good. Loads slower than the interval never finish. The update dialog writes all
  fields of an old form. The editor's worker is cancelled by the timer too (the comment at
  `app.py:527-531` counts on "exactly once").

## Proofs

TLAPS checks the theorems for every value of the constants that satisfies the
`ASSUME`s of the modules (distinct model values, natural numbers as bounds, a policy whose
statuses are its own; every run evaluates them). Where a theorem needs more it says so in
its own `ASSUME`, and the hypothesis is named below. Each module has one inductive
invariant `IInv` (`Init => IInv`, every step keeps it, and `Invariance`: `Spec => []IInv`);
what a single theorem needs beyond it is an invariant of its own, relative to `IInv`.

| module | theorem | states | assumes |
|---|---|---|---|
| `RuntimeLockProofs` | `LockExcludes`, `HolderKeepsPath`, `Refinement` | one holder, at the lock's path; `WriteLock` is implemented | |
| | `RecordNamesHolder`, `LiveRecordsKept` | the record is the holder's; pruning keeps the records of live owners | no failing unlink or write |
| `OrchestrationProofs` | `UpdatesAreSeen`, `LeasesRespected`, `PolicyFollowed`, `KeysUsedOnce`, `ChildrenHaveOwners` | no lost update, leases, the policy's order, keys used once, what failed splits leave | |
| | `ClaimsReplay` | a repeated claim is answered from the history | `OneFunnel` |
| | `EligibleCanBeClaimed` | what the queue shows can be claimed | claimable statuses lead to a working one |
| | `SplitsAreNew` | a known key starts no second split | `EscapedKeys = {}` |
| `TaskStoreProofs` | `NoTaskLost`, `IdsUnique`, `RollbackRestores`, `SuccessIsUnique`, `ReferencesAreKept`, `ScansFindTheirTask` | the properties of `task_store` but one | |
| `DaemonProofs` | `DaemonsAreReachable`, `LogsAreKept`, `RecordsAreKept`, `LockIsRespected` | a serving daemon can be found, its record and log are kept; the lock is used as `WriteLock` | |
| | `ForwardImplementsDaemon`, `CallsAreOfTheirDaemon` | `McpForward` implements `Daemon`; calls go to the daemon of their session | |
| `ViewsProofs` | `AnswersAreRecent`, `ScansUnderItsSignature` | answers are as recent as their requests; one scan at a time | `CacheAssumption`, `FilesBounds` |
| | `NewIdsAreFresh` | a new id is none that another checkout or a recent branch has | `BranchesAssumption` |
| | `ShownCopiesAreLatest` | the latest copy of a task is shown | the same and `~Below` |
| | `PagesAreTold`, `RequestsAreAnsweredAsDone` | pages follow the board; answers are true, of the board that was checked | `BrowserAssumption` |
| | `AskedOnceIsDoneOnce` | what is asked for is done at most once, through the daemon unless it has failed | `TuiAssumption` |
| `ReadsProofs` | `AnswersAreRecent` | what a load returns is as recent as the load | `IndexAssumption`, `FilesBounds` |
| | `PublishedRowsAreOfTheirTick` | published rows are those of their fingerprint | `IndexAssumption` |
| | `ScanAnswersAreRecent`, `LoadAnswersAreRecent`, `LatestCopiesAreShown`, `CreationsTakeFreshIds`, `PagesFollowTheBoard`, `RequestsAreDone` | the six properties of the run `reads` | |
| `FilesProofs` | `EditsKeepTheirBytes` | what a user saved is kept; nobody's bytes are written over | `EditAssumption` |
| | `DocumentsAreKept` | no document is lost; an id is one document's | `DocumentsAssumption` |
| | `SettingsHold` | settings asked for last hold; statuses in use stay | `SettingsAssumption` |
| | `CommitTypeCorrect`, `CommitsAreWhole` | types; all of the operation's work is committed | `A!Assumptions` |
| | `IndexIsRestored` | a commit that is not made leaves the index alone | the same, and `git status` works |
| | `CommitsAreOfTheirWork` | nothing else is committed | the same, and the project is the repository |
| | `TuiIsTrue` | `TuiWrites` of the run `files` | |

and `TypeCorrect`, in the first four modules, in `ViewsProofs` of the scan cache and in `ReadsProofs` of
the index. Elsewhere the type invariant is part of what the theorem states, but for `Tui`, where only
the types that the proof needs are part of its invariant.

**`RuntimeLockProofs`.** `MutualExclusion` is not inductive: that two processes are not both inside says nothing
of which inodes they locked. The invariant `IInv` adds

- `FlockFollowsHandle`: a flock belongs to a process that has the inode open and is at a
  point where it has locked it, and a process at such a point has that flock;
- `OpenedHasHandle`: a process at a point where a file is open has an inode;
- `CheckedStaysCurrent`: a process past the comparison of inodes (inside the lock, or a
  pruner about to unlink) has the flock of the inode at the path.

The last one carries the argument. A path moves only when it is free or when
`PathUnlink` frees it, and only a process that itself holds the flock of the inode at the
path gets to `PathUnlink`; so nobody else is past the comparison then. Two processes
past it would hold one flock. The refinement follows: `Enter` is the successful
comparison, `Leave` is `Close` or a crash inside, every other step stutters.

The two theorems about the metadata file rest on `RecordInv`: there is no record without a
lock file, a record whose owner may be live is that of a process inside, and who is inside has
its record there. While a process is past the comparison it is the only one that touches
the record. The one exception in the code is the branch of `_remove_dead_lock` that
removes a record whose lock file is missing without any lock; `RecordInv` shows it is never
reached. With `Faults` it is: an unlink that fails half-way leaves a record alone, and
a failed write leaves a holder without one. Hence the hypothesis.

**`OrchestrationProofs`.** `IInv` has, besides the types: `SeenIsPast`, a mapping that an
agent has read has a version no newer than the task's, and with the same version it *is* the
task's (this is what makes a compare of versions enough); `SplitIsValid`, what `split_task`
found out when it took the lock still holds at every later file of the split;
`FilesHaveOwners`, the child files are those of splits that succeeded, those left behind and,
apart from both, those of the split under way, also while it removes them;
`HistoriesUnique`, no history has a key twice, in entries or on its marker. The last one needs
what truncation does to the list of keys: `DroppedKeysUnfolds` and the lemmas after it follow
the fold over the two entries that can be dropped at once, since a general fold
is induction over data. `ClaimReplays` has its own invariant, `ClaimsRecorded`. Its
hypothesis `OneFunnel` says that all claimable statuses lead to one working status: it is what
the code promises replays for (`models.py:346-363`), and a policy with two makes the property
false. `EscapedKeys` are the keys that JSON writes with escapes, which the code does not find.

**`TaskStoreProofs`.** `NothingLost` depends on what an operation is going to do. `IInv` says of the operation at
work (`Sound`):

- `Coherent`: undoing a write puts back a file of the same task; two writes to one path
  are of one task; a path that is moved away is nobody else's target;
- `Fits`: a write replaces only a file of its own task, and a file that is being moved is
  still at its old path. This is why rolling back may unlink the new one;
- `Covered`: what is to be unlinked has its task written under another name, and
  everything in `done` is on disk. This is why the unlink at the end loses nothing.

Each operation begins with writes for which these hold (`BeginMove`, `BeginCreate`,
`RenumberIInv`), and each file system call keeps them. `RenumberIInv` needs that the
repointed dependencies are no more than before (a surjection between finite sets) and that
a sequence without repetitions as long as a finite set lists all of it.

`IdsNameOneTask` needs one more invariant, `IdsOK`: no file has the id of a pending write
unless it is of the same task, and no two pending writes have one id unless they are of
one task (`Names`). Allocation enters in `NextTaskIdIsFree`: the maximum of the reserved
ids plus one is reserved by nobody. That a maximum exists is proved from the
well-foundedness of the natural numbers (`MaxIsMax`), because the induction theorems of
the library cannot be instantiated by the provers used.

Three theorems relate the end of an operation to `op.before`, the files when it
began. For `RollbackRestores` the invariant is `Restorable`: what has not been written is as
it was (`Untouched`), and undoing a write makes its path what it was (`Reverts`); it says
nothing once an undo has failed. For `SuccessIsUnique` it is `Traceable`: every file was
there before or has been written, and the one path an operation may add (`Replaces`) has
an id nobody had or replaces a path that has it and will be unlinked. For `ReferencesAreKept` it is `Carrying`: a renumbering
has one file that moves (`Image`), every write makes a file depend on what the ids it
depended on have become (`Keeps`), and a file for which there is no write depends on nothing that
changes. A repository with ids on several files is no exception: a renumbering by id is refused
then, and one by file leaves another file of the same task with the id (`OneTaskEach`, from
`IdsNameOneTask`).

For the reader, `SightInv` says that while it looks for a task there is a file of the task that it
has listed and not read or that is in the directory it lists next, and that the file does not
depend on a write that may be rolled back. That needs `Stepwise`: an operation that has
several writes to do changes every file but one in place, and that one stays in its directory.

**`DaemonProofs`.** A record or a command's memory names a daemon by its token, and other
commands, strangers and deaths act in between. `IInv` says what stays true of it: `ProcInv`
(a token is at most one process, a port has one listener), `LockInv` (who is at a point inside the
lock holds it), `RecordInv` and `CommandOK` (what the record and each command say is still so, or
the daemon no longer listens), `Tracked` and `Logged` (the properties, extended to daemons
that have yet to listen). Since every process moves by `Change`, what time may do to a
process is proved once (`Ages`) and used for every step. The abstract lock is implemented
(`LockIsRespected`), and every step of `McpForward` is a step of `Daemon` or leaves it alone
(`ForwardImplementsDaemon`), so that what is proved of `Daemon` holds where calls are forwarded.

**`ViewsProofs`**, the scan cache. `IInv` says what a signature is good for: the file has not gone back
behind its time stamp, and without a hash the tick of the time stamp is over (`SigOK`); if the
file still has that stamp it has the content that was scanned, or it was changed within a
tick in which the signature has a hash (`ScanOK`). Both survive every write, so that a later
request with the same signature may be given the same scan. `Advance` bounds the time that
listing takes by the window; the arithmetic of ticks is in a few lemmas about `Stamp`
(`WatchedFilesProofs`).

*Branches.* The ghost `had` of a creation holds the ids that were in use when it began and
still are; `CreationsInv` says at each point of a creation where those that it has not yet collected
are to be found. A scan is a list of git commands whose answers are
combined at the end. `ScanInv` says what each of them is still good for as long as git has
not failed: `FilesSeen`, the files, the dirty ones and the times of the last commits are those of the
checkout, unless it has changed meanwhile (`scan.same`); `BranchesSeen`, of a branch that has not
changed, each recent copy has been found, or the branch is yet to be looked at. The
hypothesis `~Below` excludes what the run `branch_times` shows.

*Browser.* `PagesInv`: what a live page shows is what it says it shows, and it has closed its
feed only because the service is being stopped. `RequestsInv` says for every point of a request
what has been checked and under which lock; `ShutdownInv`, that one request stops the
service once.

*Tui.* A job has been carried out at most once, and once if it says so (`JobInv`); the sequences of
jobs and of messages are handled by lemmas about what removing an element leaves.

**`ReadsProofs`**, the index. No transaction is open between the fingerprint of a load and its answer, so `IInv`
speaks of every pair of a signature and a row that is published, or about to be
(`Described`). `PairsOK`: each is `SigOK` and `ScanOK`. `SignsOK`: a load that has signed a file may
answer with any row described by the same signature. Both hold only while no second
rebuild of one load has reused rows (`~reused`), the case of `index_rows`.

The other theorems of `ReadsProofs` state the properties of the run `reads` as they stand in
`MCReads`. `ViewsProofs` is instantiated twice, with the values that `MCReads` gives to
its parts. Each part's initial states, steps and properties are those of the instance (`CacheIsSame`,
`VisibleIsSame`, ...: all definitions are expanded, and are the same), a behaviour that
begins in a part is one of the component (`CachePart`, ...), and a part never ends
(`PartStays`). The hypotheses of the general theorems are then `ReadsAssumption`. `TuiIsTrue` in
`FilesProofs` is obtained in the same way, from four instances.

**`FilesProofs`.** The invariants are proved for the part of `MCFiles` that they are about; the constants
are not those of the run but any.

- `EditInv`: in each session what a user saved is in the scratch copy or has been in the
  file (`Safe`), an operation inside holds the lock, the file at the moment of the write is the
  one the user began with. What an editor that does not wait saves too late (`late`)
  is excluded, as in the property.
- `DocsInv`: the source of a move is still there, and the target is free or holds the copy
  (`MoveInv`); each document is somewhere in a revision no older than the last one reported
  (`KeptInv`); a file whose id cannot be read has it in its name, unless its id is one of those
  nobody checks (`IdsInv`).
- `SettingsInv`: `want` is what the file means (`Effective`), and a session at its write
  has read the file as it is, since it holds the lock from the read to the write.
- `AutoCommit`: `IndexInv` (until `git add` the index is the one the operation found,
  afterwards it differs by the pathspecs), `WorkInv` (the work tree differs by what the operation
  wrote) and `CleanInv` (a context that says clean was right). `Concurrent` is false in `MCFiles`. The
  other hypotheses are those without which the properties are false: a `git status` that
  fails and is taken for a clean tree, files outside the project root that were staged before.

Only model-checked:

- `AcquireEnds`: liveness under fairness is beyond TLAPS.
- `ChecksKeepAcyclic`: it rests on the transitive closure, a fold over data.
- `EditIsLocal`, `RepairIsFaithful`: they are about what the functions of `TaskText`, which
  recur over the lines, make of a whole text: induction over data.
- `BoardOutcomes` sorts the cards and `TuiBoard` selects from sequences; both take library
  operators that are recursive over sequences, about which the provers know nothing.
- `MilestonesKept`: `Milestones` has the longest operations of all, and its inductive invariant
  has not been found.
- The properties that the runs with violations show to be false.

## What is left out

- Of the repository: subtasks, filters, and the fields of a task other than title,
  dependencies, status, ordinal and the text. Which tasks are Done is left open in
  `CompleteTask`.
- Of orchestration: dependencies, review and workspace metadata (no guard in the model
  reads them), hand-edited mappings, and the reports other than eligibility. A child is
  only its id: that it can be edited or archived later is not modelled.
- Of git: merges, remote refs and the contents of blobs. Each command is atomic.
- Edits by hand of a document while an operation on it is under way: a move takes what it has
  read.
- Of milestones, documents and settings: dates and other fields, the parsing of values,
  the discovery of a project. Three milestone operations of the browser other than the
  removal, and its documents and decisions, are the calls that `Milestones` and
  `Documents` model, made under the lock.
- Of MCP: the initialize session, batches, the project hint, HTTP framing, and the argument
  checks of `mcp/tools.py`.
- Of the interfaces: drawing, fields of forms, search results. In `Tui` keys pressed in a dialog
  are the dialog's. In `Browser`, edits by hand of task files are not among the other writers,
  and a GET reads the project in one step (how it does so is `ScanCache`).
- Of the text: frontmatter, line ends, blank lines, indentation. `TaskText` leaves out texts that
  contain the heading "Definition of Done" (see above).
- File systems without `flock`, Windows locking, and the directory creation of the lock.
- Components marked "not modelled" in the table: they have no state of their own, or
  are presentation, text processing or a user's command.

## Plan

The modules above are what was planned, and more (branches, text, browser, terminal). What is
left:

1. `MilestonesKept` as a theorem: what is still to be undone of an operation, as in
   `TaskStoreProofs`, for tasks and milestone files together.
2. The reader of drafts and archives.
3. The abstract "a read is as recent as its request" as a specification of its own that
   `ScanCache` and `ReadIndex` implement; the lemmas of `WatchedFilesProofs` are what such a
   proof needs.
