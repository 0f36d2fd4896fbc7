------------------------------ MODULE Branches ------------------------------
(***************************************************************************)
(* Tasks on several branches (src/backlog_py/runtime/git.py and the ids    *)
(* and visible tasks of core/repository.py): checkouts of one repository,  *)
(* each on its own branch and with its own project lock, and branches that *)
(* nobody has checked out.  A scan in one checkout reads its files and the *)
(* branches in several git commands; a creation reads the ids the others   *)
(* use.  Commits, edits and moved branches come in between.                *)
(*                                                                         *)
(* A revision is a number no other edit has.  A branch holds its tasks     *)
(* with the time of the commit that last changed them.  Merges are left    *)
(* out, and so are the blobs, which are read by their hash.                *)
(***************************************************************************)
EXTENDS Integers, FiniteSets

CONSTANTS Checkouts,  \* each with the branch of its name
          Spare,      \* branches without a checkout
          Viewer,     \* the checkout that is scanned from
          Below,      \* BOOLEAN: is the project below the repository's root?
          Days,       \* active_branch_days
          MaxId, MaxEdits, MaxClock, MaxScans, MaxCreates \* bounds

VARIABLES work,   \* work[w][t]: the file of task t in checkout w
          tree,   \* tree[b][t]: what branch b has of it, and since when
          tip,    \* tip[b]: the time of the last commit of b
          clock, edits, scans, creates,
          scan,   \* the scan of the viewer
          alloc   \* alloc[w]: the creation in checkout w, which holds its lock

\* What is assumed of them.
BranchesAssumption ==
  /\ Viewer \in Checkouts /\ Checkouts \cap Spare = {}
  /\ MaxId \in Nat /\ MaxEdits \in Nat /\ MaxClock \in Nat

branchVars == <<work, tree, tip, clock, edits, scans, creates, scan, alloc>>

Branches == Checkouts \cup Spare
Ids      == 1..MaxId
NoCopy   == <<>>
Inf      == MaxClock + 1
Dirs     == {"tasks", "archive"}

Copy(c)      == [rev |-> c.rev, dir |-> c.dir]
Dirty(w, t)  == IF tree[w][t] = NoCopy THEN work[w][t] # NoCopy ELSE work[w][t] # Copy(tree[w][t])
Seen(c)      == c # NoCopy /\ c.dir = "tasks"
NamesIn(cs)  == {t \in Ids : cs[t] # NoCopy}

\* _recent_branch_refs
Recent(w) == {b \in Branches \ {w} : tip[b] >= clock - Days}

\* What the program may not know, and what a property is about: when the copy
\* of a source was last changed.  The source of the checkout's own name is its
\* files, and a file that differs from its branch is newer than any commit.
Changed(s, t) == IF s = Viewer /\ Dirty(s, t) THEN Inf ELSE tree[s][t].at
Has(s, t)     == IF s = Viewer THEN Seen(work[s][t]) ELSE Seen(tree[s][t])

Idle   == [pc |-> "idle", same |-> {}, failed |-> FALSE, file |-> <<>>, dirty |-> {}, key |-> <<>>,
           refs |-> {}, ref |-> Viewer, entries |-> <<>>, found |-> {}]
NoAlloc == [pc |-> "idle", ids |-> {}, had |-> {}, failed |-> FALSE]

BranchInit ==
  /\ clock = 0 /\ edits = 0 /\ scans = 0 /\ creates = 0
  /\ \E here \in 0..MaxId, elsewhere \in 0..MaxId, dir \in Dirs :
       /\ work = [w \in Checkouts |-> [t \in Ids |-> IF t <= here THEN [rev |-> 0, dir |-> "tasks"] ELSE NoCopy]]
       /\ tree = [b \in Branches |-> [t \in Ids |->
                    IF b \in Checkouts /\ t <= here THEN [rev |-> 0, dir |-> "tasks", at |-> 0]
                    ELSE IF b \in Spare /\ t <= elsewhere THEN [rev |-> 0, dir |-> dir, at |-> 0]
                    ELSE NoCopy]]
  /\ tip = [b \in Branches |-> 0]
  /\ scan = Idle /\ alloc = [w \in Checkouts |-> NoAlloc]

\* A source changes while a scan goes on.
Touched(s) == scan' = [scan EXCEPT !.same = @ \ {s}]

-----------------------------------------------------------------------------
(* The users of the repository.                                            *)

Locked(w) == alloc[w].pc # "idle"

Edit(w, t, dir) ==
  /\ ~Locked(w) /\ edits < MaxEdits /\ Seen(work[w][t])
  /\ edits' = edits + 1
  /\ work' = [work EXCEPT ![w][t] = [rev |-> edits', dir |-> dir]]
  /\ Touched(w)
  /\ UNCHANGED <<tree, tip, clock, scans, creates, alloc>>

Commit(w) ==
  /\ \E t \in Ids : Dirty(w, t)
  /\ tree' = [tree EXCEPT ![w] = [t \in Ids |->
                IF Dirty(w, t) THEN [rev |-> work[w][t].rev, dir |-> work[w][t].dir, at |-> clock] ELSE @[t]]]
  /\ tip' = [tip EXCEPT ![w] = clock]
  /\ Touched(w)
  /\ UNCHANGED <<work, clock, edits, scans, creates, alloc>>

\* A commit of something else.
CommitOther(b) ==
  /\ tip[b] < clock /\ tip' = [tip EXCEPT ![b] = clock]
  /\ UNCHANGED <<work, tree, clock, edits, scans, creates, scan, alloc>>

\* A branch is moved to where a checkout's branch is.
Fork(b, w) ==
  /\ b \in Spare /\ tree[b] # tree[w]
  /\ tree' = [tree EXCEPT ![b] = tree[w]] /\ tip' = [tip EXCEPT ![b] = tip[w]]
  /\ Touched(b)
  /\ UNCHANGED <<work, clock, edits, scans, creates, alloc>>

Advance ==
  /\ clock < MaxClock /\ clock' = clock + 1
  /\ UNCHANGED <<work, tree, tip, edits, scans, creates, scan, alloc>>

-----------------------------------------------------------------------------
(* A scan: _visible_task_candidates_from_markdown.                         *)

Scanning(pc) == scan.pc = pc /\ UNCHANGED <<work, tree, tip, clock, edits, creates, alloc>>

\* The files are parsed.
ScanFiles ==
  /\ Scanning("idle") /\ scans < MaxScans /\ scans' = scans + 1
  /\ scan' = [Idle EXCEPT !.pc = "status", !.same = Recent(Viewer) \cup {Viewer}, !.file = work[Viewer]]

\* git status; a failure leaves every file newer than any commit.
ScanStatus ==
  /\ Scanning("status") /\ UNCHANGED scans
  /\ \/ scan' = [scan EXCEPT !.pc = "log", !.dirty = {t \in Ids : Dirty(Viewer, t)}]
     \/ scan' = [scan EXCEPT !.pc = "refs", !.failed = TRUE, !.key = [t \in Ids |-> Inf]]

\* git log; what it does not know is newer than any commit.
ScanLog ==
  /\ Scanning("log") /\ UNCHANGED scans
  /\ \/ scan' = [scan EXCEPT !.pc = "refs", !.key =
                   [t \in Ids |-> IF t \in scan.dirty \/ tree[Viewer][t] = NoCopy THEN Inf ELSE tree[Viewer][t].at]]
     \/ scan' = [scan EXCEPT !.pc = "refs", !.failed = TRUE, !.key = [t \in Ids |-> Inf]]

\* git for-each-ref
ScanRefs ==
  /\ Scanning("refs") /\ UNCHANGED scans
  /\ \/ scan' = [scan EXCEPT !.pc = "tree", !.refs = Recent(Viewer), !.same = @ \cap ({Viewer} \cup Recent(Viewer))]
     \/ scan' = [scan EXCEPT !.pc = "tree", !.failed = TRUE]

\* git ls-tree, of one branch after the other
ScanTree ==
  /\ Scanning("tree") /\ UNCHANGED scans
  /\ IF scan.refs = {} THEN scan' = [scan EXCEPT !.pc = "answer"]
     ELSE \E b \in scan.refs :
            /\ \A c \in scan.refs : tip[b] <= tip[c]
            /\ \/ scan' = [scan EXCEPT !.pc = "reflog", !.refs = @ \ {b}, !.ref = b, !.entries = tree[b]]
               \/ scan' = [scan EXCEPT !.refs = @ \ {b}, !.failed = TRUE]

\* Mutant: the time of a branch's copy is that of the branch.
Stamp_Tip(b, t) == tip[b]

\* The time of a name in git log.  ls-tree has named it from the project, log
\* from the root of the repository: below it they never agree, and the time of
\* the branch stands in for what git log does not know.
Stamp(b, t) == IF Below \/ tree[b][t] = NoCopy THEN tip[b] ELSE tree[b][t].at

\* The tasks of the branch that is read, each with its time.
Found(at) == {[src |-> scan.ref, task |-> t, rev |-> scan.entries[t].rev, at |-> at[t]] :
                t \in {u \in Ids : Seen(scan.entries[u])}}

ScanRefLog ==
  /\ Scanning("reflog") /\ UNCHANGED scans
  /\ \/ scan' = [scan EXCEPT !.pc = "tree", !.found = @ \cup Found([t \in Ids |-> Stamp(scan.ref, t)])]
     \/ scan' = [scan EXCEPT !.pc = "tree", !.failed = TRUE,
                             !.found = @ \cup Found([t \in Ids |-> tip[scan.ref]])]

Answered ==
  /\ Scanning("answer") /\ scan' = Idle /\ UNCHANGED scans

Candidates(t) ==
  {[src |-> Viewer, task |-> t, rev |-> scan.file[t].rev, at |-> scan.key[t]] : u \in {v \in {t} : Seen(scan.file[v])}}
  \cup {c \in scan.found : c.task = t}

\* The newest; of equally new ones a branch's.
Winner(t) ==
  LET newest == {c \in Candidates(t) : \A d \in Candidates(t) : d.at <= c.at}
      others == {c \in newest : c.src # Viewer} IN
    CHOOSE c \in newest : others # {} => c \in others

-----------------------------------------------------------------------------
(* A creation: _next_task_id.                                              *)

\* Mutant: the archive of a branch is forgotten.
RefNames_Active(b) == {t \in Ids : Seen(tree[b][t])}

\* _tree_file_names: the names in tasks, completed and archive/tasks
RefNames(b) == NamesIn(tree[b])

\* Ids in use: in this checkout's files, in the others' and on recent branches.
Used(w) == (UNION {NamesIn(work[v]) : v \in Checkouts}) \cup (UNION {NamesIn(tree[b]) : b \in Recent(w)})

Largest(S) == IF S = {} THEN 0 ELSE CHOOSE t \in S : \A u \in S : u <= t

Creating(w, pc) == alloc[w].pc = pc /\ UNCHANGED <<tree, tip, clock, edits, scans>>

BeginCreate(w) ==
  /\ Creating(w, "idle") /\ creates < MaxCreates /\ creates' = creates + 1
  /\ alloc' = [alloc EXCEPT ![w] = [NoAlloc EXCEPT !.pc = "refs", !.ids = NamesIn(work[w]), !.had = Used(w)]]
  /\ UNCHANGED <<work, scan>>

\* A git command that fails names nothing.
ReadRefs(w) ==
  /\ Creating(w, "refs") /\ UNCHANGED <<work, scan, creates>>
  /\ \/ alloc' = [alloc EXCEPT ![w].pc = "worktrees", ![w].ids = @ \cup UNION {RefNames(b) : b \in Recent(w)},
                               ![w].had = @ \cap Used(w)]
     \/ alloc' = [alloc EXCEPT ![w].pc = "worktrees", ![w].failed = TRUE]

ReadWorktrees(w) ==
  /\ Creating(w, "worktrees") /\ UNCHANGED <<work, scan, creates>>
  /\ \/ alloc' = [alloc EXCEPT ![w].pc = "write",
                               ![w].ids = @ \cup UNION {NamesIn(work[v]) : v \in Checkouts \ {w}}]
     \/ alloc' = [alloc EXCEPT ![w].pc = "write", ![w].failed = TRUE]

NewId(w) == Largest(alloc[w].ids) + 1

WriteNew(w) ==
  /\ Creating(w, "write") /\ NewId(w) \in Ids
  /\ work' = [work EXCEPT ![w][NewId(w)] = [rev |-> MaxEdits + creates, dir |-> "tasks"]]
  /\ alloc' = [alloc EXCEPT ![w] = NoAlloc]
  /\ Touched(w) /\ UNCHANGED creates

BranchNext ==
  \/ \E w \in Checkouts : \/ \E t \in Ids, dir \in Dirs : Edit(w, t, dir)
                          \/ Commit(w) \/ \E b \in Spare : Fork(b, w)
                          \/ BeginCreate(w) \/ ReadRefs(w) \/ ReadWorktrees(w) \/ WriteNew(w)
  \/ \E b \in Branches : CommitOther(b)
  \/ ScanFiles \/ ScanStatus \/ ScanLog \/ ScanRefs \/ ScanTree \/ ScanRefLog \/ Answered
  \/ Advance

BranchSpec == BranchInit /\ [][BranchNext]_branchVars

-----------------------------------------------------------------------------
(* Properties.                                                             *)

BranchTypeOK ==
  /\ \A w \in Checkouts, t \in Ids : work[w][t] = NoCopy \/ work[w][t] \in [rev : Nat, dir : Dirs]
  /\ \A b \in Branches, t \in Ids : tree[b][t] = NoCopy \/ tree[b][t] \in [rev : Nat, dir : Dirs, at : 0..clock]
  /\ \A b \in Branches : tip[b] <= clock
  /\ scan.same \subseteq Branches /\ scan.refs \subseteq Branches

\* A scan in which no git command has failed shows a task that some source has:
\* the copy of a source that was changed meanwhile, or one that no unchanged
\* source has a newer copy of.  Sources are the viewer's files, whatever their
\* state, and the branches that were recent when it began, when it listed them and
\* now.
VisibleIsLatest ==
  scan.pc = "answer" /\ ~scan.failed => \A t \in Ids :
    LET sources == {s \in scan.same \cap (Recent(Viewer) \cup {Viewer}) : Has(s, t)} IN
      /\ sources # {} => Candidates(t) # {}
      /\ Candidates(t) # {} /\ Winner(t).src \in scan.same =>
           \A s \in sources : Changed(s, t) <= Changed(Winner(t).src, t)

\* With the types: what a finished scan shows is the latest.
ShowsLatestCopy == BranchTypeOK /\ VisibleIsLatest

\* An id that is given out is not one that a checkout's files or a recent branch
\* used when the creation began, when it listed the branches and when it writes,
\* if git has answered.
AllocatesFresh ==
  \A w \in Checkouts : alloc[w].pc = "write" /\ alloc'[w].pc = "idle" /\ ~alloc[w].failed =>
    NewId(w) \notin alloc[w].had \cap Used(w)

\* Of every step.
NewIdIsFresh == [][AllocatesFresh]_branchVars
=============================================================================
