----------------------------- MODULE AutoCommit -----------------------------
(***************************************************************************)
(* Auto-commit around a mutation, src/backlog_py/runtime/git.py with       *)
(* with_project_write_lock of runtime/locks.py: under the write lock,      *)
(* look at the work tree, mutate, and commit the result if the tree was    *)
(* clean.  One mutation at a time: that is what the lock gives.  The user  *)
(* edits, stages and commits in the same repository and takes no lock.     *)
(*                                                                         *)
(* A file has a version in the work tree, in the index and in HEAD.  A     *)
(* version is who wrote it and one bit that tells it from the version      *)
(* before.  Git commands are atomic (git's own index lock); each may fail  *)
(* (a timeout, a rejected hook, a lock held by the user's command).        *)
(***************************************************************************)
EXTENDS Naturals

CONSTANTS Backlog,      \* files inside the backlog directory
          Config,       \* the config file, when it lies outside it
          Project,      \* every file under the project root
          Files,        \* every file of the repository
          GitFails,     \* commands that may fail
          Concurrent,   \* BOOLEAN: does the user act during a mutation too?
          Crashes       \* BOOLEAN: may the process die during a mutation?

\* What is assumed of them.
Assumptions ==
  /\ Backlog \cup Config \subseteq Project /\ Project \subseteq Files
  /\ GitFails \subseteq {"probe", "status", "add", "commit", "reset"}
  /\ Concurrent \in BOOLEAN /\ Crashes \in BOOLEAN

VARIABLES work, index, head,   \* the version of each file in the three places
          auto,                \* auto_commit in the config file
          pc,                  \* where the mutation is
          context,             \* AutoCommitContext: git_available, clean_before
          before               \* the work tree and index when the mutation began

vars == <<work, index, head, auto, pc, context, before>>

Versions == [by : {"user", "op"}, n : {0, 1}]

\* Every variable has its type, and only a tree found clean in a worktree gets
\* as far as git add (git.py:75-82).
TypeOK ==
  /\ work \in [Files -> Versions] /\ index \in [Files -> Versions]
  /\ head \in [Files -> Versions]
  /\ auto \in BOOLEAN
  /\ pc \in {"idle", "mutate", "maybe", "add", "commit", "reset", "dead"}
  /\ context \in [available : BOOLEAN, clean : BOOLEAN]
  /\ before \in [work : [Files -> Versions], index : [Files -> Versions]]
  /\ context.clean => context.available
  /\ pc \in {"add", "commit", "reset"} => context.clean

\* Outside a mutation.
NoContext == [available |-> FALSE, clean |-> FALSE]
NoBefore  == LET v == [f \in Files |-> [by |-> "user", n |-> 0]]
             IN  [work |-> v, index |-> v]

Init ==
  /\ work = [f \in Files |-> [by |-> "user", n |-> 0]]
  /\ index = work /\ head = work
  /\ auto \in BOOLEAN
  /\ pc = "idle"
  /\ context = NoContext
  /\ before = NoBefore

-----------------------------------------------------------------------------
Goto(from, to) == pc = from /\ pc' = to /\ UNCHANGED <<context, before>>

\* The mutation ends and the lock is released.
Return(from) == /\ pc = from /\ pc' = "idle"
                /\ context' = NoContext /\ before' = NoBefore

MayFail(command) == command \in GitFails

\* A new version of each file of fs, written by who.
Written(fs, who) ==
  [f \in Files |-> IF f \in fs THEN [by |-> who, n |-> 1 - work[f].n] ELSE work[f]]

\* git status --porcelain -- fs prints something.
Dirty(fs) == \E f \in fs : work[f] # index[f] \/ index[f] # head[f]

\* _auto_commit_pathspecs
Pathspecs == Backlog \cup Config

\* prepare_auto_commit.  A status that fails counts as clean.
Prepare ==
  /\ pc = "idle" /\ pc' = "mutate"
  /\ \E available \in {TRUE} \cup (IF MayFail("probe") THEN {FALSE} ELSE {}),
        clean \in {~Dirty(Project)} \cup (IF MayFail("status") THEN {TRUE} ELSE {}) :
       context' = [available |-> available, clean |-> available /\ clean]
  /\ before' = [work |-> work, index |-> index]
  /\ UNCHANGED <<work, index, head, auto>>

\* The mutation writes backlog or config files; a status-change hook may write
\* anything under the project root.
Mutate ==
  /\ Goto("mutate", "maybe")
  /\ \E fs \in SUBSET (Backlog \cup Config), hook \in SUBSET Project :
       work' = Written(fs \cup hook, "op")
  /\ UNCHANGED <<index, head, auto>>

\* The mutation raises, with some files already written: nothing is committed.
MutateFails ==
  /\ Return("mutate")
  /\ \E fs \in SUBSET (Backlog \cup Config) : work' = Written(fs, "op")
  /\ UNCHANGED <<index, head, auto>>

Wanted == auto /\ context.available /\ context.clean /\ Dirty(Pathspecs)

\* maybe_auto_commit up to git add: the config is read after the mutation.
Skip ==
  /\ Return("maybe")
  /\ ~Wanted \/ MayFail("status")
  /\ UNCHANGED <<work, index, head, auto>>

Proceed ==
  /\ Goto("maybe", "add")
  /\ Wanted
  /\ UNCHANGED <<work, index, head, auto>>

Add ==
  /\ Goto("add", "commit")
  /\ index' = [f \in Files |-> IF f \in Pathspecs THEN work[f] ELSE index[f]]
  /\ UNCHANGED <<work, head, auto>>

AddFails ==
  /\ Return("add") /\ MayFail("add")
  /\ UNCHANGED <<work, index, head, auto>>

\* git commit -m, without a pathspec: the whole index becomes HEAD.
Commit ==
  /\ Return("commit")
  /\ index # head
  /\ head' = index
  /\ UNCHANGED <<work, index, auto>>

\* MUTANT of CommitFails: what was added stays staged.
CommitFails_NoReset ==
  /\ Return("commit")
  /\ index = head \/ MayFail("commit")
  /\ UNCHANGED <<work, index, head, auto>>

\* A hook rejects it, it times out, or there is nothing to commit.
CommitFails ==
  /\ Goto("commit", "reset")
  /\ index = head \/ MayFail("commit")
  /\ UNCHANGED <<work, index, head, auto>>

\* git reset -- pathspecs; its own result is not looked at.
Reset ==
  /\ Return("reset")
  /\ \/ index' = [f \in Files |-> IF f \in Pathspecs THEN head[f] ELSE index[f]]
     \/ MayFail("reset") /\ UNCHANGED index
  /\ UNCHANGED <<work, head, auto>>

\* The process dies; the lock is released and another process may take it.
Crash ==
  /\ Crashes /\ pc \notin {"idle", "dead"} /\ pc' = "dead"
  /\ context' = NoContext /\ before' = NoBefore
  /\ UNCHANGED <<work, index, head, auto>>

Restart ==
  /\ Goto("dead", "idle")
  /\ UNCHANGED <<work, index, head, auto>>

-----------------------------------------------------------------------------
(* The user. *)

UserMayAct == Concurrent \/ pc \in {"idle", "dead"}

UserEdits(f) ==
  /\ UserMayAct
  /\ work' = Written({f}, "user")
  /\ UNCHANGED <<index, head, auto, pc, context, before>>

UserStages(f) ==
  /\ UserMayAct
  /\ index' = [index EXCEPT ![f] = work[f]]
  /\ UNCHANGED <<work, head, auto, pc, context, before>>

UserCommits ==
  /\ UserMayAct
  /\ head' = index
  /\ UNCHANGED <<work, index, auto, pc, context, before>>

UserTogglesAuto ==
  /\ UserMayAct
  /\ auto' = ~auto
  /\ UNCHANGED <<work, index, head, pc, context, before>>

Next ==
  \/ Prepare \/ Mutate \/ MutateFails \/ Skip \/ Proceed
  \/ Add \/ AddFails \/ Commit \/ CommitFails \/ Reset
  \/ Crash \/ Restart
  \/ \E f \in Files : UserEdits(f) \/ UserStages(f)
  \/ UserCommits \/ UserTogglesAuto

Spec == Init /\ [][Next]_vars

-----------------------------------------------------------------------------
(* Properties. *)

\* An auto-commit holds nothing but what the operation wrote, in files that were
\* clean when it began: edits made before it, staged or not, by the user or by
\* an operation that failed, are not committed under its name (git.py:60, 79-81),
\* and no file outside the backlog directory but the config file (git.py:500-513).
CommitIsOfItsWork ==
  pc = "commit" /\ pc' = "idle" => \A f \in Files : head'[f] # head[f] =>
    /\ f \in Backlog \cup Config
    /\ head'[f].by = "op" /\ before.work[f] = head[f] /\ before.index[f] = head[f]
CommitsOnlyItsWork == [][CommitIsOfItsWork]_vars

\* A mutation that ends without a commit leaves the index as it found it, so the
\* user's next commit does not pick up its files, unless git reset failed too
\* (git.py:86-100).
RestoresIndex ==
  pc \notin {"idle", "dead"} /\ pc' = "idle" =>
    \/ head' # head
    \/ index' = before.index
    \/ pc = "reset" /\ index' = index
IndexRestored == [][RestoresIndex]_vars

\* A mutation that is committed leaves its own files clean, the config file
\* included: the next one is not skipped for dirt of this one (git.py:86, 500-513).
CommitIsOfAllItsWork ==
  pc = "commit" /\ pc' = "idle" /\ head' # head =>
    \A f \in Backlog \cup Config : head'[f] = work'[f]
CommitsAllItsWork == [][CommitIsOfAllItsWork]_vars

-----------------------------------------------------------------------------
(* The inductive invariant: until git add the index is the one the         *)
(* operation found, and from then on it differs by the pathspecs; the work *)
(* tree differs by what the operation wrote; and a context that says clean *)
(* was true of the files under the project root, and still is of HEAD.     *)

Operating == {"mutate", "maybe", "add", "commit", "reset"}

IndexInv ==
  /\ pc \in {"mutate", "maybe", "add"} => index = before.index
  /\ pc \in {"commit", "reset"} =>
       index = [f \in Files |-> IF f \in Pathspecs THEN work[f] ELSE before.index[f]]

WorkInv ==
  /\ pc = "mutate" => work = before.work
  /\ pc \in Operating => \A f \in Files : work[f] = before.work[f] \/ work[f].by = "op"

CleanInv ==
  "status" \notin GitFails /\ pc \in Operating /\ context.clean =>
    \A f \in Project : before.work[f] = head[f] /\ before.index[f] = head[f]

IInv == TypeOK /\ IndexInv /\ WorkInv /\ CleanInv
=============================================================================
