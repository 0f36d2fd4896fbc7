---------------------------- MODULE ScratchEdit ----------------------------
(***************************************************************************)
(* Editing a task file in $EDITOR through a scratch copy                   *)
(* (src/backlog_py/core/editing.py): the project write lock is taken only  *)
(* to apply the result.  Several users edit one task while others write or *)
(* move it under the lock.                                                 *)
(*                                                                         *)
(* An editor of Waits returns once it is closed; any other returns at some *)
(* time and may stay open.  A content is what its author wrote; what       *)
(* write_bytes leaves between truncating the file and its end is Torn.     *)
(***************************************************************************)
EXTENDS Integers, FiniteSets, TLC

CONSTANTS Users,     \* editing sessions
          Waits,     \* those whose editor returns when it is closed
          NoFile,    \* no such file
          Torn,      \* a part of some bytes
          NoUser,    \* the lock is free
          MaxWrites, \* bound on the writes of others
          MaxSaves,  \* bound on the saves of one user
          MaxFaults  \* bound on failing calls and deaths

\* What is assumed of the names: a mark for no file, or for half of one, is not
\* what somebody wrote.
EditAssumption ==
  /\ NoUser \notin Users
  /\ \A c \in {NoFile, Torn} : c \notin [by : Users \cup {NoUser}, n : Nat]
  /\ MaxWrites \in Nat /\ MaxSaves \in Nat /\ MaxFaults \in Nat

VARIABLES file,    \* the task file
          lock,    \* the session that holds the write lock
          session, \* session[u]: the state of edit_via_scratch_copy
          copy,    \* copy[u]: the scratch copy
          open,    \* users whose editor is open
          saves,   \* saves[u]: how often u has saved
          authored,\* authored[u]: what u saved last and did not take back
          landed,  \* contents that have been in the task file, in full
          late,    \* users that saved after their copy had been read
          writes, faults

editVars == <<file, lock, session, copy, open, saves, authored, landed, late, writes, faults>>

By(u, n) == [by |-> u, n |-> n]
Content  == {NoFile, Torn} \cup [by : Users \cup {NoUser}, n : Nat]
Pcs      == {"idle", "editor", "read", "lock", "compare", "write", "writing",
             "release", "cleanup", "kept", "removed"}

EditTypeOK ==
  /\ file \in Content /\ lock \in Users \cup {NoUser}
  /\ session \in [Users -> [pc : Pcs, original : Content, edited : Content]]
  /\ copy \in [Users -> Content] /\ authored \in [Users -> Content]
  /\ open \subseteq Users /\ late \subseteq Users /\ landed \subseteq Content
  /\ saves \in [Users -> 0..MaxSaves] /\ writes \in 0..MaxWrites /\ faults \in 0..MaxFaults

EditInit ==
  /\ file = By(NoUser, 0) /\ lock = NoUser /\ open = {} /\ landed = {} /\ late = {}
  /\ session = [u \in Users |-> [pc |-> "idle", original |-> NoFile, edited |-> NoFile]]
  /\ copy = [u \in Users |-> NoFile] /\ authored = [u \in Users |-> NoFile]
  /\ saves = [u \in Users |-> 0] /\ writes = 0 /\ faults = 0

At(u, pc)   == session[u].pc = pc
Goto(u, pc) == session' = [session EXCEPT ![u].pc = pc]
Fault       == faults < MaxFaults /\ faults' = faults + 1
users       == <<copy, open, saves, authored, late>>

\* The file is read without the lock and copied.
Start(u) ==
  /\ At(u, "idle") /\ file # NoFile
  /\ session' = [session EXCEPT ![u] = [pc |-> "editor", original |-> file, edited |-> NoFile]]
  /\ copy' = [copy EXCEPT ![u] = file] /\ open' = open \cup {u}
  /\ UNCHANGED <<file, lock, saves, authored, landed, late, writes, faults>>

-----------------------------------------------------------------------------
(* The editor. *)

HasDirectory(u) == ~At(u, "idle") /\ ~At(u, "removed")

\* The user saves something new, or the original; after the copy has been read
\* the session no longer sees it.
Save(u) ==
  /\ u \in open /\ HasDirectory(u) /\ saves[u] < MaxSaves
  /\ saves' = [saves EXCEPT ![u] = @ + 1]
  /\ \/ /\ copy' = [copy EXCEPT ![u] = By(u, saves'[u])]
        /\ authored' = [authored EXCEPT ![u] = By(u, saves'[u])]
     \/ /\ copy' = [copy EXCEPT ![u] = session[u].original]
        /\ authored' = [authored EXCEPT ![u] = NoFile]
  /\ late' = IF At(u, "editor") \/ At(u, "read") THEN late ELSE late \cup {u}
  /\ UNCHANGED <<file, lock, session, open, landed, writes, faults>>

\* Deleting the copy aborts the edit.
DeleteCopy(u) ==
  /\ u \in open /\ At(u, "editor")
  /\ copy' = [copy EXCEPT ![u] = NoFile] /\ authored' = [authored EXCEPT ![u] = NoFile]
  /\ UNCHANGED <<file, lock, session, open, saves, landed, late, writes, faults>>

CloseEditor(u) ==
  /\ u \in open /\ open' = open \ {u}
  /\ UNCHANGED <<file, lock, session, copy, saves, authored, landed, late, writes, faults>>

MayReturn(u) == At(u, "editor") /\ (u \in Waits => u \notin open)

EditorReturns(u) ==
  /\ MayReturn(u) /\ Goto(u, "read")
  /\ UNCHANGED <<file, lock, users, landed, writes, faults>>

\* A status other than zero, or no such command.  copy_is_untouched: a copy that
\* is not there, or cannot be read, may hold something.
EditorFails(u) ==
  /\ MayReturn(u)
  /\ \/ /\ Goto(u, IF copy[u] = session[u].original THEN "cleanup" ELSE "kept")
        /\ UNCHANGED faults
     \/ Fault /\ Goto(u, "kept")
  /\ UNCHANGED <<file, lock, users, landed, writes>>

-----------------------------------------------------------------------------
(* Applying the copy. *)

ReadCopy(u) ==
  /\ At(u, "read")
  /\ \/ /\ session' = [session EXCEPT
             ![u].pc = CASE copy[u] = NoFile -> "cleanup"
                         [] copy[u] = session[u].original -> "kept"
                         [] OTHER -> "lock",
             ![u].edited = copy[u]]
        /\ UNCHANGED faults
     \/ Fault /\ Goto(u, "kept")
  /\ UNCHANGED <<file, lock, users, landed, writes>>

\* The lock may time out.
TakeLock(u) ==
  /\ At(u, "lock")
  /\ \/ lock = NoUser /\ lock' = u /\ Goto(u, "compare") /\ UNCHANGED faults
     \/ lock # NoUser /\ Goto(u, "kept") /\ UNCHANGED <<lock, faults>>
     \/ Fault /\ Goto(u, "kept") /\ UNCHANGED lock
  /\ UNCHANGED <<file, users, landed, writes>>

\* Mutant: the file is not read again.
Compare_Trusts(u) ==
  /\ At(u, "compare") /\ Goto(u, "write")
  /\ UNCHANGED <<file, lock, users, landed, writes, faults>>

\* apply_edit reads the file again.
Compare(u) ==
  /\ At(u, "compare")
  /\ \/ file = session[u].original /\ Goto(u, "write") /\ UNCHANGED <<lock, faults>>
     \/ file # session[u].original /\ Goto(u, "kept") /\ lock' = NoUser /\ UNCHANGED faults
     \/ Fault /\ Goto(u, "kept") /\ lock' = NoUser
  /\ UNCHANGED <<file, users, landed, writes>>

OpenFile(u) ==
  /\ At(u, "write")
  /\ \/ file' = Torn /\ Goto(u, "writing") /\ UNCHANGED <<lock, faults>>
     \/ Fault /\ Goto(u, "kept") /\ lock' = NoUser /\ UNCHANGED file
  /\ UNCHANGED <<users, landed, writes>>

WriteBytes(u) ==
  /\ At(u, "writing")
  /\ \/ /\ file' = session[u].edited /\ landed' = landed \cup {file'} /\ Goto(u, "release")
        /\ UNCHANGED <<lock, faults>>
     \/ Fault /\ Goto(u, "kept") /\ lock' = NoUser /\ UNCHANGED <<file, landed>>
  /\ UNCHANGED <<users, writes>>

\* The lock is released after the commit of the change, which may fail.
Release(u) ==
  /\ At(u, "release") /\ lock' = NoUser
  /\ \/ Goto(u, "cleanup") /\ UNCHANGED faults
     \/ Fault /\ Goto(u, "kept")
  /\ UNCHANGED <<file, users, landed, writes>>

RemoveScratch(u) ==
  /\ At(u, "cleanup") /\ Goto(u, "removed")
  /\ copy' = [copy EXCEPT ![u] = NoFile]
  /\ UNCHANGED <<file, lock, open, saves, authored, landed, late, writes, faults>>

\* The process dies; its lock is taken over.
Die(u) ==
  /\ session[u].pc \notin {"idle", "kept", "removed"} /\ Fault
  /\ Goto(u, "kept") /\ lock' = IF lock = u THEN NoUser ELSE lock
  /\ UNCHANGED <<file, users, landed, writes>>

\* Another writer, with the lock: new content, or the task moves away.
OtherWrite ==
  /\ lock = NoUser /\ writes < MaxWrites /\ file # NoFile
  /\ writes' = writes + 1 /\ file' \in {By(NoUser, writes'), NoFile}
  /\ UNCHANGED <<lock, session, users, landed, faults>>

EditNext ==
  \/ OtherWrite
  \/ \E u \in Users :
       \/ Start(u) \/ Save(u) \/ DeleteCopy(u) \/ CloseEditor(u) \/ EditorReturns(u)
       \/ EditorFails(u) \/ ReadCopy(u) \/ TakeLock(u) \/ Compare(u) \/ OpenFile(u)
       \/ WriteBytes(u) \/ Release(u) \/ RemoveScratch(u) \/ Die(u)

Spec == EditInit /\ [][EditNext]_editVars

-----------------------------------------------------------------------------
(* Properties. *)

Safe(u) == authored[u] \in {NoFile, copy[u]} \cup landed

\* What a user has saved, and did not take back, is in the copy or has been in
\* the task file, whatever fails or dies; but for what an editor that did not
\* wait saves after the copy has been read.
BytesKept == \A u \in Users : Safe(u) \/ (u \notin Waits /\ u \in late)

\* A session writes over the content its user began with only: nothing another
\* session or writer has put there since is lost.
KeepsOthersBytes ==
  \A u \in Users : session[u].pc = "write" /\ session'[u].pc = "writing"
                     => file = session[u].original
WritesOverOriginal == [][KeepsOthersBytes]_editVars

-----------------------------------------------------------------------------
(* The inductive invariant of BytesKept and WritesOverOriginal.            *)

Inside   == {"compare", "write", "writing", "release"}   \* with the lock
Applying == {"lock"} \cup Inside

\* What is in the file was written by others, or has landed.
Known == {NoFile, Torn} \cup [by : {NoUser}, n : Nat] \cup landed

\* Under the lock the file stands still, the copy that was read is the one that
\* is there, and the directory goes only when nothing in it is needed.
SessionInv(u) ==
  /\ session[u].original \in Known
  /\ authored[u] \in {NoFile} \cup [by : {u}, n : Nat]
  /\ At(u, "idle") => authored[u] = NoFile
  /\ session[u].pc \in Inside => lock = u
  /\ At(u, "write") => file = session[u].original
  /\ session[u].pc \in Applying => session[u].edited = copy[u] \/ u \in late
  /\ At(u, "release") => session[u].edited \in landed
  /\ At(u, "cleanup") => authored[u] \in {NoFile} \cup landed \/ u \in late
  /\ u \in late => session[u].pc \notin {"idle", "editor", "read"}
  /\ u \in Waits /\ session[u].pc \in {"read", "cleanup"} \cup Applying => u \notin open \cup late
  /\ Safe(u) \/ (u \notin Waits /\ u \in late)

EditInv == EditTypeOK /\ file \in Known /\ \A u \in Users : SessionInv(u)
=============================================================================
