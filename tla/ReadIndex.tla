----------------------------- MODULE ReadIndex -----------------------------
(***************************************************************************)
(* The disposable SQLite read index (src/backlog_py/indexing/sqlite.py) as *)
(* ReadOnlyRepository uses it: command processes load the task sources     *)
(* from the database when its fingerprint matches the files, and rebuild   *)
(* and publish them otherwise, with no transaction open in between.        *)
(*                                                                         *)
(* A database is an inode: discarding it unlinks the name, and who has it  *)
(* open reads and publishes on in the old one.  A repository object parses *)
(* a directory once (_task_dir_records_cached), so a second rebuild of the *)
(* same load returns the rows of the first.                                *)
(***************************************************************************)
EXTENDS WatchedFiles

CONSTANTS Loaders,   \* processes
          Inodes,    \* inodes of the database file
          NoInode,
          Empty,     \* a database without a fingerprint
          Broken,    \* a database that raises DatabaseError or has another schema
          MaxRebuilds, \* MAX_REBUILD_ATTEMPTS
          MaxErrors  \* bound on failing statements

\* What is assumed of them: a load rebuilds at least once.
IndexAssumption == FilesAssumption /\ MaxRebuilds \in Nat \ {0}

VARIABLES path,      \* inode the index path names
          db,        \* db[i]: what is committed in inode i
          load,      \* load[p]: the load of process p
          errors,    \* failures so far
          reused     \* some rebuild has returned the rows of an earlier one

indexVars == <<path, db, load, errors, reused>>

NoLoad == [pc |-> "idle", start |-> 0, now |-> 0, handle |-> NoInode, sig |-> None,
           fp |-> None, rows |-> None, rebuilds |-> 0, retried |-> FALSE]

Fingerprints == [Files -> Signatures]
Rows         == [Files -> Contents]

IndexTypeOK ==
  /\ path \in Inodes \cup {NoInode}
  /\ \A i \in Inodes : db[i] \in {Empty, Broken} \/ DOMAIN db[i].rows = Files
  /\ \A p \in Loaders :
       /\ load[p].pc \in {"idle", "open", "sign", "rebuild", "publish", "markdown", "answer"}
       /\ load[p].rebuilds \in 0..MaxRebuilds
       /\ load[p].pc \in {"sign", "rebuild", "publish"} => load[p].handle \in Inodes

IndexInit ==
  /\ path = NoInode /\ db = [i \in Inodes |-> Empty]
  /\ load = [p \in Loaders |-> NoLoad]
  /\ errors = 0 /\ reused = FALSE

Set(p, new) == load' = [load EXCEPT ![p] = new]

\* The connection is closed and the rows are returned.
Answering(l, rows) ==
  [NoLoad EXCEPT !.pc = "answer", !.start = l.start, !.fp = l.fp, !.rows = rows]
All(part)   == DOMAIN part = Files

Load(p) ==
  /\ load[p].pc = "idle"
  /\ Set(p, [NoLoad EXCEPT !.pc = "open", !.start = clock])
  /\ UNCHANGED <<path, db, errors, reused>>

\* _prepare_index_file and _ensure_schema: a missing file is created, in an
\* inode nobody has open; a foreign schema version or a corrupt file raises.
Open(p) ==
  /\ load[p].pc = "open"
  /\ \E i \in Inodes :
       /\ IF path # NoInode THEN i = path /\ UNCHANGED db
          ELSE /\ \A q \in Loaders : load[q].handle # i
               /\ db' = [db EXCEPT ![i] = Empty]
       /\ db'[i] # Broken
       /\ path' = i
       /\ Set(p, [load[p] EXCEPT !.pc = "sign", !.handle = i, !.now = clock, !.sig = None])
  /\ UNCHANGED <<errors, reused>>

\* build_project_fingerprint stats the files one by one.
Sign(p) ==
  /\ load[p].pc = "sign" /\ ~All(load[p].sig)
  /\ LET f == First(Files \ DOMAIN load[p].sig) IN
       Set(p, [load[p] EXCEPT !.sig = Put(@, f, FileSignature(f, load[p].now))])
  /\ UNCHANGED <<path, db, errors, reused>>

Cached(p, fp) == LET d == db[load[p].handle] IN d \notin {Empty, Broken} /\ d.fp = fp

\* Mutant: whatever was rebuilt is published.
Revalidates_Never(p) == load[p].rebuilds > 0

\* The rebuild is still described by the fingerprint taken before it.
Revalidates(p) == load[p].rebuilds > 0 /\ load[p].sig = load[p].fp

\* A complete fingerprint is looked up: its rows, or another rebuild, or the
\* rows that were read when the tree keeps moving.
Lookup(p) ==
  /\ load[p].pc = "sign" /\ All(load[p].sig) /\ db[load[p].handle] # Broken
  /\ LET l == [load[p] EXCEPT !.fp = load[p].sig] IN
       CASE Revalidates(p) -> Set(p, [l EXCEPT !.pc = "publish"])
         [] ~Revalidates(p) /\ Cached(p, l.fp) ->
              Set(p, Answering(l, db[l.handle].rows))
         [] ~Revalidates(p) /\ ~Cached(p, l.fp) ->
              Set(p, IF l.rebuilds = MaxRebuilds THEN Answering(l, l.rows)
                     ELSE [l EXCEPT !.pc = "rebuild"])
  /\ reused' = (reused \/ (load'[p].pc = "rebuild" /\ All(load[p].rows)))
  /\ UNCHANGED <<path, db, errors>>

\* _build_indexed_task_sources reads the files, or has them from before.
ReadRow(p) ==
  /\ load[p].pc \in {"rebuild", "markdown"} /\ ~All(load[p].rows)
  /\ LET f == First(Files \ DOMAIN load[p].rows) IN
       Set(p, [load[p] EXCEPT !.rows = Put(@, f, file[f].data)])
  /\ UNCHANGED <<path, db, errors, reused>>

Rebuilt(p) ==
  /\ load[p].pc = "rebuild" /\ All(load[p].rows)
  /\ Set(p, [load[p] EXCEPT !.pc = "sign", !.rebuilds = @ + 1, !.sig = None, !.now = clock])
  /\ UNCHANGED <<path, db, errors, reused>>

\* One write transaction replaces the rows and the fingerprint.
Publish(p) ==
  /\ load[p].pc = "publish" /\ db[load[p].handle] # Broken
  /\ db' = [db EXCEPT ![load[p].handle] = [fp |-> load[p].fp, rows |-> load[p].rows]]
  /\ Set(p, Answering(load[p], load[p].rows))
  /\ UNCHANGED <<path, errors, reused>>

\* load_task_sources once more, or the fallback to a direct read.
Retry(p) ==
  Set(p, [NoLoad EXCEPT !.pc = IF load[p].retried THEN "markdown" ELSE "open",
                        !.start = load[p].start, !.rows = load[p].rows, !.retried = TRUE])

AtDatabase(p) ==
  \/ load[p].pc \in {"open", "publish"}
  \/ load[p].pc = "sign" /\ All(load[p].sig)

\* The database stays locked by others for the whole busy timeout.
Busy(p) ==
  /\ AtDatabase(p) /\ errors < MaxErrors
  /\ errors' = errors + 1
  /\ Retry(p)
  /\ UNCHANGED <<path, db, reused>>

\* Any other error unlinks whatever the path names now.
Discard(p) ==
  /\ AtDatabase(p)
  /\ IF load[p].pc = "open" THEN path # NoInode /\ db[path] = Broken
                            ELSE db[load[p].handle] = Broken
  /\ path' = IF load[p].retried THEN path ELSE NoInode
  /\ Retry(p)
  /\ UNCHANGED <<db, errors, reused>>

\* A disk error, a killed writer, another version of the program.
Break(i) ==
  /\ errors < MaxErrors /\ errors' = errors + 1
  /\ path = i /\ db' = [db EXCEPT ![i] = Broken]
  /\ UNCHANGED <<path, load, reused>>

\* "SQLite task index unavailable, falling back to markdown".
Markdown(p) ==
  /\ load[p].pc = "markdown" /\ All(load[p].rows)
  /\ Set(p, Answering(load[p], load[p].rows))
  /\ UNCHANGED <<path, db, errors, reused>>

Finish(p) ==
  /\ load[p].pc = "answer"
  /\ Set(p, NoLoad)
  /\ UNCHANGED <<path, db, errors, reused>>

IndexStep ==
  \/ \E p \in Loaders :
       \/ Load(p) \/ Open(p) \/ Sign(p) \/ Lookup(p) \/ ReadRow(p) \/ Rebuilt(p) \/ Publish(p)
       \/ Busy(p) \/ Discard(p) \/ Markdown(p) \/ Finish(p)
  \/ \E i \in Inodes : Break(i)

\* A fingerprint takes less than the window.
Advance ==
  /\ clock < MaxClock
  /\ \A p \in Loaders : load[p].pc = "sign" => clock + 1 - load[p].now < Window
  /\ clock' = clock + 1
  /\ UNCHANGED <<file, lastHad, writes>>

Init == FilesInit /\ IndexInit

Next ==
  \/ IndexStep /\ UNCHANGED fileVars
  \/ (Advance \/ \E f \in Files : WriteFile(f)) /\ UNCHANGED indexVars

Spec == Init /\ [][Next]_<<fileVars, indexVars>>

-----------------------------------------------------------------------------
(* Properties. *)

\* As long as every rebuild reads the files, what a load returns each file had
\* since the load began, but for a recent tick (as in ScanCache) and for a file
\* that was created and removed again within a rebuild, which leaves no mtime
\* behind: whoever publishes, discards, breaks or holds an unlinked database.
IndexAnswerIsRecent ==
  ~reused => \A p \in Loaders : load[p].pc = "answer" =>
    \A f \in Files : LET row == load[p].rows[f] fp == load[p].fp IN
      \/ Recent(f, row, load[p].start)
      \/ f \in DOMAIN fp /\ fp[f] = Missing /\ row # NoFile

\* Published rows describe the state their fingerprint names: a content hash in
\* it is the hash of the row, and a file with the same mtime has that content.
\* The comment in _load_task_sources calls this what makes publishing safe.
RowsDescribeFingerprint ==
  \A i \in Inodes : db[i] \notin {Empty, Broken} =>
    \A f \in Files :
      LET entry == db[i].fp[f] row == db[i].rows[f] IN
        IF entry # Missing
        THEN /\ entry.hash # NoHash => row = entry.hash
             /\ entry.hash = NoHash /\ entry.mtime = file[f].mtime => row = file[f].data
        ELSE row = NoFile
=============================================================================
