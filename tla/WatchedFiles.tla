---------------------------- MODULE WatchedFiles ----------------------------
(***************************************************************************)
(* Files that others write while they are read without a lock, and the     *)
(* signature that decides whether a cached read of them is still current   *)
(* (indexing/sqlite.py, _file_signature): size and mtime, and the content  *)
(* too while the mtime is so recent that a second write could hide in it.  *)
(*                                                                         *)
(* Time is counted in units; the file system stamps a write with the start *)
(* of the current tick.  All contents have the same size.  A signature is  *)
(* taken of one file in one step.                                          *)
(***************************************************************************)
EXTENDS Integers, FiniteSets

CONSTANTS Files,     \* files a reader reads
          Data,      \* contents a file may have
          NoFile,    \* the file is not there
          NoHash,    \* a signature of size and mtime only
          Tick,      \* resolution of mtimes
          Window,    \* RACY_MTIME_WINDOW_NS
          MaxClock,  \* bound on time
          MaxWrites  \* bound on the writes of others

\* What is assumed of time, and of the names.
FilesAssumption ==
  /\ Tick \in Nat \ {0} /\ Window \in Nat /\ Tick <= Window
  /\ NoHash \notin Data

\* And of the bounds.
FilesBounds == MaxClock \in Nat /\ Window <= MaxClock /\ MaxWrites \in Nat

VARIABLES clock,     \* time_ns()
          file,      \* file[f]: its content and mtime
          lastHad,   \* lastHad[f][d]: the last time f had content d, -1: never
          writes     \* writes so far

fileVars == <<clock, file, lastHad, writes>>

Contents   == Data \cup {NoFile}
Signatures == [mtime : Nat \cup {-1}, hash : Data \cup {NoHash}]
Missing    == [mtime |-> -1, hash |-> NoHash]   \* of a file that is not there
None       == [f \in {} |-> NoFile]             \* what has been found so far of no file

FilesTypeOK ==
  /\ clock \in 0..MaxClock /\ writes \in 0..MaxWrites
  /\ file \in [Files -> [data : Contents, mtime : 0..MaxClock]]
  /\ lastHad \in [Files -> [Contents -> -1..MaxClock]]

FilesInit ==
  /\ clock = Window /\ writes = 0
  /\ file \in [Files -> [data : Contents, mtime : {0}]]
  /\ lastHad = [f \in Files |-> [d \in Contents |-> -1]]

Stamp(t) == t - (t % Tick)

\* Another process writes, creates or removes a file.
WriteFile(f) ==
  /\ writes < MaxWrites
  /\ writes' = writes + 1
  /\ \E d \in Contents \ {file[f].data} :
       file' = [file EXCEPT ![f] = [data |-> d, mtime |-> Stamp(clock)]]
  /\ lastHad' = [lastHad EXCEPT ![f][file[f].data] = clock]
  /\ UNCHANGED clock

Racy(mtime, now) == now - mtime < Window /\ mtime - now < Window

\* _file_signature of a file at the time of the call that lists it.
FileSignature(f, now) ==
  IF file[f].data = NoFile THEN Missing
  ELSE [mtime |-> file[f].mtime,
        hash  |-> IF Racy(file[f].mtime, now) THEN file[f].data ELSE NoHash]

\* Directories are listed sorted: the first file of a set in one fixed order.
First(fs) == CHOOSE f \in fs : TRUE

\* What has been found of each file so far, with one more.
Put(found, f, x) == [g \in DOMAIN found \cup {f} |-> IF g = f THEN x ELSE found[g]]

\* f had content d at time t or later.
HadSince(f, d, t) == file[f].data = d \/ lastHad[f][d] >= t

\* f had content d since t, or lost it in a tick that was still recent then.
Recent(f, d, t) == HadSince(f, d, t) \/ lastHad[f][d] > t - Window
=============================================================================
