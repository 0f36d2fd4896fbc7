------------------------------ MODULE MCReads ------------------------------
(***************************************************************************)
(* The components that read what others write, each on a small instance:   *)
(* a behaviour is one of the component `part` names.  The parts take       *)
(* turns: the variables are those of ReadIndex, the other components use   *)
(* them for theirs, and those a component has no use for are 0.            *)
(***************************************************************************)
EXTENDS ReadIndex, TLC

CONSTANTS Scanned, Threads, Config, NoThread, NoScan,  \* ScanCache
          Tabs, Narrow, NoTab                          \* Browser

VARIABLES part

\* The contents of files are those of ReadIndex.
C == INSTANCE ScanCache WITH
       Files <- Scanned, Requests <- Threads,
       Tick <- 2, Window <- 2, MaxClock <- 5, MaxWrites <- 2,
       mutex <- path, cache <- db, req <- load

\* A scan while two checkouts edit and commit; creations in both, and a branch
\* that nobody has checked out.
V == INSTANCE Branches WITH
       Checkouts <- {1, 2}, Spare <- {}, Viewer <- 1, Below <- FALSE, Days <- 1,
       MaxId <- 1, MaxEdits <- 2, MaxClock <- 2, MaxScans <- 1, MaxCreates <- 0,
       work <- clock, tree <- file, tip <- lastHad, clock <- writes, edits <- path, scans <- db,
       creates <- load, scan <- errors, alloc <- reused

N == INSTANCE Branches WITH
       Checkouts <- {1, 2}, Spare <- {3}, Viewer <- 1, Below <- TRUE, Days <- 0,
       MaxId <- 3, MaxEdits <- 0, MaxClock <- 1, MaxScans <- 0, MaxCreates <- 2,
       work <- clock, tree <- file, tip <- lastHad, clock <- writes, edits <- path, scans <- db,
       creates <- load, scan <- errors, alloc <- reused

\* A page with a filter and settings that cannot be parsed; two pages.
W1 == INSTANCE Browser WITH
        Pages <- Narrow, Filtered <- Narrow, MaxId <- 2, NoPage <- NoTab, MaxChanges <- 2, MaxFaults <- 1,
        task <- clock, milestone <- file, broken <- lastHad, lock <- writes, request <- path, page <- db,
        service <- load, changes <- errors, faults <- reused

W2 == INSTANCE Browser WITH
        Pages <- Tabs, Filtered <- Narrow, MaxId <- 1, NoPage <- NoTab, MaxChanges <- 2, MaxFaults <- 0,
        task <- clock, milestone <- file, broken <- lastHad, lock <- writes, request <- path, page <- db,
        service <- load, changes <- errors, faults <- reused

ASSUME ReadsAssumption ==
  /\ C!CacheAssumption /\ C!FilesBounds /\ IndexAssumption /\ FilesBounds
  /\ V!BranchesAssumption /\ N!BranchesAssumption /\ W1!BrowserAssumption /\ W2!BrowserAssumption

mcVars == <<part, fileVars, indexVars>>

\* A project has a configuration file.
MCInit ==
  \/ part = "cache" /\ C!Init /\ file[Config].data # NoFile /\ errors = 0 /\ reused = 0
  \/ part = "index" /\ Init
  \/ part = "visible" /\ V!BranchInit
  \/ part = "new id" /\ N!BranchInit
  \/ part = "browser" /\ W1!BrowserInit
  \/ part = "pages" /\ W2!BrowserInit

MCNext ==
  /\ UNCHANGED part
  /\ \/ part = "cache" /\ C!Next /\ UNCHANGED <<errors, reused>>
     \/ part = "index" /\ Next
     \/ part = "visible" /\ V!BranchNext
     \/ part = "new id" /\ N!BranchNext
     \/ part = "browser" /\ W1!BrowserNext
     \/ part = "pages" /\ W2!BrowserNext

MCSpec == MCInit /\ [][MCNext]_mcVars

\* ScanCache: no answer is older than its request.
ScanAnswerIsRecent == part = "cache" => C!ScanAnswerIsRecent

\* ReadIndex: no answer is older than its load, as every variable has its type.
LoadAnswerIsRecent == part = "index" => IndexTypeOK /\ FilesTypeOK /\ IndexAnswerIsRecent

\* Branches: of a task's copies in the files and on the branches, the latest is
\* shown.
ShowsLatestCopy == part = "visible" => V!ShowsLatestCopy

\* Branches: a new task's id is not one that another checkout or branch uses.
NewIdIsFresh == [][part = "new id" => N!AllocatesFresh]_mcVars

\* Browser: no page is left with an older board, and none loads itself for nothing.
PageIsArmed ==
  /\ part = "browser" => W1!BrowserTypeOK /\ W1!StalePagesAreTold
  /\ part = "pages"   => W2!BrowserTypeOK /\ W2!StalePagesAreTold
PagesFollowBoard ==
  /\ []PageIsArmed
  /\ [][/\ part = "browser" => W1!ReloadsForChange
        /\ part = "pages"   => W2!ReloadsForChange]_mcVars

\* Browser: what an answer says was done, and on what was checked.
RequestsAreAnswered ==
  /\ part = "browser" => W1!AnswersAreTrue
  /\ part = "pages"   => W2!AnswersAreTrue
BrowserWrites ==
  /\ []RequestsAreAnswered
  /\ [][/\ part = "browser" => W1!WritesWhatItChecked
        /\ part = "pages"   => W2!WritesWhatItChecked]_mcVars

Symmetry == Permutations(Data) \cup Permutations(Threads)
            \cup Permutations(Loaders) \cup Permutations(Inodes)
=============================================================================
