------------------------------ MODULE MCFiles ------------------------------
(***************************************************************************)
(* The components that share the write lock and nothing else, each on a    *)
(* small instance: a behaviour is one of the component `part` names.  The  *)
(* parts take turns: the variables of every component are x1, x2 and so    *)
(* on, and those it has no use for are 0.                                  *)
(***************************************************************************)
EXTENDS Integers, TLC

CONSTANTS Births, NoOp, NoFile, NoUser,
          Users, Waits, Torn,                             \* ScratchEdit
          Lone, Titles, Cards, Foreign, NoRef,            \* Milestones
          Folders, Decisions, Slugs,                      \* Documents
          Sessions, Statuses, First, Absent,              \* Settings
          Lanes,                                          \* Board
          Backlog, Outside, Project, Files, GitFails,     \* AutoCommit
          MaxFaults, MaxWrites, MaxSaves, MaxRuns,        \* bounds
          MaxId, MaxRev, MoreFaults

VARIABLES part, x1, x2, x3, x4, x5, x6, x7, x8, x9, x10, x11

M == INSTANCE Milestones WITH
       Tasks <- Cards,
       file <- x1, ref <- x2, op <- x3, gone <- x4, faults <- x5, tidy <- x6

\* One milestone, and more that goes wrong.
M1 == INSTANCE Milestones WITH
        Births <- {Lone}, Tasks <- Cards, MaxFaults <- MoreFaults,
        file <- x1, ref <- x2, op <- x3, gone <- x4, faults <- x5, tidy <- x6

E == INSTANCE ScratchEdit WITH
       file <- x1, lock <- x2, session <- x3, copy <- x4, open <- x5, saves <- x6,
       authored <- x7, landed <- x8, late <- x9, writes <- x10, faults <- x11

D == INSTANCE Documents WITH
       MaxFaults <- MoreFaults,
       file <- x1, op <- x2, known <- x3, loose <- x4, faults <- x5

S == INSTANCE Settings WITH
       Tasks <- Cards, NoConfig <- NoFile, NoSession <- NoUser,
       config <- x1, status <- x2, lock <- x3, initLock <- x4, session <- x5, want <- x6,
       runs <- x7, faults <- x8

\* Floats are exact up to 7 and multiples of 7 from there on.
B == INSTANCE Board WITH
       Tasks <- 1..3, Columns <- Lanes, Step <- 2, Exact <- 7, Spacing <- 7,
       Ordinals <- {[n |-> 1, float |-> TRUE], [n |-> 2, float |-> FALSE], [n |-> 14, float |-> TRUE]},
       NoOrdinal <- Absent, MaxOps <- 2,
       card <- x1, op <- x2, ops <- x3, faults <- x4

A == INSTANCE AutoCommit WITH
       Config <- Outside, Concurrent <- FALSE, Crashes <- TRUE,
       work <- x1, index <- x2, head <- x3, auto <- x4, pc <- x5, context <- x6, before <- x7

\* Archiving from a dialog; creating through the daemon; filters and jumps over
\* three tasks; the editor and the settings.
T1 == INSTANCE Tui WITH
        Cards <- 2, Spare <- {}, Last <- 1, Deps <- <<<<>>, <<>>>>, Sources <- {"local"},
        Dialogs <- {"archive"}, Filters <- {}, MaxChanges <- 1, MaxJobs <- 1, MaxJumps <- 0, MaxQueue <- 1,
        disk <- x1, source <- x2, load <- x3, jobs <- x4, queue <- x5, app <- x6, jump <- x7, changes <- x8

T2 == INSTANCE Tui WITH
        Cards <- 2, Spare <- {2}, Last <- 2, Deps <- <<<<>>, <<>>>>, Sources <- {"daemon"},
        Dialogs <- {"create"}, Filters <- {}, MaxChanges <- 0, MaxJobs <- 1, MaxJumps <- 0, MaxQueue <- 1,
        disk <- x1, source <- x2, load <- x3, jobs <- x4, queue <- x5, app <- x6, jump <- x7, changes <- x8

T3 == INSTANCE Tui WITH
        Cards <- 3, Spare <- {}, Last <- 2, Deps <- <<<<2, 3>>, <<>>, <<>>>>, Sources <- {"local"},
        Dialogs <- {"search"}, Filters <- {0, 1}, MaxChanges <- 1, MaxJobs <- 0, MaxJumps <- 1, MaxQueue <- 1,
        disk <- x1, source <- x2, load <- x3, jobs <- x4, queue <- x5, app <- x6, jump <- x7, changes <- x8

T4 == INSTANCE Tui WITH
        Cards <- 1, Spare <- {}, Last <- 2, Deps <- <<<<>>>>, Sources <- {"local"},
        Dialogs <- {"editor", "settings"}, Filters <- {}, MaxChanges <- 1, MaxJobs <- 1, MaxJumps <- 0, MaxQueue <- 1,
        disk <- x1, source <- x2, load <- x3, jobs <- x4, queue <- x5, app <- x6, jump <- x7, changes <- x8

\* Calls on a file with one change by hand; repairs of a file with two.
X == INSTANCE TaskText WITH
       MaxHand <- 1, MaxEdits <- 1, MaxRepairs <- 1,
       doc <- x1, asked <- x2, hand <- x3, edits <- x4, repairs <- x5

R == INSTANCE TaskText WITH
       MaxHand <- 2, MaxEdits <- 0, MaxRepairs <- 1,
       doc <- x1, asked <- x2, hand <- x3, edits <- x4, repairs <- x5

ASSUME FilesAssumption ==
  /\ A!Assumptions /\ E!EditAssumption /\ D!DocumentsAssumption /\ S!SettingsAssumption
  /\ T1!TuiAssumption /\ T2!TuiAssumption /\ T3!TuiAssumption /\ T4!TuiAssumption

\* The variables from the nth on, and none of them in use.
From6 == <<x6, x7, x8, x9, x10, x11>>
From7 == <<x7, x8, x9, x10, x11>>
From8 == <<x8, x9, x10, x11>>
From9 == <<x9, x10, x11>>
From5 == <<x5, From6>>

Free9 == x9 = 0 /\ x10 = 0 /\ x11 = 0
Free8 == x8 = 0 /\ Free9
Free7 == x7 = 0 /\ Free8
Free6 == x6 = 0 /\ Free7
Free5 == x5 = 0 /\ Free6

MCInit ==
  \/ part = "milestones" /\ M!Init  /\ Free7
  \/ part = "milestone"  /\ M1!Init /\ Free7
  \/ part = "edit"       /\ E!EditInit
  \/ part = "documents"  /\ D!DocsInit /\ Free6
  \/ part = "settings"   /\ S!SettingsInit /\ Free9
  \/ part = "board"      /\ B!BoardInit /\ Free5
  \/ part = "commit"     /\ A!Init /\ Free8
  \/ part = "tui1"       /\ T1!TuiInit /\ Free9
  \/ part = "tui2"       /\ T2!TuiInit /\ Free9
  \/ part = "tui3"       /\ T3!TuiInit /\ Free9
  \/ part = "tui4"       /\ T4!TuiInit /\ Free9
  \/ part = "text"       /\ X!TextInit /\ Free6
  \/ part = "repair"     /\ R!TextInit /\ Free6

MCNext ==
  /\ UNCHANGED part
  /\ \/ part = "milestones" /\ M!Next  /\ UNCHANGED From7
     \/ part = "milestone"  /\ M1!Next /\ UNCHANGED From7
     \/ part = "edit"       /\ E!EditNext
     \/ part = "documents"  /\ D!DocsNext /\ UNCHANGED From6
     \/ part = "settings"   /\ S!SettingsNext /\ UNCHANGED From9
     \/ part = "board"      /\ B!BoardNext /\ UNCHANGED From5
     \/ part = "commit"     /\ A!Next /\ UNCHANGED From8
     \/ part = "tui1"       /\ T1!TuiNext /\ UNCHANGED From9
     \/ part = "tui2"       /\ T2!TuiNext /\ UNCHANGED From9
     \/ part = "tui3"       /\ T3!TuiNext /\ UNCHANGED From9
     \/ part = "tui4"       /\ T4!TuiNext /\ UNCHANGED From9
     \/ part = "text"       /\ X!TextNext /\ UNCHANGED From6
     \/ part = "repair"     /\ R!TextNext /\ UNCHANGED From6

mcVars == <<part, x1, x2, x3, x4, From5>>

MCSpec == MCInit /\ [][MCNext]_mcVars

\* Milestones: names and ids, what an operation leaves, when it raises and when it
\* succeeds, and that none is lost.
MilestonesSettled ==
  /\ part = "milestones" => M!MilestonesTypeOK /\ M!NamesOneMilestone /\ M!FailureRestores /\ M!ReferencesFollow
  /\ part = "milestone"  => M1!MilestonesTypeOK /\ M1!NamesOneMilestone /\ M1!FailureRestores /\ M1!ReferencesFollow
MilestonesKept ==
  /\ []MilestonesSettled
  /\ [][/\ part = "milestones" => M!KeepsMilestones
        /\ part = "milestone"  => M1!KeepsMilestones]_mcVars

\* ScratchEdit: what a user has saved, and what is written over.
EditsKeepBytes ==
  [](part = "edit" => E!EditTypeOK /\ E!BytesKept) /\ [][part = "edit" => E!KeepsOthersBytes]_mcVars

\* Documents: ids, and that none is lost.
DocumentsKept ==
  [](part = "documents" => D!DocumentsTypeOK /\ D!IdsNameOneDocument) /\ [][part = "documents" => D!KeepsDocuments]_mcVars

\* Settings: what was asked for holds, and the statuses of tasks stay.
SettingsTakeEffect ==
  [](part = "settings" => S!SettingsTypeOK /\ S!SettingsTakeEffect) /\ [][part = "settings" => S!KeepsStatuses]_mcVars

\* Board: sorts and failed batches, and the end of the column.
BoardOutcomes ==
  [](part = "board" => B!BoardTypeOK /\ B!BoardOutcomes) /\ [][part = "board" => B!Appends]_mcVars

\* AutoCommit: what is committed, and what is left.
CommitsItsWork ==
  [][part = "commit" => A!CommitIsOfItsWork /\ A!CommitIsOfAllItsWork /\ A!RestoresIndex]_mcVars

\* Tui: what is selected, and what a dialog is about.
TuiBoard ==
  /\ part = "tui1" => T1!TuiTypeOK /\ T1!SelectionIsOnBoard /\ T1!DialogKeepsItsTask
  /\ part = "tui2" => T2!TuiTypeOK /\ T2!SelectionIsOnBoard /\ T2!DialogKeepsItsTask
  /\ part = "tui3" => T3!TuiTypeOK /\ T3!SelectionIsOnBoard /\ T3!DialogKeepsItsTask
  /\ part = "tui4" => T4!TuiTypeOK /\ T4!SelectionIsOnBoard /\ T4!DialogKeepsItsTask

\* Tui: what is carried out, and through which source.
TuiWrites ==
  [][(part \in {"tui1", "tui2", "tui3", "tui4"}) => T1!CarriedOutOnce' /\ T1!LeavesSource]_mcVars

\* TaskText: what an edit changes, and what a repair.
EditIsLocal == [][part = "text" => X!EditsOnlyWhatIsAsked]_mcVars
RepairIsFaithful == [][part = "repair" => R!RepairsFaithfully]_mcVars

\* No action tells births or sessions apart.
Symmetry == Permutations(Births) \cup Permutations(Sessions)
=============================================================================
