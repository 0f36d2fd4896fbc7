SPECIFICATION MCSpec
CONSTANTS
  NoOp = NoOp
  NoFile = NoFile
  NoUser = NoUser
  Backlog = {"task"}
  Outside = {"config"}
  Project = {"task", "config"}
  Files = {"task", "config"}
  GitFails = {"probe", "add", "commit", "reset"}
  Births = {b1, b2}
  Lone = b3
  Users = {u1, u2}
  Waits = {u1}
  Torn = Torn
  Titles = {s1, 1}
  Cards = {t1}
  Foreign = Foreign
  NoRef = NoRef
  Folders = {f1, f2}
  Decisions = dd
  Slugs = {s1}
  Sessions = {e1, e2}
  Statuses = {a, b}
  First = a
  Absent = Absent
  Lanes = {c1, c2}
  MaxFaults = 1
  MaxWrites = 1
  MaxSaves = 2
  MaxRuns = 2
  MaxId = 2
  MaxRev = 1
  MoreFaults = 2
SYMMETRY Symmetry
INVARIANTS TuiBoard
PROPERTIES MilestonesKept EditsKeepBytes DocumentsKept SettingsTakeEffect BoardOutcomes CommitsItsWork
           TuiWrites EditIsLocal RepairIsFaithful
CHECK_DEADLOCK FALSE
