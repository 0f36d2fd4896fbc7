SPECIFICATION MCSpec
CONSTANTS
  Cards = 1
  Spare = {}
  Last = 2
  Deps <- NoDeps
  Sources = {"daemon"}
  Dialogs = {}
  Filters = {}
  MaxChanges = 0
  MaxJobs = 1
  MaxJumps = 0
  MaxQueue = 1
INVARIANTS FailuresAreSurfaced
CHECK_DEADLOCK FALSE
