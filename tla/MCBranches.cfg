SPECIFICATION BranchSpec
CONSTANTS
  Checkouts = {1, 2}
  Spare = {}
  Viewer = 1
  Below = TRUE
  Days = 1
  MaxId = 1
  MaxEdits = 2
  MaxClock = 2
  MaxScans = 1
  MaxCreates = 0
INVARIANTS VisibleIsLatest
CHECK_DEADLOCK FALSE
