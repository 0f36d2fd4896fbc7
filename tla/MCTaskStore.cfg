SPECIFICATION MCSpec
CONSTANTS
  Births = {b1, b2}
  Watched = {}
  Slugs = {s1, s2}
  MaxId = 2
  MaxDeps = 1
  MaxFaults = 1
  NoTask = NoTask
  Watchable = b3
SYMMETRY Symmetry
INVARIANTS IdsNameOneTask
PROPERTIES NothingLost SuccessAddsNoDuplicate FailedWriteChangesNothing
           RenumberKeepsReferences ChecksKeepAcyclic ScanFindsTask
CHECK_DEADLOCK FALSE
