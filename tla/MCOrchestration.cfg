SPECIFICATION MCSpec
CONSTANTS
  Tasks = {t1, t2}
  NoTask = NoTask
  a1 = a1
  a2 = a2
  Actors = {a1, a2}
  NoActor = NoActor
  Keys = {k1}
  NoKey = NoKey
  EscapedKeys = {}
  Statuses <- DefaultStatuses
  NoStatus = NoStatus
  Claimable = {"todo"}
  Terminal = {"complete"}
  Transitions <- DefaultTransitions
  Entry = "todo"
  BoardStatuses = {"todo", "inprogress"}
  CompleteStatuses = {"complete"}
  Updates <- LeaseUpdates
  TTL = 1
  NoTime = 0
  NoSplit = NoSplit
  MaxEntries = 2
  MaxDroppedKeys = 1
  MaxVersion = 3
  MaxClock = 2
  MaxItems = 2
  Children = {1, 2, 3}
SYMMETRY Symmetry
INVARIANTS ClaimReplays KeysUnique EligibleIsClaimable SplitsLeaveNoOrphans
PROPERTIES NoLostUpdate LeaseRespected WorkflowOrder SplitKeyOnce
CHECK_DEADLOCK FALSE
