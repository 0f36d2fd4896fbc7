SPECIFICATION FairSpec
CONSTANTS
  Procs = {p1, p2}
  NoProc = NoProc
  Inodes = {i1, i2, i3}
  NoInode = NoInode
  NoMeta = NoMeta
  Faults = FALSE
INVARIANTS HolderIsRecorded
PROPERTIES PruneKeepsLiveRecords AcquireEnds
CHECK_DEADLOCK FALSE
