SPECIFICATION Spec
CONSTANTS
  Procs = {p1, p2, p3}
  NoProc = NoProc
  Inodes = {i1, i2, i3}
  NoInode = NoInode
  NoMeta = NoMeta
  Faults = TRUE
SYMMETRY Symmetry
INVARIANTS MutualExclusion
PROPERTIES ImplementsWriteLock
CHECK_DEADLOCK FALSE
