SPECIFICATION Spec
CONSTANTS
  Files = {task}
  Data = {a, b}
  NoFile = NoFile
  NoHash = NoHash
  Tick = 2
  Window = 2
  MaxClock = 4
  MaxWrites = 1
  Loaders = {p1}
  Inodes = {i1, i2}
  NoInode = NoInode
  Empty = Empty
  Broken = Broken
  MaxRebuilds = 2
  MaxErrors = 0
INVARIANTS RowsDescribeFingerprint
CHECK_DEADLOCK FALSE
