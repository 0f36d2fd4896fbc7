SPECIFICATION MCSpec
CONSTANTS
  Files = {task}
  Data = {a, b}
  NoFile = NoFile
  NoHash = NoHash
  Tick = 1
  Window = 1
  MaxClock = 2
  MaxWrites = 1
  Loaders = {l1, l2}
  Inodes = {i1, i2}
  NoInode = NoInode
  Empty = Empty
  Broken = Broken
  MaxRebuilds = 2
  MaxErrors = 1
  Scanned = {conf, task}
  Threads = {r1, r2}
  Config = conf
  NoThread = NoThread
  NoScan = NoScan
  Tabs = {g1, g2}
  Narrow = {g1}
  NoTab = NoTab
SYMMETRY Symmetry
INVARIANTS ScanAnswerIsRecent LoadAnswerIsRecent ShowsLatestCopy
PROPERTIES NewIdIsFresh PagesFollowBoard BrowserWrites
CHECK_DEADLOCK FALSE
