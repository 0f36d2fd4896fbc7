SPECIFICATION MCSpec
CONSTANTS
  Commands = {c1, c2}
  Calls = {k1}
  Pids = {i1, i2}
  Ports = {q1, q2}
  MaxLaunches = 2
  KeptLogs = 1
  NoProc = NoProc
  NoPort = NoPort
  NoRecord = NoRecord
  NoCommand = NoCommand
SYMMETRY Symmetry
INVARIANTS ManagedDaemonIsReachable RecordedLogIsKept TypedCallsReachTheirDaemon
PROPERTIES ServingRecordIsKept
CHECK_DEADLOCK FALSE
