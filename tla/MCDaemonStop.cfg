SPECIFICATION ForwardSpec
CONSTANTS
  Commands = {c1, c2}
  Pids = {i1, i2}
  Ports = {q1}
  Calls = {k1}
  MaxLaunches = 2
  KeptLogs = 1
  NoProc = NoProc
  NoPort = NoPort
  NoRecord = NoRecord
  NoCommand = NoCommand
PROPERTIES StopWaitsForWrites
CHECK_DEADLOCK FALSE
