SPECIFICATION Spec
CONSTANTS
  Births = {b1, b2}
  Watched = {}
  Slugs = {s1, s2}
  MaxId = 2
  MaxDeps = 1
  MaxFaults = 0
  NoTask = NoTask
INVARIANTS DependenciesAcyclic
CHECK_DEADLOCK FALSE
