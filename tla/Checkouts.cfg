SPECIFICATION Spec
CONSTANTS
  Repo = {r1}
  MaxCommits = 1
  MaxLocals = 2
INVARIANTS
  PollingAlive
PROPERTIES
  CatchesUp
CHECK_DEADLOCK FALSE
