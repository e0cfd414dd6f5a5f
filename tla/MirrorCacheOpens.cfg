SPECIFICATION Spec
CONSTANTS
  Panel = {p1}
  Reader = {r1}
  None = None
  MaxLoads = 1
  MaxCrashes = 0
INVARIANTS
  OpensFinished
CHECK_DEADLOCK FALSE
