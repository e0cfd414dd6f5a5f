SPECIFICATION Spec
CONSTANTS
  Panel = {p1}
  Reader = {}
  None = None
  MaxLoads = 2
  MaxCrashes = 1
INVARIANTS
  InterruptedReplaced
CHECK_DEADLOCK FALSE
