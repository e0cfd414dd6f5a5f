SPECIFICATION Spec
CONSTANTS
  Panel = {p1, p2}
  Reader = {}
  None = None
  MaxLoads = 1
  MaxCrashes = 1
INVARIANTS
  EnsuredIsWhole
  OnePush
PROPERTIES
  EverythingEnds
CHECK_DEADLOCK FALSE
