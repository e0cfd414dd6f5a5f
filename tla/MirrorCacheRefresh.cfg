SPECIFICATION Spec
CONSTANTS
  Panel = {p1, p2}
  Reader = {}
  None = None
  MaxLoads = 1
  MaxCrashes = 0
PROPERTIES
  RefreshAvoidsPush
CHECK_DEADLOCK FALSE
