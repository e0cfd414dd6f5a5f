SPECIFICATION Spec
CONSTANTS
  Repo = {r1}
  MaxCommits = 1
  MaxLocals = 1
PROPERTIES
  OldStatusesForgotten
CHECK_DEADLOCK FALSE
