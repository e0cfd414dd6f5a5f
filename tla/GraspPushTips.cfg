SPECIFICATION Spec
CONSTANTS
  N = 2
  Name = {main}
  Commit = {c1, c2, c3}
  NoRef = NoRef
  Unlisted = Unlisted
  MaxRaces = 0
INVARIANT EveryTipKept
CHECK_DEADLOCK FALSE
