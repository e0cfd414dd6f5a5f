SPECIFICATION Spec
CONSTANTS
  N = 2
  Name = {main, dev}
  Commit = {c1, c2}
  NoRef = NoRef
  Unlisted = Unlisted
  MaxRaces = 1
SYMMETRY Symmetry
INVARIANTS BroadcastHeld PushSettles OverwrittenTipsKept
PROPERTY LocalRefsKept
CHECK_DEADLOCK FALSE
