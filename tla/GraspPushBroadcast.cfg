SPECIFICATION Spec
CONSTANTS
  N = 2
  Name = {main}
  Commit = {c1, c2}
  NoRef = NoRef
  Unlisted = Unlisted
  MaxRaces = 0
PROPERTY BroadcastFollows
CHECK_DEADLOCK FALSE
