SPECIFICATION Spec
CONSTANTS
  Person = {a, m}
  Maintainers = {m}
  Status = {open, closed}
  OpenStatus = open
  All = all
  MaxPosts = 2
  MaxStatuses = 2
  MaxTime = 2
INVARIANT RowsMatchFilter
CHECK_DEADLOCK FALSE
