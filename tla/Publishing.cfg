SPECIFICATION PublishingSpec
CONSTANTS
  Path = {p1, p2}
  Person = {a, b}
  Mark = {a, b}
  Nobody = nobody
  Relay = {x, y}
  Absent = absent
  Plain = plain
  MaxRescans = 2
  MaxTasks = 2
  MaxSwitches = 2
  MaxDeletes = 1
INVARIANTS RetractedWhereTaken PublishedIsServed NotOfferedAgain DeletedIsGone
PROPERTY ImplementsContract
CHECK_DEADLOCK FALSE
