SPECIFICATION AccountsSpec
CONSTANTS
  Person = {alice, bob}
  Nobody = Nobody
  MaxJobs = 2
  MaxStarts = 2
  MaxSignOuts = 1
  MaxStops = 1
  Mention = {m1}
  MaxSignIns = 2
  MaxLists = 2
  MaxMarks = 1
  MaxRuns = 2
INVARIANTS
  NextStartAgrees
  ShownIsMine
  InboxConverges
PROPERTIES
  ImplementsIdentity
  EventuallyLoaded
CHECK_DEADLOCK FALSE
