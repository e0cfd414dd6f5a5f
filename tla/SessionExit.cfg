SPECIFICATION Spec
CONSTANTS
  Person = {alice}
  Nobody = Nobody
  MaxJobs = 1
  MaxStarts = 0
  MaxSignOuts = 1
  MaxStops = 1
INVARIANT SignedOutStays
CHECK_DEADLOCK FALSE
