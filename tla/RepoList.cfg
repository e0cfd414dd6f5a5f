SPECIFICATION Spec
CONSTANTS
  r1 = r1
  r2 = r2
  alice = alice
  bob = bob
  NoUser = NoUser
  Repo <- MCRepo
  User <- MCUser
  Owner <- MCOwner
  Relayed <- MCRepo
  MaxStamp = 1
  MaxEvents = 3
INVARIANTS
  Converged
  OwnStatesAsked
PROPERTIES
  ImplementsSafeContract
  ServedOrAbandoned
CHECK_DEADLOCK FALSE
