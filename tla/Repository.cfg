SPECIFICATION RepositorySpec
CONSTANTS
  r1 = r1
  r2 = r2
  bootstrap = bootstrap
  gossip = gossip
  i1 = i1
  i2 = i2
  Person = {alice, bob}
  Nobody = Nobody
  Parts = 2
  MaxTasks = 2
  MaxActions = 2
  MaxSwitches = 1
  Relay = {r1, r2}
  Bootstrap = bootstrap
  Gossip = gossip
  Root = {i1, i2}
  MaxVersion = 2
  Listed <- MCListed
  Maintainers <- MCMaintainers
  Uncensored = TRUE
  World <- MCWorld
  MaxPasses = 2
  MaxFailures = 1
  Trusted = {bob}
  Status = {open, closed}
  OpenStatus = open
  All = all
  MaxPosts = 2
  MaxStatuses = 2
  MaxTime = 2
INVARIANTS
  WellTyped
  FindsEverything
  PullIsWhole
  FailuresAreShown
  ListsAreRight
CHECK_DEADLOCK FALSE
