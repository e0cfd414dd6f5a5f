SPECIFICATION Spec
CONSTANTS
  Repo = {r1, r2}
  Directory = {d1}
  User = {alice}
  NoUser = NoUser
  None = None
  MaxVersion = 2
INVARIANTS
  SignedOutForgets
PROPERTIES
  NeverOlder
  CatchesUp
