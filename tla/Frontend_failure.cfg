SPECIFICATION Spec
CONSTANTS
  c1 = c1
  c2 = c2
  None = None
  Dangling = Dangling
  Cores = {c1, c2}
  Kinds <- MCKinds
  Uses <- MCUses
  Announces = {c1}
  MaxEvents = 3
  MaxPosted = 5
CHECK_DEADLOCK TRUE
INVARIANTS
  TypeOK
  FailureReported
