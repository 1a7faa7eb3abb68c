SPECIFICATION Spec
CONSTANTS
  c1 = c1
  c2 = c2
  c3 = c3
  k1 = k1
  k2 = k2
  None = None
  Dangling = Dangling
  Cores = {c1, c2}
  Kinds <- MCKinds
  Uses <- UsesNone
  Announces = {c1}
  Lacks <- LacksNone
  NeedFullpath = {c2}
  Counters = {}
  CounterOf <- OwnCounters
  MAX_COUNTERS = 1
  ContentSize = 3
  MaxOpens = 1
  ClosesFirst = TRUE
CHECK_DEADLOCK TRUE
INVARIANT OwnOptions
