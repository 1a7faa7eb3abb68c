SPECIFICATION Spec
CONSTANTS
  c1 = c1
  c2 = c2
  c3 = c3
  k1 = k1
  k2 = k2
  None = None
  Dangling = Dangling
  Cores = {c1, c2}
  Kinds <- MCKinds
  Uses <- UsesMixed
  Announces = {c1}
  Lacks <- LacksAvInfo
  NeedFullpath = {c2}
  Counters = {k1, k2}
  CounterOf <- OwnCounters
  MAX_COUNTERS = 2
  ContentSize = 3
  MaxOpens = 2
  ClosesFirst = FALSE
CHECK_DEADLOCK FALSE
INVARIANTS TableMapped FlagsAgree CountersListedOnce
