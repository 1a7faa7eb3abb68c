SPECIFICATION FairSpec
CONSTANTS
  Workers = {w1, w2}
  Clients = {m1, m2}
  Work = {x1, x2}
  None = None
CHECK_DEADLOCK FALSE

\* What the code departs from, one at a time: uncomment another to see it.
PROPERTY WaitsForAll
\* INVARIANT NoFreedWork
\* PROPERTY WaiterReturns
