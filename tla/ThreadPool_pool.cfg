SPECIFICATION FairSpec
CONSTANTS
  Workers = {w1, w2, w3}
  Clients = {m1, m2}
  Work = {x1, x2, x3}
  None = None
CHECK_DEADLOCK FALSE
INVARIANT GoneIsQuiet
PROPERTIES KeepsPromise WorkEnds LoneWaiterReturns
