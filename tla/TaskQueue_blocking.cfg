SPECIFICATION TQFairSpec
CONSTANTS
  Plain = {p}
  Later = {}
  Blocking = {b1,b2}
  Tasks <- MCTasks
  When <- MCWhen
  MaxCalls = 1
  MaxTime = 1
  NoTask = NoTask
INVARIANTS TQTypeOK OneBlocking
