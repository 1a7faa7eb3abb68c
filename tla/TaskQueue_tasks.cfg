SPECIFICATION TQFairSpec
CONSTANTS
  Plain = {p}
  Later = {s}
  Blocking = {b}
  Tasks <- MCTasks
  When <- MCWhen
  MaxCalls = 2
  MaxTime = 1
  NoTask = NoTask
INVARIANT OnePlace
PROPERTIES KeepsLife WaitsForUnscheduled ResetReachesAll EveryTaskTold
