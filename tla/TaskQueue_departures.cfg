SPECIFICATION TQFairSpec
CONSTANTS
  Plain = {p}
  Later = {}
  Blocking = {}
  Tasks <- MCTasks
  When <- MCWhen
  MaxCalls = 1
  MaxTime = 1
  NoTask = NoTask

\* What the code departs from, one at a time: uncomment another to see it.
PROPERTY ShutdownEnds
\* PROPERTY WaitTells
