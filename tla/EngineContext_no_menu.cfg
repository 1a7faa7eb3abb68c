SPECIFICATION Spec
CONSTANTS
  Contexts = {c1, c2}
  Tiles = {t1, t2, t3}
  Null = Null
  MinSize = 2
  Sizes = {0}
INVARIANT InitSurvives
\* The process ends with a fault.
CHECK_DEADLOCK FALSE
