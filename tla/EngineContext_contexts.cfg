SPECIFICATION Spec
CONSTANTS
  Contexts = {c1, c2}
  Tiles = {t1, t2, t3}
  Null = Null
  MinSize = 2
  Sizes = {1, 2, 3}
\* The process ends with a fault.
CHECK_DEADLOCK FALSE
INVARIANTS EngineWhole NothingHeld TargetFits NoFreedUse
