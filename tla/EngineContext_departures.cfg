SPECIFICATION Spec
CONSTANTS
  Contexts = {c1, c2}
  Tiles = {t1, t2, t3}
  Null = Null
  MinSize = 2
  Sizes = {2, 3}
\* The process ends with a fault.
CHECK_DEADLOCK FALSE

\* What the code departs from, one at a time: uncomment another to see it.
INVARIANT ActiveIsMenus
\* INVARIANT OthersUsable
