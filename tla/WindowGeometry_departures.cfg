SPECIFICATION SizedSpec
CONSTANTS
  MaxUsers = 2
  MaxEvents = 1
  Desktop <- MCDesktop
  Menu <- MCMenu
  Geometries <- MCGeometries
  Overrides <- MCOverrides
  Scales = {0, 2, 5}

\* What the code departs from, one at a time: uncomment another to see it.
INVARIANT DefaultAspect
\* INVARIANT WholeMultiple
\* INVARIANT MaximalScale
\* INVARIANT ForcedSize
