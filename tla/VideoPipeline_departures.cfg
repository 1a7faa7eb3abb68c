SPECIFICATION Spec
CONSTANTS
  MenuSize = 2
  CoreSizes = {1, 3}
  MaxLeaked = 1
CHECK_DEADLOCK TRUE

\* What the code departs from, one at a time: uncomment another to see it.
INVARIANT OneWindow
\* INVARIANT CoreFrameFits
\* INVARIANT DefaultFormat
\* PROPERTY CoreFrameDrawn
\* PROPERTY MenuDrawsInBounds
\* PROPERTY BlurInBounds
