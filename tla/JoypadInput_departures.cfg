SPECIFICATION Spec
CONSTANTS
  MaxPlayers = 2
  KeyInputs = {"START"}
  ButtonInputs = {"B"}
  MaxInstances = 3
  MaxEvents = 2
CHECK_DEADLOCK FALSE

\* What the code departs from, one at a time: uncomment another to see it.
PROPERTY OthersKeepTheirs
\* PROPERTY OwnInputs
\* INVARIANT ConnectedIsHeard
