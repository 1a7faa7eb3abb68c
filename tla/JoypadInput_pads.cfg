SPECIFICATION Spec
CONSTANTS
  MaxPlayers = 2
  KeyInputs = {"START"}
  ButtonInputs = {"B"}
  MaxInstances = 3
  MaxEvents = 2
CHECK_DEADLOCK FALSE
INVARIANTS NoClosedPad NoGhostKey
PROPERTY KeyReleased
