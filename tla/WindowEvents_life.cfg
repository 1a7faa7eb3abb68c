SPECIFICATION Spec
CONSTANTS
  MaxUsers = 3
  MaxEvents = 3
INVARIANT NothingOutlivesUsers
PROPERTY OneInstancePerQuit
