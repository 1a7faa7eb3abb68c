SPECIFICATION Spec
CONSTANTS
  MaxUsers = 3
  MaxEvents = 3

\* What the code departs from, one at a time: uncomment another to see it.
PROPERTY QuitReturnsFalse
\* INVARIANT WindowHasInput
\* INVARIANT ActiveHasWindow
