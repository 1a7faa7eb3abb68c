SPECIFICATION Spec
CONSTANTS
  MaxGames = 5
  PerPage = 2
  Iconless = {1, 2}
  BootFrames = 2
  UIntMax = 15
  MaxPages = 2
CHECK_DEADLOCK FALSE
INVARIANTS CursorOnPage PageShown LoadsOnce
PROPERTY MovesOncePerPress
