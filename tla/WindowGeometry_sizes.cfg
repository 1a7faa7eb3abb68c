SPECIFICATION SizedSpec
CONSTANTS
  MaxUsers = 2
  MaxEvents = 1
  Desktop <- MCDesktop
  Menu <- MCMenu
  Geometries <- MCGeometries
  Overrides <- MCOverrides
  Scales = {0, 2, 5}
INVARIANTS
  FullscreenFits
  ShapeFollowsFrame
