SPECIFICATION Spec
CONSTANTS
  MenuSize = 2
  CoreSizes = {1, 3}
  MaxLeaked = 1
CHECK_DEADLOCK TRUE
INVARIANTS PipelineWhole CrtOnBackbuffer BackbufferMatches FormatAgrees
