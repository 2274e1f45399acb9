SPECIFICATION Spec
CONSTANTS
  Ids <- MC_Ids
  Functions <- MC_Functions
INVARIANT PointedInMemory
