SPECIFICATION Spec
CONSTANTS
  Ids <- MC_Ids
  Functions <- MC_Functions
INVARIANTS
  TypeOK
  LiveCovered
  HolesAreFilled
