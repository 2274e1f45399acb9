SPECIFICATION FairSpec
CONSTANTS
  Files = 3
  HasCode <- MC_HasCode
  Constants <- MC_Constants
  Outputs <- MC_Outputs
INVARIANTS
  TypeOK
  SequentialLinksAll
  LinkedWereAssembled
PROPERTY
  Terminates
