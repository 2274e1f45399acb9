SPECIFICATION SpecOptimized
CONSTANTS
  Registers <- MC_Registers
  Mem <- MC_Mem
  Functions <- MC_Functions
INVARIANTS
  TypeOK
  DominatorsSound
  PhisExact
  DefinitionsMeetInPhis
  UsesReachingDefinition
  OptimizerKeepsOutcome
PROPERTIES
  EndsForPlainLoops
