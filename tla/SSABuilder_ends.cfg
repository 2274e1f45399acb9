SPECIFICATION SpecOptimized
CONSTANTS
  Registers <- MC_Registers
  Mem <- MC_Mem
  Functions <- MC_Functions
PROPERTIES
  Terminates
