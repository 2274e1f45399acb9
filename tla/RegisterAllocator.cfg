SPECIFICATION FairSpec
CONSTANTS
  a = a
  b = b
  c = c
  d = d
  x = x
  Ids <- MC_Ids
  Precision <- MC_Precision
  Registers <- MC_Registers
  PrecisionRegisters <- MC_PrecisionRegisters
  MaxParamReg = 1
  MaxParamPReg = 1
  Count = Count
  Functions <- MC_Functions
INVARIANTS
  TypeOK
  MutualOverlapsDiffer
  PushedGetsRegister
  EachRangeOnce
  OneRegisterPerRange
  QuietBlocksRespectPrecoloured
PROPERTY
  Terminates
