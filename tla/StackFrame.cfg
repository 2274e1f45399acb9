SPECIFICATION Spec
CONSTANTS
  IntRegs <- MC_IntRegs
  FloatRegs <- MC_FloatRegs
  FloatSize <- MC_FloatSize
  CalleeSaved <- MC_CalleeSaved
  Garbage = "garbage"
  MaxDepth = 80
  Functions <- MC_Functions
INVARIANTS
  TypeOK
  AlignedAtCall
  ReturnFindsFrame
  SavedAcrossCall
  SlotsSurvive
  CalleeSavedWithoutSlots
