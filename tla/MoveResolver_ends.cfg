SPECIFICATION FairSpec
CONSTANTS
  rdi = rdi
  rsi = rsi
  rdx = rdx
  rbx = rbx
  r15 = r15
  imm = imm
  frame = frame
  junk = junk
  rax = rax
  label = label
  l1 = l1
  l2 = l2
  l3 = l3
  rsp = rsp
  xmm0 = xmm0
  copied = copied
  seventh = seventh
  eighth = eighth
  ParamRegs <- MC_ParamRegs
  OtherRegs <- MC_OtherRegs
  Spill = r15
  Values <- MC_Values
  Cells <- MC_Cells
  Slot = junk
  AsGroup = rax
  RegSize = 4
  StableLength = 3
  Calls <- MC_Calls
PROPERTY
  Terminates
