SPECIFICATION Spec
CONSTANTS
  p1 = p1
  p2 = p2
  Procs = {p1, p2}
  NHASH = 2
  Blocks = {0, 1, 2, 3}
  InitBlocks <- ThreeBlocks
  InitFree <- TwoFree
  SetFlags = {"L", "D"}
  ResetFlags = {"D"}
SYMMETRY Callers
INVARIANTS
  TypeOK
  FreeListExact
  UniqueBlocks
  NoLostWakeup
PROPERTIES
  ReuseIsSafe
  DirtyIsWritten
