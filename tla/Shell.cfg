SPECIFICATION FairSpec
CONSTANTS
  Lines <- SomeLines
  MaxProcs = 4
  PipeSize = 1
INVARIANTS
  TypeOK
  TerminalBack
  WaitsBalance
  NoPipeLeft
  SigpipeIsTaken
PROPERTIES
  LineEnds
CHECK_DEADLOCK FALSE
