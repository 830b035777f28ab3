SPECIFICATION Spec
CONSTANTS
  a = a
  b = b
  s = s
  top = top
  x = x
  y = y
  z = z
  Names = {a, b, s}
  Dirs = {top, s}
  Top = top
  Home = top
  Copied <- Pairs
  DataWords = {x, y, z}
  Junk = Junk
  InitFiles <- Starts
  DATASIZE = 2
  MaxSize = 5
  Backlog = 0
INVARIANTS
  SentOnly
CHECK_DEADLOCK FALSE
