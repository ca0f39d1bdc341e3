SPECIFICATION Spec
CONSTANTS
  Base = 5
  Names <- MCNames
  Values <- MCValues
  Pids = {0, 7, 24}
  MaxArgs = 2
  HeaderLen = 2
  BufSize = 10
  ReadSize = 18
CHECK_DEADLOCK FALSE
INVARIANTS
  WireInv
  RoundTrip
  LossContained
