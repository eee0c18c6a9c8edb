SPECIFICATION Spec
CONSTANTS
  Controls = {"brk"}
  Flags = {}
  Glob = 2
  BufSize = 3
  LowWater = 3
  HighWater = 2
  MaxPut = 1
  MaxCtl = 1
  MaxIn = 0
  MaxLine = 1
INVARIANT BreakEnds
CHECK_DEADLOCK FALSE
