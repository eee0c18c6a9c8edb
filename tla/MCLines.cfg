SPECIFICATION Spec
CONSTANTS
  ParUsers = {"u1", "u2"}
  ParHiWat = 0
  ParBytes = 2
  ParOpens = 2
  ParTimeouts = 1
  SlBufSize = 4
  SlLowWater = 3
  SlHighWater = 3
  SlGlob = 2
  SlArrivals = 4
  SlOpens = 2
  RxCount = 3
  RxSizes = {1, 2}
  RxStreams = {1}
  RxRaw = {}
  RxFrames = 3
  AenUsers = 2
  TxCount = 1
  AenIoctls = {"clear", "get", "set", "flags", "other"}
  AenPuts = 3
  AenCtls = 3
  HydraStreams = {"s1", "s2"}
  HydraCalls <- MCHydraCalls
  PageLen = 2
  StopPage = 2
  DataLen = 3
  HydraMaxCalls = 2
  HydraBinds = 1
  HydraFaults = 1
INVARIANTS LinesTypeOK LinesInOrder LinesGoOn RequestsTakeEffect TtysInOrder TtysGoOn
PROPERTY UnservedOnlyInWindow
CHECK_DEADLOCK FALSE
