SPECIFICATION Spec
CONSTANTS
  HwFlow = FALSE
  Ixon = FALSE
  Ioctls = {"set", "setw"}
  Controls = {}
  MaxPut = 2
  MaxCtl = 2
  MaxOpens = 1
INVARIANT QueuedIoctlsServed
