SPECIFICATION FairSpec
CONSTANTS
  RxStart = 8
  Stop = 15
  MaxLoop = 8
  FrameLens <- MCLongLens
  MaxFrames = 2
  MaxHistory = 2
  Faults <- BadChains
  NoiseHeaders <- MCNoise
INVARIANTS EmptyIsNotFull CopyStaysInRing
PROPERTY HandlerReturns
