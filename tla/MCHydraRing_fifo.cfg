SPECIFICATION FairSpec
CONSTANTS
  RxStart = 8
  Stop = 14
  MaxLoop = 7
  FrameLens <- MCTwoLens
  MaxFrames = 3
  MaxHistory = 3
  Faults <- BadFrames
  NoiseHeaders <- MCNoise
INVARIANTS InOrderDelivery EveryFrameAccountedFor
PROPERTY RingIsFifo
