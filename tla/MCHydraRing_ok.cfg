SPECIFICATION Spec
CONSTANTS
  RxStart = 8
  Stop = 14
  MaxLoop = 7
  FrameLens <- MCFrameLens
  MaxFrames = 5
  MaxHistory = 5
  Faults <- NoFaults
  NoiseHeaders <- MCNoise
INVARIANTS TypeOK NicSparesUnread NoLostWakeup
PROPERTY LossOnlyWhenFull
