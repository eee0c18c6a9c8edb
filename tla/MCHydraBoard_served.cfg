SPECIFICATION FairSpec
CONSTANTS
  HYDRA_MAXDEV = 2
  Saps <- MCSaps
  Dests <- MCDests
  MaxRing = 2
  MaxOpens = 1
PROPERTY InterruptServed
