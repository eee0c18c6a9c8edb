SPECIFICATION FairSpec
CONSTANTS
  HYDRA_MAXDEV = 2
  Saps <- MCSaps
  Dests <- MCDests
  MaxRing = 2
  MaxOpens = 3
INVARIANTS ClosedIsStopped OpenStreamsHaveBoard HandlerSeesWholeBoard StraysExplained UnservedOnlyInWindows
PROPERTY ServedWhenQuiet
