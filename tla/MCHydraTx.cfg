SPECIFICATION FairSpec
CONSTANTS
  NStreams = 3
  MaxPut = 2
  TxErrors = TRUE
  MaxFlush = 1
INVARIANTS StreamOrder WireMatchesStarted QueueHasWakeup
PROPERTY AllSent
