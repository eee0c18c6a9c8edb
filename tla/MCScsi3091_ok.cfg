SPECIFICATION FairSpec
CONSTANTS
  Units <- TwoDisks
  Chunks = 2
  MaxBufs <- TwoAndOne
  MaxDetours = 2
  Quirks <- WellBehaved
INVARIANT NeverDead
PROPERTY RequestsEndInOrder
