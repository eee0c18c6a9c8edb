SPECIFICATION Spec
CONSTANTS
  Units <- TwoDisks
  Chunks = 2
  MaxBufs <- TwoAndOne
  MaxDetours = 2
  Quirks <- Odd
INVARIANTS UnitInOnePlace NoneWaitsWhenIdle DmaInStep
PROPERTY SenseFindsCheck
