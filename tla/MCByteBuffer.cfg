SPECIFICATION FairBufferSpec
INVARIANTS InBounds CapacityBounded
PROPERTIES PrepareReturns FirstInFirstOut
CONSTANTS
  Stamps = 5
  ReadSize = 2
  MaxIn = 3
  FirstCap = 1
  Junk = Junk
