\* No deadlock check: a heap that was written outside its bounds stops.
SPECIFICATION FairSpec
CONSTANTS
  MAX_HEAP = 88
  MAX_BLOCK_SIZE_EXP = 8
  Ids <- ThreeIds
  Sizes <- ThreeSizes
  Ops = {"ALLOC", "FREE"}
INVARIANTS
  Consistent
  CoalescedButTail
PROPERTIES
  GrowsForLackOfBins
  FreeReturns
CHECK_DEADLOCK FALSE
