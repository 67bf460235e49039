\* No deadlock check: the loops end.
SPECIFICATION FairSpec
CONSTANTS
  Lines = {l1, l2, l3, l4}
INVARIANTS
  InBounds
  Paired
  Sorted
PROPERTIES
  Terminates
CHECK_DEADLOCK FALSE
