\* No deadlock check: a heap that was written outside its bounds stops.
SPECIFICATION Spec
CONSTANTS
  MAX_HEAP = 80
  MAX_BLOCK_SIZE_EXP = 8
  Ids <- TwoIds
  Sizes <- ShortAndLong
  Ops = {"ALLOC", "WRITE", "REALLOC", "FREE", "RESET"}
INVARIANTS
  TypeOK
  CheckPasses
  LiveIntact
PROPERTIES
  WildOnlyWhenExhausted
  ImplementsPool
CHECK_DEADLOCK FALSE
