\* No deadlock check: the validator stops at its verdict.
SPECIFICATION Spec
CONSTANTS
  R_ALIGNMENT = 2
  HeapEnd = 5
  Ids = {1, 2, 3}
  Sizes = {1, 3}
  Residue = {"A", "other"}
  Copies = {TRUE, FALSE}
  Scribbles = TRUE
INVARIANTS
  RangesAreLive
  HonestNeverRejected
  AcceptedAreApart
CHECK_DEADLOCK FALSE
