\* No deadlock check: the program ends.
SPECIFICATION Spec
CONSTANTS
  Machines <- AllMachines
  MaxArguments = 3
INVARIANTS
  InPlace
  TestsTell
  TakesWhatWasGiven
CHECK_DEADLOCK FALSE
