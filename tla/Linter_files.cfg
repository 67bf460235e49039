CONSTANTS
  SMALL_CLASS = 2
  LINE_LENGTH = 100
  NORMAL_TRIGGER = 1
  TEST_TRIGGER = 2
  PosixThreading = TRUE
  Files <- MCFiles
  Places <- AlphabetPlaces
  Headers <- MCHeaders
  Invocations <- MCInvocations
SPECIFICATION FairSpec
INVARIANTS LintsAlike NolintHonoured CountsTell ClassesEnd LengthsTold
PROPERTIES IncludesOrdered Terminates
CHECK_DEADLOCK FALSE
