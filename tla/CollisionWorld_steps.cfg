SPECIFICATION Spec
CONSTANTS
  NaN = NaN
  Starts <- Cases
  Velocities <- Shifts
  Box <- Square
  MaxSteps = 3
INVARIANTS
  MeetsExactly
  Compared
  NoSurprise
PROPERTIES
  StaysInPlay
