SPECIFICATION Spec
CONSTANTS
  Lines = {1, 2, 3}
  Scenes <- AllScenes
  Box <- Square
  MAX_BIN = 1
  MAX_DEPTH = 1
  GRAIN = 600
  MaxSteps = 1
INVARIANTS
  AllPairsFound
