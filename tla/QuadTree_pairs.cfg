SPECIFICATION InTurnSpec
CONSTANTS
  Lines = {1, 2, 3}
  Scenes <- AllScenes
  Box <- Square
  MAX_BIN = 0
  MAX_DEPTH = 2
  GRAIN = 600
  MaxSteps = 2
INVARIANTS
  BuildsApart
  TreeShape
PROPERTIES
  ImplementsPairwise
