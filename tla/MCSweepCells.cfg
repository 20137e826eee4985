SPECIFICATION FairSpec
CONSTANTS
  Cells = 2
  Jobs = 2
  FailFast = TRUE
  Sweeps = 2
  MaxSteps = 1
  Engines <- MCEngines
INVARIANTS
  OneEngine
  Rescores
  EndIsTrue
PROPERTIES
  SweepFinishes
CHECK_DEADLOCK FALSE
