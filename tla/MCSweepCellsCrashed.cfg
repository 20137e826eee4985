SPECIFICATION Spec
CONSTANTS
  Cells = 1
  Jobs = 2
  FailFast = TRUE
  Sweeps = 1
  MaxSteps = 1
  Engines <- MCEngines
INVARIANT CrashedIsCounted
CHECK_DEADLOCK FALSE
