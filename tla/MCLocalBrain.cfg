SPECIFICATION FairSpec
CONSTANTS
  ToolBudget = 2
  MaxSubmits = 2
  MaxTurns = 2
  MaxBatch = 2
  PipeSize = 1
  Restarts = 1
  Arms <- BothArms
INVARIANTS
  LinesReconcile
  AcceptanceStands
  SignedIsLast
PROPERTIES
  EveryRunEnds
  ImplementsContract
CHECK_DEADLOCK FALSE
