SPECIFICATION FairSpec
CONSTANTS
  ToolBudget = 4
  MaxSubmits = 2
  MaxNudges = 2
  MaxBatch = 3
  UsdCeiling = TRUE
  Arms <- BothArms
INVARIANTS
  CountersReconcile
  EveryCallAnswered
  PublishedIsSigned
PROPERTIES
  EveryRunEnds
  ImplementsContract
CHECK_DEADLOCK FALSE
