SPECIFICATION Spec
CONSTANTS
  Cells <- MCCells
  Batches <- MCBatches
  Costs = {1}
  Items <- MCItems
  Usages <- MCUsages
  Records <- MCRecords
  PriceTables <- MCPrices
  MaxNudges = 1
  MaxEvents = 4
  MaxTurns = 2
  ConfiguredModel = "default"
  SyntheticTools = 2
  RealTools = 3
  SubmitBudget = 2
INVARIANTS TracePasses DamageShows TokensReconcile
CHECK_DEADLOCK FALSE
