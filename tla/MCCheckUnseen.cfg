SPECIFICATION SignSpec
CONSTANTS
  Scans <- MCScans
  Records <- MCRecords
  Spelled <- MCSpelled
  Arms <- MCArms
  Typed <- MCTyped
  Edits <- MCEdits
  Manifests <- MCManifests
  AdminNames = {8, 9}
  MaxSubmits = 5
INVARIANT UnseenIsTurnedDown
CHECK_DEADLOCK FALSE
