SPECIFICATION StorageSpec
CONSTANTS
  BYTE = 4
  Scenarios <- MCScenarios
  LayoutScenarios <- MCLayoutScenarios
INVARIANTS  LatestSaveIsFound
CHECK_DEADLOCK FALSE
