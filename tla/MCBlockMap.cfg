SPECIFICATION BlockMapSpec
CONSTANTS
    DataVIOs = {1, 2, 3, 4}
    Periods = {1, 2, 3}
    maximumAge = 2
    MAXIMUM_SIMULTANEOUS_BLOCK_MAP_RESTORATION_READS = 16
    Scenarios <- MCScenarios
    TreeScenarios <- MCTreeScenarios
INVARIANTS LeavesAreSafe CacheIsExact CacheIsComplete TreesAreSafe GenerationsAreRight
PROPERTIES BlockMapFinishes
CHECK_DEADLOCK FALSE
