SPECIFICATION SlabsSpec
CONSTANTS
    dataBlocks = 2
    MaxSlabs = 4
    MaxZones = 3
    VIOs = {1, 2}
    ALLOCATIONS_PER_ZONE = 1
    Scenarios <- MCScenarios
    SlabScenarios <- MCSlabScenarios
INVARIANTS UpdatesSurvive SavedSlabIsWhole DepotIsExact DepotIsTrue
PROPERTIES SlabsProceed
CHECK_DEADLOCK FALSE
