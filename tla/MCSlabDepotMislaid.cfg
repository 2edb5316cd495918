SPECIFICATION Spec
CONSTANTS
    dataBlocks = 2
    MaxSlabs = 4
    MaxZones = 3
    VIOs = {1, 2}
    ALLOCATIONS_PER_ZONE = 1
    Scenarios <- MCMislaid
INVARIANT SlabsAreFound
CHECK_DEADLOCK FALSE
