SPECIFICATION Spec
CONSTANTS
    Zones = {0, 1}
    Names = {0, 1, 2}
    zoneOf <- MCZoneOf
    capacity = 2
    Slots = {0, 1}
    MAX_BAD_CHAPTERS = 100
    BadVCN = 1000
    Scenarios <- CheckpointAfterSave
INVARIANT SavedOpenChapterIsUnwritten
