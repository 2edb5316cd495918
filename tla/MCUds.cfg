SPECIFICATION UdsSpec
CONSTANTS
    Zones = {0, 1}
    Names = {0, 1, 2}
    zoneOf <- MCZoneOf
    capacity = 2
    Slots = {0, 1}
    MAX_BAD_CHAPTERS = 100
    BadVCN = 1000
    Scenarios <- MCScenarios
    PageScenarios <- MCPageScenarios
    r1 = r1
    r2 = r2
    Writer = Writer
    Nobody = Nobody
    Closed = Closed
    Garbage = Garbage
INVARIANTS IndexForgetsNothing IndexIsSound StartIsSound PagesAreRight
PROPERTIES RequestsProceed
