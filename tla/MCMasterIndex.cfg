CONSTANTS
    n1 = n1
    n2 = n2
    n3 = n3
    n4 = n4
    Names <- MCNames
    Lists = {0, 1}
    ListOf <- MCListOf
    KeyOf <- MCKeyOf
    NoName = NoName
    NoRecord = NoRecord
    NoImage = NoImage
    MeanDelta = 8
    ValueBits = 2
    CollisionBits = 16
    MaxListBits = 52
    Scenarios <- MCScenarios
SPECIFICATION Spec
INVARIANTS
    SearchesStartAtEntries
    RecordsAreInTheWindow
PROPERTY
    ImplementsMap
