SPECIFICATION DeviceSpec
CONSTANTS
  SECTORS_PER_BLOCK = 3
  ENTRIES_PER_SECTOR = 2
  ENTRIES_PER_BLOCK = 3
  journalSize = 4
  Slots = {1, 2}
  TreeSlots = {3}
  SlabCount = 2
  dataBlocks = 2
  slabEntriesPerBlock = 2
  Scenarios <- MCScenarios
  LayoutScenarios <- MCLayoutScenarios
INVARIANTS RecoveryIsExact VolumeIsSound
PROPERTY EveryCrashIsRecovered
