SPECIFICATION JournalSpec
CONSTANTS
  v1 = v1  v2 = v2  l1 = l1  l2 = l2  f1 = f1
  DataVIOs = {v1, v2}
  Size = 4
  TailBlocks = 3
  Scenarios <- MCScenarios
INVARIANTS DecrementAlwaysFits EntriesAreInOrder LocksAreExact NothingNeededIsReaped
PROPERTIES JournalProceeds
CHECK_DEADLOCK FALSE
