CONSTANTS
  f1 = f1
  f2 = f2
  Files <- TwoFiles
  NBlocks = 2
  NoFile = NoFile
  MaxPerFile = 2
  MaxDeleting = 1
  MaxRaces = 1
  MaxRestarts = 1
SPECIFICATION Spec
INVARIANTS TypeOK NoDoubleAllocation NoLeak FlagDownMeansFull
PROPERTIES FailsOnlyWhenFull MutexReleased
