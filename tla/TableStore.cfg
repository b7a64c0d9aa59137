CONSTANTS
  r1 = r1
  Readers = {r1}
  NoOne = NoOne
  Entries <- TwoInserts
  Parts = 1
  MaxTmp = 1
  MaxRestarts = 1
SPECIFICATION Spec
INVARIANTS TypeOK NothingAckedIsLost CompactionLosesNothing SelectMissesOnlyWhenOvertaken
PROPERTIES ImplementsKVStore ReachesThePartition
CHECK_DEADLOCK FALSE
