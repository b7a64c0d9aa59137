CONSTANTS
  r1 = r1
  Readers = {}
  NoOne = NoOne
  Entries <- TwoInserts
  Parts = 1
  MaxTmp = 1
  MaxRestarts = 0
SPECIFICATION Spec
INVARIANTS SecurityDumpSavesAll
CHECK_DEADLOCK FALSE
