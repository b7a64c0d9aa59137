CONSTANTS
  Files = {f1}
  Blocks = {b1, b2, b3, b4}
  NoBlock = NoBlock
  BlockSize = 3
  Data <- MCData
  Mark = "&"
  MaxSaves = 3
  MaxCrashes = 1
SPECIFICATION Spec
SYMMETRY Symmetry
CHECK_DEADLOCK FALSE
INVARIANTS
  BlocksNeverOverflow
