CONSTANTS
  c1 = c1
  c2 = c2
  Clients = {c1, c2}
  NoOne = NoOne
  MaxCreates = 1
  MaxStarts = 1
SPECIFICATION Spec
INVARIANTS TypeOK DroppedDataStaysDropped NobodyDiesUnlessRaced ListMatchesDirectory OneThreadAtTheFiles
CHECK_DEADLOCK FALSE
SYMMETRY Symmetry
