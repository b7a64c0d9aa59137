CONSTANTS
  p1 = p1
  p2 = p2
  m1 = m1
  m2 = m2
  m3 = m3
  Mids = {m1, m2, m3}
  Threads = {p1, p2}
  Key = 1
  Given <- Criteria3
  MaxEvents = 3
  NoMemory = NoMemory
SPECIFICATION Spec
INVARIANTS TypeOK ScTableHasItsHome ShcWritesAreFound NobodyDiesUnlessShared
CHECK_DEADLOCK FALSE
SYMMETRY Symmetry
