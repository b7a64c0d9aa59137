CONSTANTS
  m1 = m1
  m2 = m2
  m3 = m3
  Memories = {m1, m2, m3}
  Junk = Junk
  Seeds <- Chain
  MaxEvents = 4
SPECIFICATION Spec
INVARIANT TypeOK
PROPERTIES  Reconverges
CHECK_DEADLOCK FALSE
