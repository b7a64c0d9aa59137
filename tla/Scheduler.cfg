CONSTANTS
  p1 = p1
  p2 = p2
  p3 = p3
  Procs = {p1, p2, p3}
  Length <- Mixed
  MP = 2
  Quantum = 1
  None = None
SPECIFICATION FairSpec
INVARIANTS
  TypeOK
  MultiprogrammingBound
  TokensMatchQueues
  EveryProcessIsInOnePlace
PROPERTIES
  ImplementsScripts
  EveryProcessEnds
CHECK_DEADLOCK FALSE
