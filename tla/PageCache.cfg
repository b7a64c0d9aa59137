CONSTANTS
  t1 = t1
  t2 = t2
  k1 = k1
  k2 = k2
  k3 = k3
  v1 = v1
  c1 = c1
  Tables = {t1}
  Keys = {k1, k2, k3}
  Values = {v1}
  NFrames = 2
  Clients = {c1}
  Preloaded <- OnePreloaded
  OldValue = OldValue
  NoKey = NoKey
  NoValue = NoValue
  Garbage = Garbage
  MaxTime = 1
SYMMETRY OthersAlike
SPECIFICATION Spec
INVARIANTS TypeOK FramesAccounted OnePagePerKey ReadsOwnWrites SelectAnswersItsKey
