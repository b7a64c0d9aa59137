CONSTANTS
  t1 = t1
  t2 = t2
  k1 = k1
  k2 = k2
  k3 = k3
  v1 = v1
  c1 = c1
  Tables = {t1}
  Keys = {k1, k2, k3}
  Values = {v1}
  NFrames = 2
  Clients = {}
  Preloaded <- AllPreloaded
  OldValue = OldValue
  NoKey = NoKey
  NoValue = NoValue
  Garbage = Garbage
  MaxTime = 2
SYMMETRY Symmetry
SPECIFICATION Spec
INVARIANTS RemovesThePageItLogs
