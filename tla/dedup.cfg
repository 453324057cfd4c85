SPECIFICATION Spec
CONSTANTS
  Conns = {c1, c2}
  c1 = c1
  c2 = c2
  TTL = 2
  Dims = {app, server}
  app = app
  server = server
  Resolves <- AnyDims
  Overtaking = TRUE
  MaxTime = 5
  MaxLosses = 1
  MaxReplays = 1
  MaxRestarts = 1
SYMMETRY Symmetries
INVARIANTS
  NoExpiredSlot
  SeenIsCounted
PROPERTY RecountNeedsCause
