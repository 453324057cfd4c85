SPECIFICATION FairSpec
CONSTANTS
  Keys = {k1, k2}
  k1 = k1
  k2 = k2
  NoKey = NoKey
  Stamps = {1}
  MaxHits = 3
  CancelPoints = {"sleep"}
PROPERTIES
  KeepsPromise
  DirtyRowIsFlushed
