SPECIFICATION Spec
CONSTANTS
  Keys = {k1}
  k1 = k1
  NoKey = NoKey
  Stamps = {1, 2}
  MaxHits = 2
  CancelPoints = {"sleep"}
INVARIANT CleanRowIsDurable
