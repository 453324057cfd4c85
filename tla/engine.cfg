SPECIFICATION Spec
CONSTANTS
  Keys = {k1, k2}
  k1 = k1
  k2 = k2
  NoKey = NoKey
  Stamps = {1, 2}
  MaxHits = 3
  CancelPoints = {"sleep", "flush"}
SYMMETRY KeySymmetry
INVARIANTS
  TypeOK
  NoFalseEvidence
  DbNeverAhead
  PresenceDurable
  OnlyRacesLoseHits
  CleanStopIsComplete
