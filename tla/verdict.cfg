SPECIFICATION Spec
CONSTANTS
  Users = {u1, u2, u3}
  NoUser = NoUser
  Day = 2
  Keep = 2
  Cap = 2
  Warm = 0
  Stale = 1
  Medium = 2
  MaxHour = 5
  MaxHits = 4
SYMMETRY UserSymmetry
INVARIANTS
  TypeOK
  SummaryIsExact
  BandIsRight
  ConfidenceIsEarned
  UncappedIsEveryone
PROPERTY OnlyTimeCools
