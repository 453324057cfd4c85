SPECIFICATION PatientSpec
CONSTANTS
  Objs = {o1, o2}
  o1 = o1
  o2 = o2
  Day = 2
  SyncHour = 0
  CancelPoints = {"flush", "heartbeat", "sleep"}
  NoHour = NoHour
  MaxHour = 3
INVARIANTS
  TypeOK
  NoPartialSync
  OutageShows
PROPERTIES
  CoverageIsEarned
  HeardIsCovered
  NightIsNotSkipped
  RequestIsServed
  StoredOrLoud
