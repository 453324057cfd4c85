SPECIFICATION Spec
CONSTANTS
  Objs = {o1, o2}
  o1 = o1
  o2 = o2
  Day = 2
  SyncHour = 0
  CancelPoints = {"requested"}
  NoHour = NoHour
  MaxHour = 1
INVARIANT NoPartialSync
