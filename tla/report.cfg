SPECIFICATION DSpec
CONSTANTS
  Objs = {o1, o2}
  o1 = o1
  o2 = o2
  Names = {a, b}
  a = a
  b = b
  NoName = NoName
  default = default
  branch = branch
  TenantOrder <- TwoTenants
  Scopes <- AnyOf
  Streams = {s1}
  s1 = s1
  MaxChanges = 2
  MaxSyncs = 2
  MaxRestarts = 1
SYMMETRY Symmetries
INVARIANTS
  DTypeOK
  SteadyIsKept
  OneRowEach
  NoGhosts
  UsageIsEarned
  RetiredOfItsTime
  UsedIsReportedUsed
