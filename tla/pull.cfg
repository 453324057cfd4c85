SPECIFICATION Spec
CONSTANTS
  Objs = {o1, o2, o3}
  Tenants = {t1}
  NoTenant = NoTenant
  Micro = Micro
  PageSize = 2
  MaxChanges = 2
INVARIANTS
  TypeOK
  PullIsComplete
  PulledWhereListed
PROPERTY PullEnds
