SPECIFICATION Spec
CONSTANTS
  User = {u, ra}
  Role = {ra}
  Object = {o}
  Thread = {t1, t2}
  None = None
  MaxApplies = 3
INVARIANTS
  RebuildOnlyDenies
  CacheIsFresh
CHECK_DEADLOCK FALSE
