SPECIFICATION Spec
CONSTANTS
  User = {ra}
  Role = {ra, rb}
  Object = {o}
  Thread = {t}
  None = None
  MaxApplies = 2
INVARIANTS
  RebuildNeverPermits
CHECK_DEADLOCK FALSE
