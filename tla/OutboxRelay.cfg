SPECIFICATION FairSpec
CONSTANTS
  App = {a1, a2}
  Replica = {n1, n2}
  None = None
  Bad = {2}
  BatchSize = 2
  MaxRows = 3
  MaxFaults = 2
INVARIANTS
  MarkedWasSent
  InOrder
PROPERTIES
  EventuallyPublished
CHECK_DEADLOCK FALSE
