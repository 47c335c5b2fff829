SPECIFICATION Spec
CONSTANTS
  Null = Null
  u1 = u1
  r1 = r1
  x = x
  Field <- MCField
  Exact = 4
  User <- MCUser
  Snapshots <- MCSnapshots
  Rows <- MCRows
  Attrs <- MCAttrs
  Bases <- MCBases
  MaxStaleness = 1
  MaxSnapshots = 2
INVARIANTS
  FailsClosed
  RowsAsPolicies
