SPECIFICATION Spec
CONSTANTS
  u1 = u1
  r1 = r1
  r2 = r2
  p1 = p1
  o1 = o1
  User = {u1, r1}
  Role = {r1, r2}
  Perm = {c1, c2}
  Pair = {p1}
  Target <- MCTarget
  Resource = {o1}
  DataPolicy <- MCDataPolicy
  MaxRows = 3
  MaxWrites = 1
INVARIANTS
  SimulationListsAll
