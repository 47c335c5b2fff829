SPECIFICATION Spec
CONSTANTS
  r1 = r1
  r2 = r2
  r3 = r3
  p1 = p1
  p2 = p2
  o1 = o1
  o2 = o2
  s1 = s1
  w1 = w1
  w2 = w2
  Absent = Absent
  RoleCode = {r1, r2}
  PermCode = {p1, p2}
  Object = {o1, o2}
  User = {r1}
  DataId = {1}
  DataBody <- MCDataBody
  Template <- MCTemplate
  Writer = {w1, w2}
  MaxVersion = 2
INVARIANTS
  TypeOK
  NoInheritanceCycle
  ProjectionInSync
  OneDeltaPerVersion
PROPERTIES
  ImplementsPolicyLog
  ManualRowsKept
