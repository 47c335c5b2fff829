SPECIFICATION Spec
CONSTANTS
  Key = {k}
  PermCode = {p}
  Object = {o1, o2}
  Scope = {c}
  Subject = {s}
  Body = {b1, b2}
  StrayRole <- MCStrayRole
  Absent = Absent
  MaxWrites = 2
SYMMETRY MCSymmetry
PROPERTIES
  AlwaysConverged
CHECK_DEADLOCK FALSE
