SPECIFICATION Spec
CONSTANTS
  Key = {k}
  PermCode = {p}
  Object = {o1, o2}
  Scope = {c}
  Subject = {s}
  Body = {b1, b2}
  StrayRole <- MCStrayRole
  Absent = Absent
  MaxWrites = 4
SYMMETRY MCSymmetry
PROPERTIES
  ImportKeepsBindings
  OutsideUntouched
  Converged
  RefusedForCause
  NoSilentChange
CHECK_DEADLOCK FALSE
