SPECIFICATION WebSpec
CONSTANTS
  a1 = a1
  a2 = a2
  Apps = {a1, a2}
  Sids = {s1}
  NoSid = none
SYMMETRY Symmetry
CHECK_DEADLOCK FALSE
INVARIANTS
  AuthorisedFirst
  PolicyWritesChecked
  AskedBefore
  ActsOnPath
