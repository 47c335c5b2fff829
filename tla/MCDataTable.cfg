SPECIFICATION TableSpec
CONSTANTS
  DataId = {1, 2}
  Resource = {x, y}
  NoResource = NoResource
  Body = {b1, b2}
  Absent = Absent
  MaxVersion = 4
SYMMETRY Interchangeable
INVARIANTS
  NoPolicyMissing
