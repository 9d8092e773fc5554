SPECIFICATION Spec
CONSTANTS
  Profiles = {1, 2}
  Ports = {p1, p2}
  Workers = {w1, w2}
  NoUrl = NoUrl
  Foreign = Foreign
  MaxOps = 3
  MaxOthers = 1
  MaxFaults = 1
SYMMETRY Symmetry
INVARIANT MigrationIsWhole
PROPERTY EditsSurvive
CHECK_DEADLOCK FALSE
