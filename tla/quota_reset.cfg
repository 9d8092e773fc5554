SPECIFICATION MCSpec
CONSTANTS
  Callers = {c1, c2}
  Readers = {r1, r2}
  Ids = {i1, i2, i3}
  Vias = {"wham", "app_server"}
  Credits = 2
  MaxCrashes = 1
SYMMETRY MCSymmetry
INVARIANTS SpentIdIsKept QuotaIsCurrent NothingIsLeft
PROPERTIES SettledIdIsNotRepeated
CHECK_DEADLOCK FALSE
