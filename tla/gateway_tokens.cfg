CONSTANTS
  Workers = {w1, w2}
  Profiles = {p1}
  Ids = {i1, i2, i3}
  Ops = {o1}
  Nil = Nil
  MaxRev = 3
  MaxFaults = 2
SPECIFICATION TokensSpec
INVARIANTS TokensMatchBindings
PROPERTIES CallsTakeEffectAtOnce
CHECK_DEADLOCK FALSE
