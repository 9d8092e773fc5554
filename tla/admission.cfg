SPECIFICATION FairAdmission
CONSTANTS
  other = other
  a = a
  b = b
  Requests = {r1, r2, r3, other}
  Bindings = {a, b}
  BindingOf <- MCBindingOf
  Global = global
  MaxInflight = 2
  MaxInflightPerBinding = 1
  MaxQueue = 2
  MaxQueuePerBinding = 1
INVARIANTS PermitsConserved WaitsOnlyWhenBusy
PROPERTIES EveryRequestLeaves
CHECK_DEADLOCK FALSE
