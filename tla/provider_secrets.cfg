CONSTANTS
  Native = {A}
  Plain = {B}
  None = None
  Gone = Gone
  Profile = Profile
  MaxOps = 2
  MaxFaults = 1
  MaxLaunches = 2
  MaxReads = 1
SPECIFICATION Spec
INVARIANTS KeysMatchProviders
PROPERTIES UpdateIsAllOrNothing
CHECK_DEADLOCK FALSE
