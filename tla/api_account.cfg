CONSTANTS
  Accounts = {A, B}
  Native = {A}
  Shared = Shared
  None = None
  MaxOps = 3
  MaxFaults = 1
  MaxLaunches = 1
  MaxWrites = 1
SPECIFICATION Spec
INVARIANT SuccessIsWhole
PROPERTIES RecordsEndSettled ChatsAreKept OperationsEnd
CHECK_DEADLOCK FALSE
