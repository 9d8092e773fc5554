SPECIFICATION FairSpec
CONSTANTS
  chat = chat
  responses = responses
  u1 = u1
  Top = Top
  Absent = Absent
  Untracked = Untracked
  NoPlan = NoPlan
  NoRecord = NoRecord
  NoBinding = NoBinding
  NoRef = NoRef
  Providers <- MCProviders
  GatewayProviders <- MCGatewayProviders
  TopKeys <- MCTopKeys
  TableKeys <- MCTableKeys
  AuthTable <- MCAuth
  AuthKeys <- MCAuthKeys
  Managed <- MCManaged
  Written <- MCManaged
  UserSlots <- MCUserSlots
  UserValues = {u1}
  InitialValues <- MCInitialValues
  Profiles = {p1}
  Ids = {o1, o2}
  Forms = {f1}
  MaxEdits = 1
  MaxCrashes = 1
  MaxFaults = 1
INVARIANTS BoundRouteIsLive FinishedLeavesNoLiveOrphan
PROPERTIES KnownTextsAreReplaced EveryOperationEnds
CHECK_DEADLOCK FALSE
