SPECIFICATION Spec
CONSTANTS
  chat = chat
  responses = responses
  u1 = u1
  Top = Top
  Absent = Absent
  Untracked = Untracked
  NoPlan = NoPlan
  NoRecord = NoRecord
  NoBinding = NoBinding
  NoRef = NoRef
  Providers <- MCProviders
  GatewayProviders <- MCGatewayProviders
  TopKeys <- MCTopKeys
  TableKeys <- MCTableKeys
  AuthTable <- MCAuth
  AuthKeys <- MCAuthKeys
  Managed <- MCManaged
  Written <- MCManaged
  UserSlots <- MCUserSlots
  UserValues = {u1}
  InitialValues <- MCOwnValues
  Profiles = {p1, p2}
  Ids = {o1, o2, o3}
  Forms = {f1}
  MaxEdits = 1
  MaxCrashes = 2
  MaxFaults = 1
CONSTRAINT MCBound
SYMMETRY MCSymmetry
INVARIANTS IInv ConfigMatchesBinding
PROPERTIES RouteSwitchSpec
CHECK_DEADLOCK FALSE
