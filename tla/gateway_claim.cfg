SPECIFICATION FairSpec
CONSTANTS
  Pids = {p1, p2, p3}
  Launchers = {cli}
  Supervisor = app
  System = launchd
  None = None
  Ports = {old, new}
  MaxRestarts = 1
  Attempts = 2
  MaxEvents = 2
INVARIANT AttendedGatewayKeepsClaim
PROPERTIES ReconcileSparesOthers NeedIsMet EveryLaunchSettles
CHECK_DEADLOCK FALSE
