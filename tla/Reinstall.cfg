CONSTANTS
  h1 = h1
  Hosts = {h1}
  Masters = {h1}
  ControlPlaneCount = 1
  MinMasters = 1
  SoftTimeouts = FALSE
  Timers = {}
  MaxAttempts = 2
  Disturbances = {"cancel", "reset", "register", "restart", "preparation", "checks"}
  MaxDisturbances = 3
SPECIFICATION Spec
INVARIANTS HostsInstallOnlyInInstallation AcceptedPlansAreRight ImagesAnswered InstalledClusterHasItsNodes
PROPERTIES EndedInstallationsStayEnded
CHECK_DEADLOCK FALSE
