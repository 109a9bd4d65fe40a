CONSTANTS
  h1 = h1
  h2 = h2
  Hosts = {h1,h2}
  Masters = {h1,h2}
  ControlPlaneCount = 2
  MinMasters = 2
  SoftTimeouts = FALSE
  Timers = {"cluster"}
  MaxAttempts = 1
  Disturbances = {"cancel", "reset", "update", "launch", "preparation", "restart", "dns", "silence", "register", "media", "inventory", "checks", "install", "failed", "operators"}
  MaxDisturbances = 1
SPECIFICATION Spec
INVARIANTS TypeOK HostsInstallOnlyInInstallation InstalledClusterHasItsNodes RefreshIsDefined 
PROPERTIES EndedInstallationsStayEnded
SYMMETRY MasterSymmetry
CHECK_DEADLOCK FALSE
