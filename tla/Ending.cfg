CONSTANTS
  h1 = h1
  Hosts = {h1}
  Masters = {h1}
  ControlPlaneCount = 1
  MinMasters = 1
  SoftTimeouts = TRUE
  Timers = {"cluster", "installation", "host"}
  MaxAttempts = 1
  Disturbances = {"cancel", "reset", "update", "launch", "preparation", "restart", "dns", "silence", "register", "media", "checks", "install", "failed"}
  MaxDisturbances = 1
SPECIFICATION FairSpec
PROPERTIES PreparationEnds InstallationEnds HostsLeavePreparation FailedClusterStopsHosts
CHECK_DEADLOCK FALSE
