CONSTANTS
  h1 = h1
  h2 = h2
  Hosts = {h1,h2}
  Masters = {h1,h2}
  ControlPlaneCount = 2
  MinMasters = 2
  SoftTimeouts = FALSE
  Timers = {}
  MaxAttempts = 1
  Disturbances = {"dns"}
  MaxDisturbances = 2
SPECIFICATION HealthySpec
PROPERTIES PreparedInstallationSucceeds
CHECK_DEADLOCK FALSE
