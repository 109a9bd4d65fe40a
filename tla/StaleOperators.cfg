CONSTANTS
  h1 = h1
  Hosts = {h1}
  Masters = {h1}
  ControlPlaneCount = 1
  MinMasters = 1
  SoftTimeouts = FALSE
  Timers = {}
  MaxAttempts = 2
  Disturbances = {"reset", "register"}
  MaxDisturbances = 2
SPECIFICATION Spec
INVARIANTS InstalledMeansOperatorsHealthy
CHECK_DEADLOCK FALSE
