CONSTANTS
  h1 = h1
  Hosts = {h1}
  Masters = {h1}
  ControlPlaneCount = 1
  MinMasters = 1
  SoftTimeouts = FALSE
  Timers = {}
  MaxAttempts = 1
  Disturbances = {}
  MaxDisturbances = 0
SPECIFICATION Spec
INVARIANTS InstallingAfterPreparation
CHECK_DEADLOCK FALSE
