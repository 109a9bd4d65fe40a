SPECIFICATION FairSpec
CONSTANTS
  Replicas = {p1, p2}
  ClusterCount = 1
  BatchSize = 2
  BlacklistFor = 1
  Existing = {"ready", "installing"}
  Asked = {"installing", "installing-pending-user-action", "error"}
  MaxChanges = 3
  MaxFaults = 1
  MaxOverruns = 0
PROPERTIES EndedStaysEnded EveryChangeIsMonitored
CHECK_DEADLOCK FALSE
