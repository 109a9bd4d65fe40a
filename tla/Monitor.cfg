SPECIFICATION FairSpec
CONSTANTS
  Replicas = {p1}
  ClusterCount = 3
  BatchSize = 2
  BlacklistFor = 1
  Existing = {"installing"}
  Asked = {"error"}
  MaxChanges = 1
  MaxFaults = 0
  MaxOverruns = 1
INVARIANTS TypeOK
PROPERTIES EveryChangeIsMonitored LogCollectionEnds
CHECK_DEADLOCK FALSE
