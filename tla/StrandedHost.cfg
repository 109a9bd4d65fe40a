SPECIFICATION FairSpec
CONSTANTS
  Hosts = {h1}
  Clusters = {c1}
  Reclaimable = {h1}
  MaxFaults = 0
  MaxChanges = 1
PROPERTIES HostsOfDeletedClustersReturn
CHECK_DEADLOCK FALSE
