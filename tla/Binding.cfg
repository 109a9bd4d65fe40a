SPECIFICATION FairSpec
CONSTANTS
  Hosts = {h1}
  Clusters = {c1, c2}
  Reclaimable = {h1}
  MaxFaults = 1
  MaxChanges = 2
INVARIANTS TypeOK StatusMatchesBinding
PROPERTIES WishesComeTrue ReclaimEnds OldNodesAreRemoved
CHECK_DEADLOCK FALSE
