SPECIFICATION FairSpec
CONSTANTS
  Builtin = {console}
  Console = console
  Olm = {olm}
  Ams = {"up", "down"}
  SoftTimeouts = TRUE
  MaxDisturbances = 1
INVARIANTS TypeOK
PROPERTIES FinalizationEnds SoftClustersFailOnlyOverdue CompleteClustersAreInstalled
CHECK_DEADLOCK FALSE
