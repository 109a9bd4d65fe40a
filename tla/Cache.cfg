SPECIFICATION FairSpec
CONSTANTS
  Small = {s1, s2}
  Large = {l1, l2, l3}
  Clients = {c1, c2}
  Releases <- MCReleases
  Size <- MCSize
  MaxCapacity = 4
  MaxReleaseSize = 2
  MaxRequests = 5
  MaxFaults = 1
INVARIANTS TypeOK LinkedReleasesStay OvershootIsBounded
PROPERTIES EvictsOldestAndNoMore WaitingEnds ImplementsReleaseStore
CHECK_DEADLOCK FALSE
