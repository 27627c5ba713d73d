SPECIFICATION FairSpec
CONSTANTS
  n1 = n1
  n2 = n2
  Nodes <- TwoNodes
  Keys <- AllKeys
  Ttl <- Lifetimes
  Milestones = {1}
  Script <- TwoEvents
  LastLedger = 2
  BatchSize = 2
  PageLimit = 1
  MaxFaults = 2
INVARIANTS TypeOK OneNodeInTick NothingLost
PROPERTIES OnlyOwnerReleases EveryEventApplied
CHECK_DEADLOCK FALSE
