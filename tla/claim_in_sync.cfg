SPECIFICATION FairIndexerSpec
CONSTANTS
  subA = subA
  t1 = t1
  t2 = t2
  Script <- ReleaseScript
  Milestones = {0}
  Slots = {t1}
  MaxLedger = 3
  MaxPerLedger = 2
  MaxGap = 2
  PageLimit = 4
  MaxCrashes = 0
  MaxFailures = 0
  Events <- MCEvents
  Subscribers = {}
  Wants <- ReleasesWanted
  Attempts = 2
  MaxStalls = 1
PROPERTY EventuallyIndexed
CHECK_DEADLOCK FALSE
