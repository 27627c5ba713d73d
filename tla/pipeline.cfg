SPECIFICATION Spec
CONSTANTS
  subA = subA
  t1 = t1
  t2 = t2
  Script <- ReleaseScript
  Milestones = {0}
  Slots = {t1, t2}
  MaxLedger = 2
  MaxPerLedger = 2
  MaxGap = 1
  PageLimit = 4
  MaxCrashes = 1
  MaxFailures = 1
  Events <- MCEvents
  Subscribers = {subA}
  Wants <- ReleasesWanted
  Attempts = 2
  MaxStalls = 1
INVARIANT TypeOK
INVARIANT MirrorsPrefix
INVARIANT NothingSkipped
INVARIANT OneDelivery
INVARIANT HistoryHonest
SYMMETRY TickSymmetry
CHECK_DEADLOCK FALSE
