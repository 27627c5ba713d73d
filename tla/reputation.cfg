SPECIFICATION FairSpec
CONSTANTS
  client = client
  freelancer = freelancer
  t1 = t1
  Script <- DisputeScript
  Milestones = {0}
  Slots = {t1}
  MaxLedger = 2
  MaxGap = 2
  PageLimit = 2
  MaxRetries = 3
  MaxRepolls = 0
  MaxRecalcs = 1
  MaxFaults = 1
INVARIANTS TypeOK RecordHonest NoneForgotten
PROPERTY NothingBlocks
CHECK_DEADLOCK FALSE
