SPECIFICATION Spec
CONSTANTS
  s1 = s1
  s2 = s2
  s3 = s3
  MaxMilestones = 1
  IdBound = 1
  Amounts = {1}
  Totals = {1}
  Deadlines = {1}
  LockTimes <- SomeLock
  Timelocks <- SomeTimelock
  Approvers = {s1}
  Weight <- UnitWeight
  Threshold = 0
  GenesisTime = 0
  MaxSeq = 2
  RentPeriod = 1
  RentPerEntry = 1
  ReservePeriods = 1
  OtherFunds = 4
  CancelFee = 0
  Batches <- SingleBatch
  AutoExtension = 1
  DisputeTimeout = 1
  DisputeCooldown = 1
  ArbiterFee = 1
  Awards = {0,2}
  FairArbiter = FALSE
  CancellationPeriod = 1
  SlashPeriod = 1
  SlashPercent = 100
  CompletionFee = 1
  TopUps = {1}
  MaxRent = 2
PROPERTY FundsAccounted
PROPERTY LocksHold
CHECK_DEADLOCK FALSE
