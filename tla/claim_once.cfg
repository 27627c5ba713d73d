SPECIFICATION WorkSpec
CONSTANTS
  s1 = s1
  s2 = s2
  s3 = s3
  MaxMilestones = 1
  IdBound = 1
  Amounts = {1}
  Totals = {2}
  Deadlines <- NoDeadline
  LockTimes <- NoDeadline
  Timelocks <- SomeTimelock
  Approvers = {s1}
  Weight <- UnitWeight
  Threshold = 0
  GenesisTime = 0
  MaxSeq = 0
  RentPeriod = 100
  RentPerEntry = 1
  ReservePeriods = 1
  OtherFunds = 4
  CancelFee = 0
  Batches = {}
  AutoExtension = 2
  DisputeTimeout = 1
  DisputeCooldown = 1
  ArbiterFee = 0
  Awards = {0}
  FairArbiter = TRUE
  CancellationPeriod = 1
  SlashPeriod = 1
  SlashPercent = 50
  CompletionFee = 0
  TopUps = {1}
  MaxRent = 5
INVARIANT PaidAtMostOnce
CHECK_DEADLOCK FALSE
