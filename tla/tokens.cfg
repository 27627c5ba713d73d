SPECIFICATION Spec
CONSTANTS
  r1 = r1
  r2 = r2
  Requests <- TwoRequests
  CacheKeys <- AllCacheKeys
  MaxTokens = 3
  MaxActive = 1
  MaxRequests = 3
  MaxFaults = 1
SYMMETRY RequestSymmetry
INVARIANTS TypeOK DeadStaysDead LimitHolds SessionSurvives
CHECK_DEADLOCK FALSE
