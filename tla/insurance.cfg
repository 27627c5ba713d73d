SPECIFICATION Spec
CONSTANTS
  g1 = g1
  g2 = g2
  s1 = s1
  s2 = s2
  Governors = {g1, g2}
  Stakers = {s1, s2}
  MaxClaims = 1
  MaxSlashes = 1
  Amounts = {1, 2}
  MinContribution = 1
  Caps = {1}
  Quorums = {1, 2}
  ClaimExpiry = 0
  MaxTime = 1
  MaxIn = 1
  SlashBps = {4000}
  MaxBps = {4000}
  YieldPrecision = 4
  MaxStake = 3
  MaxFees = 1
INVARIANTS TypeOK TallyHonest YieldCovered
PROPERTIES SharesHold
SYMMETRY Symmetry
CHECK_DEADLOCK FALSE
