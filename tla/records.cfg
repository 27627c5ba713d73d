SPECIFICATION FairSpec
CONSTANTS
  r1 = r1
  r2 = r2
  Requests = {r1, r2}
  Milestones = {1, 2}
  Amounts = {3, 4}
  Total = 7
  MaxRequests = 4
INVARIANTS TypeOK DisputeOrExpiry
PROPERTIES SettlesWhatIsLeft ExpiryGetsThere
CHECK_DEADLOCK FALSE
