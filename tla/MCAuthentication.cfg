SPECIFICATION Spec
CONSTANTS
  h1 = h1
  h2 = h2
  Handlers <- MCHandlers
  MaxAttempts = 1
  LockThreshold = 2
  MaxRequests = 3
  MaxFaults = 1
INVARIANTS
  TwoCodesNeedTwoRequestsAtOnce
  LockMissedOnlyAtOnce
  SweepSparesOnlySignInsUnderWay
PROPERTY
  CredentialsAreTickets
CHECK_DEADLOCK FALSE
SYMMETRY MCSymmetry
