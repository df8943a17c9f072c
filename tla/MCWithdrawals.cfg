SPECIFICATION Spec
CONSTANTS
  h1 = h1
  h2 = h2
  w1 = w1
  w2 = w2
  Nobody = Nobody
  Handlers = {h1, h2}
  Withdrawals = {w1, w2}
  Amount <- Amounts
  Funds = 2
  VelocityMax = 2
  Attempts = 1
  MaxFaults = 1
SYMMETRY Symmetry
INVARIANTS
  MoneyMatchesPostings
  DocumentsTellTruth
  ApprovedIsPaidOrFailed
CHECK_DEADLOCK FALSE
