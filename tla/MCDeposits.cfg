SPECIFICATION FairSpec
CONSTANTS
  h1 = h1
  h2 = h2
  p1 = p1
  Nobody = Nobody
  Handlers = {h1, h2}
  Payments = {p1}
  Attempts = 2
  MaxFaults = 1
INVARIANTS
  MoneyFollowsPayment
  DocumentsTellTruth
  AnsweredMeansSettled
PROPERTY
  PaidIsCredited
CHECK_DEADLOCK FALSE
