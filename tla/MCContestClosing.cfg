SPECIFICATION ClosingSpec
CONSTANTS
  worker = worker
  scorer1 = scorer1
  admin = admin
  Worker = worker
  ScoringWorkers <- MCScoringWorkers
  Admins <- MCAdmins
  MaxScores = 1
  MaxJobs = 1
  MaxAttempts = 2
  MaxErrors = 1
INVARIANTS
  SettlementLagsOnlyBehindScoring
PROPERTIES
  UnsettledMeansNameTaken
CHECK_DEADLOCK FALSE
