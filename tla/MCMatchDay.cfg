SPECIFICATION Spec
CONSTANTS
  h1 = h1
  h2 = h2
  p1 = p1
  p2 = p2
  p3 = p3
  Handlers <- MCHandlers
  Players <- MCPlayers
  RoleOf <- MCRoleOf
  TeamOf <- MCTeamOf
  CreditsOf <- MCCreditsOf
  Lineups <- MCLineups
  RuleBooks <- MCRuleBooks
  Statistics <- MCStatistics
  ScoringBooks <- MCScoringBooks
  FirstRules <- MCFirstRules
  Adjustable <- MCAdjustable
  Delta = 500
  MaxRequests = 2
  MaxJobs = 1
  MaxTurns = 2
INVARIANTS
  RowsMirrorTeams
  RuleMismatchNeedsRuleChange
  RestingPointsAreFinal
CHECK_DEADLOCK FALSE
SYMMETRY MCSymmetry
