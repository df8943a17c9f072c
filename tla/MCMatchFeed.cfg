SPECIFICATION Spec
CONSTANTS
  m1 = m1
  m2 = m2
  Match <- MCMatch
  Place <- MCPlace
  Reported <- MCReported
  Call = {c1, c2}
  MaxTime = 3
  MaxCalls = 3
INVARIANTS
  FeedIsGapless
  StatusRowsTellStatus
  DetailIsFresh
CHECK_DEADLOCK FALSE
