SPECIFICATION BoardSpec
CONSTANTS
  h1 = h1
  h2 = h2
  Routines <- MCRoutines
  NumEntries = 2
  FirstEntries <- MCFirstEntries
  Totals <- MCTotals
  MaxRefreshes = 1
  MaxOverlaps = 1
  MaxFaults = 1
INVARIANTS
  HistoryChainsBarOverlap
PROPERTIES
  BoardSettles
CHECK_DEADLOCK FALSE
