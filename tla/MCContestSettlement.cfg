SPECIFICATION Spec
CONSTANTS
  h1 = h1
  h2 = h2
  u1 = u1
  Nobody = Nobody
  Handlers = {h1, h2}
  Users = {u1}
  NumEntries = 3
  MaxSpots = 3
  Totals <- Orders
  Owner <- OneOwner
  Snapshots <- Ladders
  MaxResets = 1
  MaxFaults = 1
SYMMETRY Symmetry
INVARIANTS
  SingleRunner
  SettledEntriesTellTruth
  SettlementPaysWinnings
  OverpayNeedsFailedRun
CHECK_DEADLOCK FALSE
