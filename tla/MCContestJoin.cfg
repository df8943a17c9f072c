SPECIFICATION Spec
CONSTANTS
  h1 = h1
  h2 = h2
  u1 = u1
  t1 = t1
  t2 = t2
  k1 = k1
  t3 = t3
  Nobody = Nobody
  NoKey = NoKey
  Handlers = {h1, h2}
  Users = {u1}
  Teams = {t1, t2, t3}
  Keys = {k1}
  Owner <- OneOwner
  MaxSpots = 3
  Limits = {1, 2}
  Funds = 3
  MaxSent = 2
  MaxImplicit = 3
  MaxFaults = 1
SYMMETRY Symmetry
INVARIANTS
  SpotsMatchEntries
  LimitExceededOncePerCall
  UnpaidEntryNeedsRepeatedKey
  EscrowMatchesEntries
  CancelledContestIsRefunded
CHECK_DEADLOCK FALSE
