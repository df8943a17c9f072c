SPECIFICATION CatalogueSpec
CONSTANTS
  s1 = s1
  f1 = f1
  a = a
  c1 = c1
  c2 = c2
  Fixtures <- MCFixtures
  Sync = {c1, c2}
  MaxSyncs = 2
  MaxFailures = 1
SYMMETRY Symmetry
INVARIANTS
  RefsResolve
  BootFillsCatalogue
PROPERTY TwinsNeedOverlap
CHECK_DEADLOCK FALSE
