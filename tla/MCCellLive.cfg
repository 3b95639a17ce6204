SPECIFICATION FairSpec
CONSTANTS
  m1 = m1
  m2 = m2
  Boots = {b1}
  Migrators = {m1, m2}
  Catalogue <- TwoCatalogue
  MinVersion <- TwoMin
  MaxVersion <- TwoMax
  StateVersion = 1
  MaxAttempts = 2
  MaxLosses = 0
  Free = Free
  Orphan = Orphan
  Release <- TwoReleases
  Preflight = Preflight
  Api = Api
  MaxFaults = 1
  MaxFailures = 1
  MaxDispatches = 2
INVARIANTS
  PreflightAgrees
PROPERTIES
  PreparedServes
CHECK_DEADLOCK FALSE
