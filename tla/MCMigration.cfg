SPECIFICATION FairSpec
CONSTANTS
  old = old
  new = new
  partial = partial
  Free = Free
  Orphan = Orphan
  Migrators = {old, new, partial}
  Catalogue <- GapCatalogue
  MinVersion <- GapMin
  MaxVersion <- GapMax
  StateVersion = 1
  MaxAttempts = 2
  MaxLosses = 0
INVARIANTS
  MutualExclusion
  CleanMeansSettled
  AppliedOnce
PROPERTIES
  CleanOnlyWhenComplete
  StuckFailsClosed
  ImplementsGate
  LockReleased
CHECK_DEADLOCK FALSE
