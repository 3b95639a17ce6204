SPECIFICATION FairSpec
CONSTANTS
  old = old
  new = new
  partial = partial
  Free = Free
  Orphan = Orphan
  Migrators = {old, new}
  Catalogue <- OrderedCatalogue
  MinVersion <- OrderedMin
  MaxVersion <- OrderedMax
  StateVersion = 1
  MaxAttempts = 2
  MaxLosses = 1
INVARIANTS
  AppliedInOrder
PROPERTIES
  RunTerminates
CHECK_DEADLOCK FALSE
