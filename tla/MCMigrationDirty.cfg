SPECIFICATION Spec
CONSTANTS
  old = old
  new = new
  partial = partial
  Free = Free
  Orphan = Orphan
  Migrators = {old, new}
  Catalogue <- OrderedCatalogue
  MinVersion <- OrderedMin
  MaxVersion <- OrderedMax
  StateVersion = 1
  MaxAttempts = 2
  MaxLosses = 0
INVARIANTS
  FailedMigrationLeavesDirty
CHECK_DEADLOCK FALSE
