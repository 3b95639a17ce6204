SPECIFICATION Spec
CONSTANTS
  old = old
  new = new
  partial = partial
  Free = Free
  Orphan = Orphan
  Migrators = {old, new}
  Catalogue <- OrderedCatalogue
  MinVersion <- OrderedMin
  MaxVersion <- OrderedMax
  StateVersion = 1
  MaxAttempts = 2
  MaxLosses = 1
INVARIANTS
  MutualExclusion
CHECK_DEADLOCK FALSE
