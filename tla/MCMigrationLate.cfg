SPECIFICATION Spec
CONSTANTS
  old = old
  new = new
  partial = partial
  Free = Free
  Orphan = Orphan
  Migrators = {old, new}
  Catalogue <- LateCatalogue
  MinVersion <- LateMin
  MaxVersion <- LateMax
  StateVersion = 1
  MaxAttempts = 2
  MaxLosses = 0
INVARIANTS
  SuccessAppliesCatalogue
CHECK_DEADLOCK FALSE
