SPECIFICATION FairSpec
CONSTANTS
  Runs = {p1, p2}
  MaxFaults = 2
INVARIANTS
  PasswordIsStored
  SuccessMeansComplete
PROPERTIES
  CompleteStays
  EventuallyComplete
