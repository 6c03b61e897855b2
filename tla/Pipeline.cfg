SPECIFICATION FairSpec
CONSTANTS
  NEvents = 3
  Kind <- MCKind
  Second = "conflict"
  MaxCopies = 2
  MaxTwice = 1
  MaxFaults = 2
INVARIANTS StaleRowWasParked
PROPERTIES ProjectedOnce EventuallyProjected
CHECK_DEADLOCK FALSE
