CONSTANTS
  Images = {a, b}
  MaxConcurrentBuilds = 1
  MaxFaults = 1
  NoLease = NoLease
SPECIFICATION Spec
SYMMETRY Symmetry
INVARIANT TypeOK
INVARIANT BuildingHoldsSlot
INVARIANT BuildsWithinLimit
PROPERTY LiveLeaseKept
CHECK_DEADLOCK FALSE
