CONSTANTS
  Images = {a, b}
  MaxConcurrentBuilds = 1
  MaxFaults = 0
  NoLease = NoLease
SPECIFICATION FairSpec
PROPERTY QueuedImagesProgress
CHECK_DEADLOCK FALSE
