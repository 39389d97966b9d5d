CONSTANTS
  MaxGeneration = 2
  MaxRevision = 2
  RetainPolicies <- OnlyOnFailure
  MaxFaults = 1
SPECIFICATION FairSpec
PROPERTY AttemptsConclude
PROPERTY RebuildsStart
PROPERTY DeletionCompletes
CHECK_DEADLOCK FALSE
