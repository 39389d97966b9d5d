CONSTANTS
  MaxGeneration = 2
  Timeout = 2
  RequeueAfter = 1
  MaxDelay = 2
  MinDelay = 1
  RetryAfters = {5}
  Kinds = {"aws", "awsSnapshot", "azure", "azureDirect", "gcp", "openstack", "vsphere"}
  MaxFaults = 1
SPECIFICATION FairSpec
INVARIANT TypeOK
INVARIANT RetryWithinBudget
INVARIANT DeletionRemovesBuild
PROPERTY CleanedBeforeFailed
PROPERTY MeetsContract
PROPERTY AttemptsConclude
PROPERTY DeletionCompletes
CHECK_DEADLOCK FALSE
