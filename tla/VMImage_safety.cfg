CONSTANTS
  MaxGeneration = 3
  MaxRevision = 2
  RetainPolicies <- OnlyNever
  MaxFaults = 1
SPECIFICATION Spec
INVARIANT TypeOK
INVARIANT StatusShowsOwnAttempt
INVARIANT WorkspaceKept
PROPERTY UploadFailureCleaned
PROPERTY MeetsContract
CHECK_DEADLOCK FALSE
