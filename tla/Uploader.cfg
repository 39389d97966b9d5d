CONSTANTS
  NumTargets = 2
  MaxRestarts = 1
  MaxCorruptions = 1
  OneShot = {1}
  Missing = Missing
  Corrupt = Corrupt
SPECIFICATION FairSpec
INVARIANT SuccessRegistersAll
INVARIANT ImageRecorded
PROPERTY UploadsNotRepeated
PROPERTY RegisteredOnDiskStays
PROPERTY UploadSettles
CHECK_DEADLOCK FALSE
