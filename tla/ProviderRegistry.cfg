CONSTANTS
  MaxUID = 2
  MaxPackage = 2
  Misnamed = {2}
  MaxAdapters = 2
  MaxChanges = 2
SPECIFICATION FairSpec
INVARIANT NoLeakedAdapter
INVARIANT EntryIsUsable
PROPERTY ProviderComesBack
CHECK_DEADLOCK FALSE
