CONSTANTS
  Users = {ann, bob}
  Nobody = nobody
  RepoOwner = ann
  MaxTokens = 2
  MaxCalls = 2
  MaxInputs = 2
  MaxMuts = 2
  Branches = {main, dev}
  Default = dev
  Fallback = main
  NoBranch = nobranch
  MaxPushes = 1
  MaxClicks = 3
  MaxLoads = 2
  Tours <- EachKind
SPECIFICATION FairSpec
INVARIANTS
  TypeOK
  CacheIsOwn
  AcknowledgedListed
  OnlyOwnersSend
  ShownIsOfPlace
  OpenFolderListed
  FolderIsOfBranch
  ViewerShowsItsFile
PROPERTIES
  EverythingSettles
CHECK_DEADLOCK FALSE
