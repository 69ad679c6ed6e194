SPECIFICATION Spec
CONSTANTS
  a = a  b = b  c = c
  Junk = Junk  Hole = Hole  NoFile = NoFile  NoHash = NoHash
  Contents <- OneContent  SizeOf <- FourBytes  UrlOf <- OwnUrl  ReportedSize <- SizeKnown
  AcceptRanges <- Ranges  ReplyKinds = {"range"}  MaxJunk = 0  MaxChunk = 2
  Platform = "linux"
  SlicePolicy = "FixedNum"  SlicePolicyValue = 3  DefaultSliceSize = 2
  ThreadNum = 2  DiskCacheSize = 2  MaxSpeed <- NoLimit  MaxFailedTimes = 3
  SavePolicy = "SaveExceptFailed"  HashVerifyPolicy = "AlwaysVerify"  HashValue = NoHash
  HashType = "MD5"  ContentMd5 = FALSE  MayExpire = TRUE
  Faults = {"create", "drop", "short", "remove"}  UserActions = {"stop"}  CrashPoints <- Anywhere
  MaxSlices = 3  MaxSessions = 3  MaxCrashes = 1
INVARIANTS TypeOK IndexTruthful SlicesTruthful ConnectionLimit NoHandleLeak CreatedAtItsSize
PROPERTIES ImplementsTransfer
