SPECIFICATION Spec
CONSTANTS
  a = a  b = b  c = c
  Junk = Junk  Hole = Hole  NoFile = NoFile  NoHash = NoHash
  Contents <- ThreeContents  SizeOf <- FourThreeNone  UrlOf <- OwnUrl  ReportedSize <- SizeOfBUnknown
  AcceptRanges <- Ranges  ReplyKinds = {"range", "whole", "error"}  MaxJunk = 4
  MaxChunk = 2
  Platform = "macos"
  SlicePolicy = "FixedSize"  SlicePolicyValue = 2  DefaultSliceSize = 2
  ThreadNum = 2  DiskCacheSize = 4  MaxSpeed <- NoLimit  MaxFailedTimes = 3
  SavePolicy = "SaveExceptFailed"  HashVerifyPolicy = "AlwaysVerify"  HashValue = NoHash
  HashType = "MD5"  ContentMd5 = TRUE  MayExpire = FALSE
  Faults = {"create", "drop", "short", "malloc", "rename"}  UserActions = {"stop"}
  CrashPoints = {}
  MaxSlices = 2  MaxSessions = 1  MaxCrashes = 0
INVARIANTS SuccessIsExact
