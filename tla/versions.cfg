SPECIFICATION Spec
CONSTANTS
  a = a  b = b  c = c
  Junk = Junk  Hole = Hole  NoFile = NoFile  NoHash = NoHash
  Contents <- ThreeContents  SizeOf <- ThreeThreeTwo  UrlOf <- SameUrl
  ReportedSize <- SizeKnown  AcceptRanges <- RangesButForB  ReplyKinds = {"range"}
  MaxJunk = 0  MaxChunk = 2
  Platform = "windows"
  SlicePolicy = "FixedSize"  SlicePolicyValue = 2  DefaultSliceSize = 2
  ThreadNum = 2  DiskCacheSize = 4  MaxSpeed <- NoLimit  MaxFailedTimes = 3
  SavePolicy = "SaveExceptFailed"  HashVerifyPolicy = "AlwaysVerify"  HashValue = NoHash
  HashType = "MD5"  ContentMd5 = TRUE  MayExpire = FALSE
  Faults = {}  UserActions = {"stop"}  CrashPoints = {}
  MaxSlices = 2  MaxSessions = 3  MaxCrashes = 0
INVARIANTS SuccessIsExact
