SPECIFICATION Spec
CONSTANTS
  a = a  b = b  c = c
  Junk = Junk  Hole = Hole  NoFile = NoFile  NoHash = NoHash
  Contents <- OneContent  SizeOf <- FourBytes  UrlOf <- OwnUrl  ReportedSize <- SizeKnown
  AcceptRanges <- Ranges  ReplyKinds = {"error"}  MaxJunk = 2  MaxChunk = 2
  Platform = "linux"
  SlicePolicy = "FixedSize"  SlicePolicyValue = 2  DefaultSliceSize = 2
  ThreadNum = 2  DiskCacheSize = 4  MaxSpeed <- NoLimit  MaxFailedTimes = 3
  SavePolicy = "SaveExceptFailed"  HashVerifyPolicy = "AlwaysVerify"  HashValue = a
  HashType = "MD5"  ContentMd5 = FALSE  MayExpire = FALSE
  Faults = {}  UserActions = {}  CrashPoints = {}
  MaxSlices = 2  MaxSessions = 2  MaxCrashes = 0
INVARIANTS HashAlwaysVerified
