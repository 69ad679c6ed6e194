SPECIFICATION ServedSpec
CONSTANTS
  a = a  b = b  c = c
  Junk = Junk  Hole = Hole  NoFile = NoFile  NoHash = NoHash
  Contents <- OneContent  SizeOf <- FiveBytes  UrlOf <- OwnUrl  ReportedSize <- SizeKnown
  AcceptRanges <- Ranges  ReplyKinds = {"range"}  MaxJunk = 0  MaxChunk = 2
  Platform = "linux"
  SlicePolicy = "FixedNum"  SlicePolicyValue = 4  DefaultSliceSize = 2
  ThreadNum = 2  DiskCacheSize = 2  MaxSpeed <- NoLimit  MaxFailedTimes = 3
  SavePolicy = "SaveExceptFailed"  HashVerifyPolicy = "AlwaysVerify"  HashValue = NoHash
  HashType = "MD5"  ContentMd5 = FALSE  MayExpire = FALSE
  Faults = {}  UserActions = {"stop", "pause"}  CrashPoints = {}
  MaxSlices = 4  MaxSessions = 3  MaxCrashes = 0
PROPERTIES Delivered NothingRefetched
