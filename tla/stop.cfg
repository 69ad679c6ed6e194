SPECIFICATION FairSpec
CONSTANTS
  a = a  b = b  c = c
  Junk = Junk  Hole = Hole  NoFile = NoFile  NoHash = NoHash
  Contents <- OneContent  SizeOf <- ThreeBytes  UrlOf <- OwnUrl  ReportedSize <- SizeKnown
  AcceptRanges <- Ranges  ReplyKinds = {"range"}  MaxJunk = 0  MaxChunk = 2
  Platform = "linux"
  SlicePolicy = "FixedSize"  SlicePolicyValue = 2  DefaultSliceSize = 2
  ThreadNum = 2  DiskCacheSize = 2  MaxSpeed <- NoLimit  MaxFailedTimes = 3
  SavePolicy = "SaveExceptFailed"  HashVerifyPolicy = "AlwaysVerify"  HashValue = NoHash
  HashType = "MD5"  ContentMd5 = TRUE  MayExpire = FALSE
  Faults = {"fetch", "create", "curl", "drop", "fdset", "write", "index", "rename"}
  UserActions = {"stop", "event", "pause"}  CrashPoints = {}
  MaxSlices = 2  MaxSessions = 1  MaxCrashes = 0
PROPERTIES StopEnds SessionEnds
