SPECIFICATION Spec
CONSTANTS
  SliceNum = 2  CacheSize <- FirstCached  DiskFirst = TRUE
  MaxChunk = 2  MaxReceived = 3
INVARIANTS TypeOK NeverOvershoots SpeedsAddUp
