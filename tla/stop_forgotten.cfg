SPECIFICATION FairSpec
CONSTANTS
  Careful = FALSE  MaxCalls = 2  Reporters = {"progress", "speed"}
  FetchRetry = 1  Responses <- SomeResponses
INVARIANTS StopCancels
