SPECIFICATION FairSpec
CONSTANTS
  Careful = TRUE  MaxCalls = 2  Reporters = {"progress", "speed"}
  FetchRetry = 1  Responses <- SomeResponses
INVARIANTS TypeOK OneWorker OptionsFrozen ResultToOwner CanceledOnlyOnRequest InfoOfFinalResponse
PROPERTIES ResultDelivered StopTakesEffect UserNotHeld
