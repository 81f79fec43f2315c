CONSTANTS
  BatchSize = 2
  NoCursor = NoCursor
  MaxEvents = 4
  MaxFailures = 2
SPECIFICATION FairSpec
INVARIANTS TypeOK NoneSkipped RepeatsAreRetries
PROPERTIES RelayedInOrder EventuallyRelayed
CHECK_DEADLOCK FALSE
