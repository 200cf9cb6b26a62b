SPECIFICATION FairSpec
CONSTANTS
  MaxJobs = 5
  MaxRequests = 4
INVARIANTS
  TypeOK
  OneChainUnlessOverlap
  StoppedUnlessSlipped
PROPERTIES
  EveryQueuedRuns
CHECK_DEADLOCK FALSE
