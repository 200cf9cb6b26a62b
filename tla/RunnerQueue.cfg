SPECIFICATION FairSpec
CONSTANTS
  j1 = j1
  j2 = j2
  j3 = j3
  Jobs <- MCJobs
  Duration <- MCDuration
  MaxCancels = 3
  MaxCrashes = 1
INVARIANTS
  TypeOK
  EveryEntryHasATicket
  OneOutcome
  TotalNeverOverstates
PROPERTIES
  ImplementsAbstractQueue
  EveryJobLeaves
CHECK_DEADLOCK FALSE
