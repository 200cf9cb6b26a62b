SPECIFICATION FairSpec
CONSTANTS
  Jobs = {j1}
  MaxRequests = 3
INVARIANTS
  CancelInTimeIsEffective
PROPERTIES
  DeletedStaysDeleted
  EveryJobSettles
CHECK_DEADLOCK FALSE
