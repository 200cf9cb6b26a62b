SPECIFICATION FairSpec
CONSTANTS
  Jobs = {j1, j2}
  MaxRequests = 0
PROPERTIES
  EveryJobSettles
CHECK_DEADLOCK FALSE
