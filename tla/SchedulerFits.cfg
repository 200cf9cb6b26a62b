SPECIFICATION SchedulerSpec
CONSTANTS
  b1 = b1
  b2 = b2
  alice = alice
  bob = bob
  j1 = j1
  j2 = j2
  Jobs = {j1, j2}
  Slots = {b1, b2}
  Duration <- MCDuration
  Owner <- MCOwner
  StartUtc <- MCLaterStart
  EndUtc <- MCLaterEnd
  Booker <- MCBooker
  MaxIdle = 1
  LastTick = 6
  MaxRemovals = 0
CHECK_DEADLOCK FALSE
PROPERTY BookedJobFitsSlot
