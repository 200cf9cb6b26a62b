SPECIFICATION Spec
CONSTANTS
  j1 = j1
  j2 = j2
  j3 = j3
  Jobs <- MCJobs
  Duration <- MCDuration
  BatchSize = 2
  Limits = {0, 2, 3, 4}
  MaxCalls = 2
INVARIANTS
  MovedAtMostOnce
  MovedFitsWindow
  LeavesNothingUnlessDisturbed
PROPERTIES
  NoOvertaking
CHECK_DEADLOCK FALSE
