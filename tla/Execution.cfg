SPECIFICATION Spec
CONSTANTS
  u0 = u0
  u1 = u1
  j1 = j1
  j2 = j2
  Jobs = {j1, j2}
  Couplers = {u0, u1}
  Device <- MCDevice
  Qobjs <- MCQobjs
  Parking <- MCParking
  SpanCurrent <- MCSpanCurrent
  MaxRestarts = 1
  ShouldRestore = TRUE
INVARIANTS
  MeasuredUnderOwnBias
  IntegratedOfOwnExperiment
  BitsOfOwnQubits
SYMMETRY SymJobs
