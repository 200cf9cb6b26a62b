SPECIFICATION ScheduleSpec
CONSTANTS
  d0 = d0
  m0 = m0
  m1 = m1
  Clocks = {d0, m0, m1}
  Readout = {m0, m1}
  LowerSideband = {d0}
  Names <- MCNames
  RawTimes <- MCRawTimes
  Values <- MCValues
  MaxInstructions = 4
SYMMETRY MCSymmetry
INVARIANTS
  DistanceKept
  SlotAligned
  PhaseAsPlayedBack
  AcquisitionsNumbered
