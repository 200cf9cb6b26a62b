SPECIFICATION Spec
CONSTANTS
  Users = {u1, u2}
  Ids = {b1, b2, b3}
  MinSlot = 1
  MaxSlot = 3
  SlotsPerDay = 2
  DayLength = 4
  Grace = 1
  Horizon = 8
SYMMETRY Symmetry
INVARIANTS
  TypeOK
  NoOverlap
  SlotLimit
  UnfinishedBookingsHaveOwner
PROPERTIES
  BegunSlotsAreKept
CHECK_DEADLOCK FALSE
