SPECIFICATION Spec
CONSTANTS
  pending = pending
  executing = executing
  cancelled = cancelled
  Statuses <- MCStatuses
  First = pending
  Keys = {k1}
  Api = api
  Workers = {w1}
  TTL = 2
  Interval = 1
  Horizon = 5
SYMMETRY Symmetry
INVARIANTS
  TypeOK
  FindsByStatusUnlessClash
  FoundIsStoredUnlessDeleteClash
CHECK_DEADLOCK FALSE
