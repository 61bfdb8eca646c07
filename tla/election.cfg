SPECIFICATION LiveSpec
CONSTANTS
  Instance = {i1, i2}
  MaxLosses = 1
INVARIANTS TypeOK LeaseOrLost ReleasedByStop
PROPERTIES LeaseKept Available TenureEnds
CHECK_DEADLOCK FALSE
