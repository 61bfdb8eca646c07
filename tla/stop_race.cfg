SPECIFICATION Spec
CONSTANTS
  Instance = {i1}
  MaxLosses = 0
INVARIANTS NoPanic
CHECK_DEADLOCK FALSE
