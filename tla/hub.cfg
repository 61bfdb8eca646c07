SPECIFICATION LiveSpec
CONSTANTS
  Client = {c1}
  Cap = 2
INVARIANTS TypeOK SafeWhileServing
PROPERTIES PumpsEnd Forgotten
CHECK_DEADLOCK FALSE
