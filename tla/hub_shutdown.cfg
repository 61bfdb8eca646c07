SPECIFICATION Spec
CONSTANTS
  Client = {c1}
  Cap = 1
INVARIANTS ShutdownSafe
CHECK_DEADLOCK FALSE
