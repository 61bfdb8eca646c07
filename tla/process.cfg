SPECIFICATION ProcLiveSpec
CONSTANTS
  Instance = {i1}
  MaxLosses = 1
  Loop = {l1}
  Worker = {w1}
  Request = {r1, r2}
INVARIANTS LoopsUnderLease ClosedAfterUse
PROPERTIES Terminates LoopsEnd
CHECK_DEADLOCK FALSE
