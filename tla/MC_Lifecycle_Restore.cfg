SPECIFICATION Spec
CONSTANTS
  Requests = {r1}
  Workers = {p1}
  Branches = {main}
  None = None
  FailKinds = {}
  MaxFaults = 0
  MaxCrashes = 0
  MaxClock = 6
SYMMETRY Symmetric
CHECK_DEADLOCK FALSE
INVARIANT RestoredDataKept
