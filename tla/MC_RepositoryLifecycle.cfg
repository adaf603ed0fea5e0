SPECIFICATION Spec
CONSTANTS
  Requests = {r1, r2}
  Workers = {p1}
  Branches = {main, dev}
  None = None
  FailKinds = {"git", "db", "pds"}
  MaxFaults = 1
  MaxCrashes = 1
  MaxClock = 5
SYMMETRY Symmetric
CHECK_DEADLOCK FALSE
INVARIANTS TypeOK RowFollowsDeletion CompensationComplete
PROPERTY DeletionDecidedOnce
