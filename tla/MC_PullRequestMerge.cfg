SPECIFICATION Spec
CONSTANTS
  Requests = {r1, r2}
  MaxCommits = 3
  MaxHeads = 2
  MaxRevisions = 2
  MaxCalls = 3
  Tick = 3
  None = None
SYMMETRY Symmetric
INVARIANTS TypeOK NoCommitLost MergedTruthful RetryRecognized StatusMovesForward
CHECK_DEADLOCK FALSE
