SPECIFICATION Spec
CONSTANTS
  Requests = {r1, r2}
  Releases = {x1, x2}
  Assets = {a1, a2, a3}
  a1 = a1
  a2 = a2
  a3 = a3
  None = None
  Name <- MCName
  Size <- MCSize
  ReleaseBytes = 2
  RepositoryBytes = 3
  FaultKinds = {"answer", "database", "storage", "stop"}
  MaxFaults = 1
SYMMETRY Symmetric
CHECK_DEADLOCK FALSE
INVARIANTS TypeOK QuotaRespected RowsHaveBytes NoOrphanBytes
