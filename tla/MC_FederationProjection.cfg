SPECIFICATION Spec
CONSTANTS
  Transactions = {t1, t2}
  None = None
  MaxAborts = 1
  Logs <- MCLogs
  Author <- MCAuthor
  Collection <- MCCollection
  KeyedTo <- MCKeyedTo
  Rank <- MCRank
INVARIANTS
  TypeOK
  CountsExact
  PullStateResolved
  OwnersDecide
  Converged
  OnlyWritersDeadlock
PROPERTIES
  NeverRegresses
