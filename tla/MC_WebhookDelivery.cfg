SPECIFICATION Spec
CONSTANTS
  Workers = {w1, w2}
  Hooks = {h1}
  Events = {e1}
  Redeliveries = {d1}
  None = None
  Types = {"git.push_received"}
  BatchSize = 2
  MaxAttempts = 2
  MaxFaults = 1
SYMMETRY Symmetric
INVARIANTS TypeOK NoLostEvent HistoryTruthful RequestsCounted
PROPERTY SettledFinal
