SPECIFICATION FairSpec
CONSTANTS
  Workers = {w1}
  Hooks = {h1}
  Events = {e1, e2}
  Redeliveries = {}
  None = None
  Types = {"git.push_received"}
  BatchSize = 2
  MaxAttempts = 2
  MaxFaults = 1
PROPERTIES OutboxDrains DeliveriesSettle
