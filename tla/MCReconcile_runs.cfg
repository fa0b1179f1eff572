SPECIFICATION ReconcileSpec
CONSTANTS
  Workers = {w1}
  NoWorker = NoWorker
  Providers = {p1}
  Ops = {"create"}
  Items = {i1}
  NoItem = NoItem
  Readings <- MCReadings
  Budget = 1
  MaxChecks = 1
  MaxFence = 1
  MaxAttempts = 1
  MaxIntents = 0
  MaxReceipts = 0
  MaxTokens = 2
  MaxHolds = 4
  Schedulers = {s1, s2}
  NoScheduler = NoScheduler
  MaxHints = 1
  MaxFaults = 1
CHECK_DEADLOCK FALSE
INVARIANTS InitialSendAtMostOnce SettledIsSilent
PROPERTIES DueIsAnnounced
