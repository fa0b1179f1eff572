SPECIFICATION DispatchSpec
CONSTANTS
  Workers = {w1}
  NoWorker = NoWorker
  Providers = {p1}
  Ops = {"create", "insert", "publish"}
  Items <- MCItems
  NoItem = NoItem
  Readings <- MCReadings
  Budget = 2
  MaxChecks = 3
  MaxFence = 3
  MaxAttempts = 2
  MaxIntents = 3
  MaxReceipts = 3
  MaxTokens = 4
  MaxHolds = 0
  Youtube = {p1}
  Listing = {p1}
  Messages = {m1}
  MaxDequeue = 3
  NoMessage = NoMessage
  NoLeg = NoLeg
CHECK_DEADLOCK FALSE
INVARIANTS NoLegIsForgotten
