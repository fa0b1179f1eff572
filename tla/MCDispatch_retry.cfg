SPECIFICATION DispatchSpec
CONSTANTS
  Workers = {w1, w2}
  NoWorker = NoWorker
  Providers = {p1}
  Ops = {"create", "insert", "publish"}
  Items <- MCItems
  NoItem = NoItem
  Readings <- MCReadings
  Budget = 2
  MaxChecks = 3
  MaxFence = 3
  MaxAttempts = 2
  MaxIntents = 2
  MaxReceipts = 2
  MaxTokens = 2
  MaxHolds = 0
  Youtube = {p1}
  Listing = {}
  Messages = {m1}
  MaxDequeue = 2
  NoMessage = NoMessage
  NoLeg = NoLeg
SYMMETRY WorkerSymmetry
CHECK_DEADLOCK FALSE
INVARIANTS UnknownNeverAuthorizesRetry
