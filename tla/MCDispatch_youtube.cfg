SPECIFICATION DispatchSpec
CONSTANTS
  Workers = {w1, w2}
  NoWorker = NoWorker
  Providers = {p1}
  Ops = {"create", "insert", "publish"}
  Items <- MCItems
  NoItem = NoItem
  Readings <- MCReadings
  Budget = 3
  MaxChecks = 3
  MaxFence = 3
  MaxAttempts = 2
  MaxIntents = 3
  MaxReceipts = 3
  MaxTokens = 2
  MaxHolds = 0
  Youtube = {p1}
  Listing = {p1}
  Messages = {m1}
  MaxDequeue = 2
  NoMessage = NoMessage
  NoLeg = NoLeg
SYMMETRY WorkerSymmetry
CHECK_DEADLOCK FALSE
INVARIANTS CreateAtMostOnce OneMutationInFlight
PROPERTIES PublicationImplemented
