SPECIFICATION DispatchSpec
CONSTANTS
  Workers = {w1}
  NoWorker = NoWorker
  Providers = {p1, p2}
  Ops = {"create", "insert", "publish"}
  Items <- MCItems
  NoItem = NoItem
  Readings <- MCReadings
  Budget = 2
  MaxChecks = 2
  MaxFence = 2
  MaxAttempts = 2
  MaxIntents = 4
  MaxReceipts = 2
  MaxTokens = 4
  MaxHolds = 0
  Youtube = {p1}
  Listing = {}
  Messages = {m1}
  MaxDequeue = 2
  NoMessage = NoMessage
  NoLeg = NoLeg
SYMMETRY WorkerSymmetry
CHECK_DEADLOCK FALSE
INVARIANTS VerifiedIsPublic DecisionIsCurrent
PROPERTIES PublicIsKept PublicationImplemented
