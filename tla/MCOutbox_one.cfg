SPECIFICATION MutationSpec
CONSTANTS
  Workers = {w1, w2}
  NoWorker = NoWorker
  Providers = {p1}
  Ops = {"create", "publish"}
  Items = {i1}
  NoItem = NoItem
  Readings <- MCReadings
  Budget = 1
  MaxChecks = 2
  MaxFence = 3
  MaxAttempts = 2
  MaxIntents = 2
  MaxReceipts = 2
  MaxTokens = 1
  MaxHolds = 0
SYMMETRY WorkerSymmetry
CHECK_DEADLOCK FALSE
INVARIANTS TypeOK UnknownIsFenced MutatorOwnsAttempt SingleRecoveryGrant EvidenceIsOwn WinnerIsProven
PROPERTIES HistoryIsImmutable UnknownIsKept
