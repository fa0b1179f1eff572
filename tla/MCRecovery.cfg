SPECIFICATION Spec
CONSTANTS
  Attempts <- MCAttempts
  Sweeper = sweeper
  Requester = requester
  Nobody = Nobody
  MaxEpochs = 2
  MaxDequeue = 2
  MaxMessages = 3
  MaxFaults = 1
CHECK_DEADLOCK FALSE
INVARIANTS SelectionIsAuthorized
PROPERTIES SelectionImplemented EpochSettles
