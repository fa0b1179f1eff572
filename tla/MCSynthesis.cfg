SPECIFICATION Spec
CONSTANTS
  Turns = {t1, t2}
  MaxWords = 3
  Low = 1
  High = 2
  Modes = {"audit", "both", "construct"}
  MaxSectionRepairs = 1
  MaxLengthRepairs = 2
  MaxTargeted = 1
  MaxFull = 1
  Unconditional = 1
  MaxGate = 1
  Calls = {g1, g2}
  NoCall = NoCall
  Results = {"pending", "failed"}
  NoReviewer = NoReviewer
  NoRunner = NoRunner
  Reviewers = {w1, w2}
  Runners = {x1, x2}
  Messages = {m1, m2}
  FirstMessage = m1
  Segments = 2
  MaxRetries = 1
  MaxTransient = 1
  MaxDequeue = 2
  MaxFaults = 2
SYMMETRY SynthesisSymmetry
CHECK_DEADLOCK FALSE
INVARIANTS AcceptedIsSound ReservationIsHonest TtsByOne RevocationStopsCalls
PROPERTIES RevokedStaysRevoked
