SPECIFICATION Spec
CONSTANTS
  Deliveries = {d1, d2}
  NoDelivery = NoDelivery
  Gone = Gone
  Cleaners = {s1, s2}
  NoCleaner = NoCleaner
  Contents = {c1, c2}
  NoContent = NoContent
  MaxFence = 2
SYMMETRY HandoffSymmetry
CHECK_DEADLOCK FALSE
INVARIANTS ItemHasArtifact FenceIsNeverLost CompletedIsArchived
PROPERTIES AuthorsOnlyRise CustodyImplemented
