SPECIFICATION Spec
CONSTANTS
  Attempts = {a1, a2, a3}
  Nobody = Nobody
  NoItem = NoItem
  Scopes <- MCScopes
  MaxFaults = 2
SYMMETRY Symmetry
CHECK_DEADLOCK FALSE
INVARIANTS CreatedOnce ArtifactIsRemembered PublishedIsLive
