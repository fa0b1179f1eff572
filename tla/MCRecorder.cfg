SPECIFICATION Spec
CONSTANTS
  Clips = {c1}
  Recorders = {r1, r2}
  Editors = {e1}
  Nobody = Nobody
  Static = Static
  NoMedia = NoMedia
  Plans = {"absent", "legacy"}
  Results = {"success"}
  MaxDequeue = 2
  FailedLimit = 2
  MaxMessages = 1
  MaxRecordings = 2
  MaxAdmissions = 1
  MaxFaults = 1
SYMMETRY RecorderSymmetry
CHECK_DEADLOCK FALSE
INVARIANTS RecordingKeepsMedia GivenUpIsTerminal FailuresCountOnce
PROPERTIES ManifestIsFinal RecordingImplemented
