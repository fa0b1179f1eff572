SPECIFICATION Spec
CONSTANTS
  Repos = {"r1", "r2"}
  NoRepo = "none"
  Turns <- MCTurns
  Libraries <- MCLibraries
  NoClip = NoClip
  Audios = {12, 26, 40}
  Mentions = {0, 5, 20, 40}
  Bumpers <- MCBumpers
  Offsets = {0, 1, 6}
  Gap = 2
  ScanSpan = 10
  MinWindow = 6
  MinVisual = 6
  EdgeMargin = 1
  MinSafe = 2
  DropBelow = 1
  MinSegment = 4
  WeeklyMin = 8
  Lead = 5
  Transition = 2
  Headroom = 1
  MinContent = 2
  MaxTurns = 3
CHECK_DEADLOCK FALSE
INVARIANTS TimelineIsCovered
