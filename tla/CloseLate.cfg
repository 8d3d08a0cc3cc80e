SPECIFICATION Spec
CONSTANTS
  AutoTrackOnUnpark = TRUE
  AutoTrackOnGotoArrival = TRUE
  NApps = 1
  Ops = {"axis"}
  MaxMoves = 1
  MaxAppCalls = 0
  MaxSupCalls = 0
  MaxCloses = 1
  MaxInFlight = 1
  MaxFaults = 0
  MaxDrops = 0
  Prompt = TRUE
INVARIANTS
  CloseLeavesNoMove
