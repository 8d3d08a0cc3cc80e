SPECIFICATION FairSpec
CONSTANTS
  AutoTrackOnUnpark = TRUE
  AutoTrackOnGotoArrival = TRUE
  NApps = 1
  Ops = {"park"}
  MaxMoves = 1
  MaxAppCalls = 1
  MaxSupCalls = 1
  MaxCloses = 1
  MaxInFlight = 1
  MaxFaults = 0
  MaxDrops = 1
  Prompt = TRUE
CONSTRAINT
  AroundClose
PROPERTIES
  MoveEnds
  StopEndsMove
  CloseReturns
