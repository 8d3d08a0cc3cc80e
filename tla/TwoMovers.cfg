SPECIFICATION Spec
CONSTANTS
  AutoTrackOnUnpark = TRUE
  AutoTrackOnGotoArrival = TRUE
  NApps = 2
  Ops = {"route", "park"}
  MaxMoves = 1
  MaxAppCalls = 1
  MaxSupCalls = 0
  MaxCloses = 0
  MaxInFlight = 1
  MaxFaults = 0
  MaxDrops = 0
  Prompt = TRUE
INVARIANTS
  OnlyOneMover
