SPECIFICATION Spec
CONSTANTS
  AutoTrackOnUnpark = TRUE
  AutoTrackOnGotoArrival = TRUE
  NApps = 1
  Ops = {"home", "park", "axis", "unpark", "route"}
  MaxMoves = 1
  MaxAppCalls = 2
  MaxSupCalls = 1
  MaxCloses = 1
  MaxInFlight = 1
  MaxFaults = 1
  MaxDrops = 1
  Prompt = FALSE
CONSTRAINT
  TwoEvents
INVARIANTS
  TypeOK
  ConfirmedMoveIsReal
  AuthorityExcludesParked
  UnparkIsQuiet
  StoppedMoveIsHalted
  OneCallerOneMover
  CloseHaltsMove
