SPECIFICATION Spec
CONSTANTS
  AutoTrackOnUnpark = TRUE
  AutoTrackOnGotoArrival = TRUE
  NApps = 1
  Ops = {"home", "park"}
  MaxMoves = 2
  MaxAppCalls = 1
  MaxSupCalls = 1
  MaxCloses = 0
  MaxInFlight = 1
  MaxFaults = 0
  MaxDrops = 0
  Prompt = TRUE
CONSTRAINT
  ThreeEvents
INVARIANTS
  OneMoveAtATime
  StopResultDelivered
  ConfirmedMoveIsReal
  AuthorityExcludesParked
PROPERTIES
  OutcomeIsFinal
  KeepsPromise
