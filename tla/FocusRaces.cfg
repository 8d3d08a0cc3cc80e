SPECIFICATION Spec
CONSTANTS
  m1 = m1
  m2 = m2
  s1 = s1
  Movers = {m1, m2}
  Stoppers = {s1}
  MaxPosition = 1
  ConfiguredMaximum = 1
  MaxMoves = 1
  MaxStops = 1
  MaxInFlight = 1
  MaxRejects = 1
  MaxLimits = 1
  MaxDrops = 1
SYMMETRY
  MoversAlike
CONSTRAINT
  ThreeEvents
  MovesFirst
INVARIANTS
  TypeOK
  ReachedIsReal
  StoppedIsStill
