SPECIFICATION Spec
CONSTANTS
  m1 = m1
  s1 = s1
  Movers = {m1}
  Stoppers = {s1}
  MaxPosition = 1
  ConfiguredMaximum = 1
  MaxMoves = 1
  MaxStops = 1
  MaxInFlight = 1
  MaxRejects = 0
  MaxLimits = 0
  MaxDrops = 0
INVARIANTS
  StopOutlastsMove
