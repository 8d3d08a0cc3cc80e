SPECIFICATION FairSpec
CONSTANTS
    AutoTrackOnUnpark = FALSE
    AutoTrackOnGotoArrival = FALSE
    EastGuard = 4
    WestGuard = 3
    FlipLead = 2
    StopMargin = 1
    Allowance = 1
    Reserve = 0
    MinPulse = 2
    MaxPulse = 7
    ChunkMs = 3
    Durations = {3}
    EarlyAck = TRUE
    MaxEvents = 1
    MaxInFlight = 1
PROPERTIES
    HardStopEnds
    CallsReturn
CHECK_DEADLOCK FALSE
