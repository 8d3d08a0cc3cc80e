SPECIFICATION Spec
CONSTANTS
    AutoTrackOnUnpark = FALSE
    AutoTrackOnGotoArrival = FALSE
    EastGuard = 4
    WestGuard = 3
    FlipLead = 2
    StopMargin = 1
    Allowance = 1
    Reserve = 0
    MinPulse = 2
    MaxPulse = 7
    ChunkMs = 3
    Durations = {4}
    EarlyAck = FALSE
    MaxEvents = 2
    MaxInFlight = 1
INVARIANTS
    TypeOK
PROPERTIES
    FailureStops
    TrackingIsReal
    PulseIsReal
CHECK_DEADLOCK FALSE
