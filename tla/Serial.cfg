CONSTANTS
    Ops = {"home", "park", "goto", "track", "untrack", "axis", "jog", "pulse", "manual", "tick"}
    MaxOps = 2
    MaxFaults = 1
    MaxStops = 1
SPECIFICATION FairSpec
INVARIANTS
    TypeOK
    GuardNestsByReset
    AxisStops
PROPERTIES
    SuccessIsReal
    ParkFromSeenHome
    UnrequestedTrackingEnds
    OperationsEnd
