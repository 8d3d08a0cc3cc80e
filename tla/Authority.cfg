CONSTANTS
    home = home
    away = away
    Poses <- TwoPoses
    HomePose = home
    NoRecord = NoRecord
    NoState = NoState
    Lost = Lost
    MaxFaults = 1
    MaxCrashes = 1
    MaxCalls = 4
SPECIFICATION Spec
INVARIANTS
    TypeOK
    StoredWasAccepted
    TrustIsEarned
PROPERTIES
    GotoIsInformed
CONSTRAINT
    FourEvents
CHECK_DEADLOCK FALSE
