CONSTANTS
    Hosts       = {a, b}
    Day         = 2
    Lag         = 1
    MaxSessions = 2
    MaxPayouts  = 3
    MaxTime     = 2
SPECIFICATION Spec
INVARIANTS TypeOK LeaderIsBacked
PROPERTIES VoteIsFinal
SYMMETRY HostSymmetry
CHECK_DEADLOCK FALSE
