CONSTANTS
    a = a
    b = b
    Models        = {a, b}
    NoModel       = NoModel
    Readings      <- MCReadings
    Freshness     = 1
    DownAfter     = 2
    SessionAge    = 2
    WarmFlips     = 1
    FrozenFor     = 1
    Hour          = 4
    RecentTraffic = 2
    OutageGap     = 2
    Windows       = {1, 3}
    Lag           = 1
    LastSessions  = 2
    MinSessions   = 2
    EvidenceSpan  = 4
    MaxInterval   = 1
    MaxTime       = 5
SPECIFICATION Spec
INVARIANTS TypeOK ServingIsExact HealthIsExact BadgeAndBandAgree EvidenceIsExact
PROPERTIES SwitchCostSettles
CHECK_DEADLOCK FALSE
