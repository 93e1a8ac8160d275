CONSTANTS
    Alerts  = {"provider"}
    Grace   = 1
    Hold    = 2
    MaxTime = 4
SPECIFICATION Spec
PROPERTIES ResolvedKeptUntilDelivered
