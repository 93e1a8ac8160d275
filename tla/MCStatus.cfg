CONSTANTS
    p1 = p1
    p2 = p2
    m1 = m1
    m2 = m2
    m4 = m4
    h1 = h1
    Providers = {p1, p2}
    Macs      = {m1, m2}
    Probe     = m1
    Steady    = {p1, p2}
    Hashes    = {h1}
    Sessions  = {}
    PidOf     <- MCPidOf
    KeyOf     <- MCKeyOf
    NoMac     = NoMac
    Legacy    = {}
    Former    = {m4}
    Voted     = {m4}
    Order     <- MCOrder
    MaxDiscovered = 1
    Payouts   <- MCPayouts
    NoHash    = NoHash
    Late      <- MCLate
    Nows      = {5}
    Nobody    = Nobody
    HourSeconds    = 4
    PortionSeconds = 2
    Buckets   = 2
    Names     <- MCNames
    Initials  <- MCInitials
    Labels    <- MCLabels
    Overflow  = "?"
SPECIFICATION StatusSpec
INVARIANTS StatusTypeOK OneCard NothingIsLost HourlyIsExact
