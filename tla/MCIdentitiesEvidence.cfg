CONSTANTS
    p1 = p1
    p2 = p2
    p3 = p3
    m1 = m1
    m2 = m2
    h1 = h1
    h2 = h2
    h3 = h3
    s  = s
    Providers = {p1, p2}
    Macs      = {m1, m2}
    Probe     = m1
    Steady    = {p1}
    Hashes    = {h1, h2}
    Sessions  = {}
    PidOf     <- MCPairPidOf
    KeyOf     <- MCPairKeyOf
    NoMac     = NoMac
    Legacy    <- MCNone
SPECIFICATION Spec
INVARIANTS EvidenceIsAssigned
