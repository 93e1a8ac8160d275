CONSTANTS
    p1 = p1
    p2 = p2
    p3 = p3
    m1 = m1
    m2 = m2
    h1 = h1
    h2 = h2
    h3 = h3
    s  = s
    Providers = {p1, p2, p3}
    Macs      = {m1, m2}
    Probe     = m1
    Steady    = {p1, p3}
    Hashes    = {h1, h2, h3, s}
    Sessions  = {s}
    PidOf     <- MCPidOf
    KeyOf     <- MCKeyOf
    NoMac     = NoMac
    Legacy    <- MCLegacy
SPECIFICATION FairSpec
PROPERTIES IdentityIsKept EventuallyKnown EventuallyForgotten
