CONSTANTS
    c1 = c1
    c2 = c2
    c3 = c3
    p1 = p1
    p2 = p2
    w1 = w1
    w2 = w2
    Conns = {c1, c2}
    Ports = {p1, p2}
    Fds = {5, 6}
    Workers = {w1, w2}
    MaxEvents = 2
    PortOf <- PortTwo
    Script <- ScriptMix
    Tls = {c2}
    MayThrow = {p1, p2}
    None = None
SPECIFICATION Spec
CHECK_DEADLOCK FALSE
SYMMETRY Symmetry
INVARIANTS
    TypeOK
    MarkHasOwner
    WatchedOrInTransit
    Exclusive
    OwnSiteUnlessRecycled
    SessionUnlessRecycled
