CONSTANTS
    c1 = c1
    c2 = c2
    c3 = c3
    p1 = p1
    p2 = p2
    w1 = w1
    w2 = w2
    Conns = {c1, c2, c3}
    Ports = {p1, p2}
    Fds = {5}
    Workers = {w1, w2}
    MaxEvents = 2
    PortOf <- PortThree
    Script <- ScriptOne
    Tls = {}
    MayThrow = {}
    None = None
SPECIFICATION Spec
CHECK_DEADLOCK FALSE
INVARIANT OwnSite
