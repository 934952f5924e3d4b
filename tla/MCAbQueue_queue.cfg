SPECIFICATION Spec
CONSTANTS
    b1 = b1
    b2 = b2
    r1 = r1
    r2 = r2
    u1 = u1
    p1 = p1
    p2 = p2
    Loop = Loop
    NoReq = NoReq
    Books <- MCOneBooks
    Owner <- MCOneOwner
    Rules = {p1, p2}
    Segs <- MCSegs
    Scopes <- MCScopes
    Reqs <- MCSameReqs
    Book <- MCSameBook
    Scope <- MCSameScope
    Priority <- MCSamePriority
    MayDelete = TRUE
    DbFaults = TRUE
    MaxStores = 1
    MaxLive = 0
    MaxForeground = 1
    MaxRestarts = 1
INVARIANTS OneProducer
PROPERTIES CompleteIsListenable CancelStops
