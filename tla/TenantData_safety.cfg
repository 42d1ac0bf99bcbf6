SPECIFICATION Spec
CONSTANTS
    w1 = w1
    w2 = w2
    r1 = r1
    r2 = r2
    r3 = r3
    a1 = a1
    a2 = a2
    v1 = v1
    p1 = p1
    Workspaces = {w1, w2}
    Home = w1
    Requests = {r1, r2, r3}
    Asks <- AnyButThird
    Conns = {a1, a2, v1, p1}
    PoolOf <- Pools
    None = None
    Ttl = 2
    NegativeTtl = 2
    Delay = 1
    MaxVersion = 2
    MaxTime = 3
SYMMETRY Symmetry
CONSTRAINT Apart
INVARIANTS
    OwnRowsOnly
    FailureStaysLocal
    TapsAccounted
PROPERTY RotationTakesEffect
CHECK_DEADLOCK FALSE
