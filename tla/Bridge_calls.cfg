SPECIFICATION Spec
CONSTANTS
    c1 = c1
    r1 = r1
    r2 = r2
    Calls = {c1}
    Relays = {r1, r2}
    Action <- RelayAction
    MaxCopies = 2
    MaxTries = 3
    MaxVersion = 2
    CallLimit = 1
    Interval = 1
    WakeWait = 2
    DelegationLimit = 1
    Fresh = 1
    Ttl = 3
    Skew = 1
    Delay = 1
    MaxTime = 5
CONSTRAINTS
    Apart
    AtOnce
    Settled
INVARIANTS
    OnlyWakingIsRepeated
    RefusedForCause
    OncePerRelay
PROPERTY DelegationReported
CHECK_DEADLOCK FALSE
