SPECIFICATION TransportSpec
CONSTANTS
    None = None
    MaxTime = 9
    Procs = {p1, p2}
    Calls = {c1, c2, c3}
    owner = owner
    other = other
    Roles = {owner, other}
    RoleOf <- TwoRoles
    CanCreate = {p1, p2}
    CanUpdate = {p1}
    DbFails = TRUE
    Db = Db
    Ttl = 1
    Fetches = {f1, f2, f3}
    CacheTtl = 1
    StaleMax = 2
    Timeout = 2
    MaxVersion = 1
    PartyKey = FALSE
    FirstTimeout = 2
    WakeTimeout = 1
    Interval = 1
    RetryTimeout = 1
    MaxWake = 3
    Window = 4
    MaxAttempts = 4
SYMMETRY Symmetry
INVARIANTS
    OncePerStore
    BoundedStaleness
    EnvOnlyAtFirstBoot
    DegradedIsHonest
    DegradedServesNothing
    BoundedCall
PROPERTIES
    ImplementsGuard
    ImplementsTask
CHECK_DEADLOCK FALSE
