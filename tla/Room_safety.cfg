SPECIFICATION Spec
CONSTANTS
    p1 = p1
    p2 = p2
    f1 = f1
    f2 = f2
    t1 = t1
    t2 = t2
    t3 = t3
    u1 = u1
    u2 = u2
    w1 = w1
    w2 = w2
    h1 = h1
    h2 = h2
    g1 = g1
    Pods = {p1, p2}
    Env <- EnvOf
    Forms = {f1, f2}
    Classic = {f2}
    None = None
    Empty = Empty
    Prompts = {"old", "new"}
    Default <- DefaultAi
    Providers = {"a", "b"}
    Catalog = {"shell", "web"}
    Attempts = 2
    Users = {u1, u2}
    Workspaces = {w1, w2}
    Home = w1
    Tabs = {t1, t2, t3}
    BrowserOf <- Browser
    ClassicTabs = {t2}
    Listeners = {t3}
    RoomOf <- Rooms
    Posts = {h1, h2}
    Gens = {g1}
    Limit = 1
    Connections = 2
    Adapter = FALSE
CONSTRAINT Few
INVARIANTS
    PushSurvives
    NothingLost
    PresenceTrue
CHECK_DEADLOCK FALSE
