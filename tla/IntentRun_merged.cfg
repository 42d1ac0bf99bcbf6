SPECIFICATION RunSpec
CONSTANTS
    r1 = r1
    r2 = r2
    r3 = r3
    w1 = w1
    w2 = w2
    Runs = {r1, r2}
    Asks <- TestedAsk
    Workspaces = {w1, w2}
    Home = w1
    None = None
    Dangerous = {"shell"}
    Meta = {"describe"}
    ReadOnly = {"sql", "look", "describe"}
    Totals = {"sum"}
    Distinct = {"distinct"}
    Batch = 2
    Ttl = 1
    MaxSize = 1
    Skew = 1
    Delay = 1
    MaxVersion = 3
    MaxTime = 5
INVARIANT MergePreserves
CHECK_DEADLOCK FALSE
