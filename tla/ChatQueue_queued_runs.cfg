SPECIFICATION FairSpec
CONSTANTS
    Sockets = {s1, s2}
    Msgs = {m1, m2}
    None = None
    RateMax = 2
    RateWindow = 1
    MaxTime = 0
PROPERTY QueuedRequestRuns
CHECK_DEADLOCK FALSE
