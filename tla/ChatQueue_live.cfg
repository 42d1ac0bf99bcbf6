SPECIFICATION FairSpec
CONSTANTS
    Sockets = {s1, s2}
    Msgs = {m1, m2, m3}
    None = None
    RateMax = 1
    RateWindow = 1
    MaxTime = 2
INVARIANT RateRespected
PROPERTY ProcessingEnds
CHECK_DEADLOCK FALSE
