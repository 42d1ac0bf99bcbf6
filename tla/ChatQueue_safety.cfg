SPECIFICATION Spec
CONSTANTS
    Sockets = {s1, s2}
    Msgs = {m1, m2, m3, m4, m5}
    None = None
    RateMax = 5
    RateWindow = 1
    MaxTime = 0
SYMMETRY Symmetry
INVARIANTS
    ProcessingHasOwner
    BusySocketHasWork
    ControllerIsLive
    NoOvertaking
CHECK_DEADLOCK FALSE
