SPECIFICATION ExchangeSpec
CONSTANTS
    PartyKey = TRUE
    FirstTimeout = 2
    WakeTimeout = 1
    Interval = 1
    RetryTimeout = 1
    MaxWake = 3
    Window = 4
    MaxAttempts = 4
    MaxTime = 9
    None = None
INVARIANT NotTurnedAway
CHECK_DEADLOCK FALSE
