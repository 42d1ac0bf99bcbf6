SPECIFICATION FairSpec
CONSTANTS
    Providers = {"openai", "anthropic", "google", "vertexai"}
    here = here
    missing = missing
    good = good
    odd = odd
    Targets = {here, missing}
    Actions = {good, odd}
    Absent = {missing}
    Permitted <- NothingOdd
    Existing <- NothingOdd
    Aggregates <- GoodHere
    Width = 2
    MaxRounds = 4
    MaxFailures = 3
    PermFail = 9
    None = None
INVARIANTS
    BreakerTrips
    BlockedForCause
    RequestsBounded
PROPERTIES
    StopSendsNothing
    StopStartsNothing
    TurnEnds
CHECK_DEADLOCK FALSE
