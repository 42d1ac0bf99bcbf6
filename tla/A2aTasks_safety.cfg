SPECIFICATION Spec
CONSTANTS
    t1 = t1
    t2 = t2
    Tasks <- TurnTasks
    Tenants = {h1}
    Charts = {c1}
    None = None
    MaxText <- TurnText
    MaxTools <- TurnTools
    Follow = 0
    Substantial = 0
    Hour = 1
    TurnLimit = 1
    BatchSize = 2
    MaxTime = 2
INVARIANTS AnswerComplete ReadableForAnHour TracedOnce
PROPERTIES AnsweredFinal
CHECK_DEADLOCK FALSE
