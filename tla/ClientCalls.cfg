CONSTANTS
    Callers = {c1, c2}
    Threshold = 2
    ResetTimeout = 0
    MaxRetries = 1
    Rate = 2
    Burst = 1
    CleanEvery = 0
    IdleMax = 1
    MaxTime = 2
    MaxCalls = 3
SPECIFICATION Spec
INVARIANTS
    BreakerMatchesCount
    AnswersTruthful
    AcceptedWithinRate
PROPERTIES
    CallReturns
CHECK_DEADLOCK FALSE
