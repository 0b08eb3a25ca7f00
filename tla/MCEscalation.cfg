SPECIFICATION LiveSpec
CONSTANTS
    Workers = {w1, w2}
    Callers = {c1}
    Policies <- FourSteps
    Requests = {"ack", "human", "fail"}
    TestClock = FALSE
    MaxCrashes = 1
INVARIANT FailedMeansExhausted
PROPERTY AnswerStopsEscalation EscalationConcludes
CHECK_DEADLOCK FALSE
