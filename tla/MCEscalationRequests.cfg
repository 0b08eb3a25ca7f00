SPECIFICATION Spec
CONSTANTS
    Workers = {w1}
    Callers = {c1, c2}
    Policies <- Extended
    Requests = {"ack", "human", "fail", "executed"}
    TestClock = TRUE
    MaxCrashes = 0
SYMMETRY Interchangeable
INVARIANT LadderInOrder NoLostEscalation
CHECK_DEADLOCK FALSE
