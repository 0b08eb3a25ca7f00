SPECIFICATION Spec
CONSTANTS
    Messages = {m1, m2, m3}
    NoMessage = NoMessage
    Lifetime = 1
    Horizon = 1
    MaxCrashes = 0
INVARIANTS OneWinner
CHECK_DEADLOCK FALSE
SYMMETRY Symmetry
