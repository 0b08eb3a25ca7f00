SPECIFICATION Spec
CONSTANTS
    Intents = {i1, i2}
    Callers = {c1, c2}
    Limit = 1
    LeaseExpires = 2
    BudgetUntil = 2
    RunExpires = 3
    Horizon = 3
    NoIntent = NoIntent
SYMMETRY Symmetric
INVARIANTS OneEffect LedgerBalances ReleasedUnsent
PROPERTY LeaseNeverRevived
CHECK_DEADLOCK FALSE
