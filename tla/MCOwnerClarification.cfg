SPECIFICATION FairSpec
CONSTANTS
    Messages = {m1, m2, m3}
    NoMessage = NoMessage
    Lifetime = 1
    Horizon = 1
    MaxCrashes = 1
INVARIANTS ActedIsResolved LaterReplyIsTooLate
PROPERTIES TransactionsEnd
CHECK_DEADLOCK FALSE
