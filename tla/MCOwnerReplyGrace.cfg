SPECIFICATION FairSpec
CONSTANTS
    Messages = {m1, m2}
    Replies = {r1}
    NoEvent = NoEvent
    GraceSeconds = {0, 2}
    DefaultSeconds = 2
    LastArrival = 1
    Horizon = 3
    MaxRevision = 2
    MaxPolicy = 1
CHECK_DEADLOCK FALSE
INVARIANTS AnchorIsLatest HumanCanceledIsAnswered OneLineage WindowsFollowControl
PROPERTIES QuietPeriod ImplementsLifecycle OpenWindowsClose
