SPECIFICATION FairSpec
CONSTANTS
    Tenants = {t1}
    NoTenant = NoTenant
    Schedulers = {w1, w2}
    Messages = {m1, m2}
    Modes = {"metadata", "readonly"}
    Limit = 1
    PageSize = 1
    MaxPages = 2
    MaxHistory = 2
    MaxFaults = 1
INVARIANTS ArchiveFollows
PROPERTIES CursorMonotone MailReachesTimeline
CHECK_DEADLOCK FALSE
