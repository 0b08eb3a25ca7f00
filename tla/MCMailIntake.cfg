SPECIFICATION Spec
CONSTANTS
    Tenants = {t1, t2}
    NoTenant = NoTenant
    Schedulers = {w1}
    Messages = {m1, m2}
    Modes = {"readonly"}
    Limit = 1
    PageSize = 1
    MaxPages = 1
    MaxHistory = 2
    MaxFaults = 0
SYMMETRY Symmetry
INVARIANTS NothingSkipped
CHECK_DEADLOCK FALSE
