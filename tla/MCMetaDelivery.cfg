SPECIFICATION FairSpec
CONSTANTS
    delivered = delivered
    failed = failed
    Callbacks = {delivered, failed}
    Kind <- MCKind
    ProviderTime <- MCProviderTime
    Webhooks <- MCWebhooks
    Handlers = {h1}
    Dispatchers = {d1}
    Workers = {w1}
    Window = 0
    Grace = 2
    AdmissionLimit = 2
    OutboxLease = 0
    RunExpires = 3
    Backoff = 1
    Batch = 1
    MaxFailures = 2
    LastRequest = 1
    Horizon = 3
    None = None
INVARIANTS VerdictFitsEvidence OneAttempt RecordsAgree
PROPERTIES OutcomeSettles
CHECK_DEADLOCK FALSE
