SPECIFICATION FairSpec
CONSTANTS
    Conversations = {c1}
    Workers = {w1, w2}
    NoConversation = NoConversation
INVARIANT AtMostOneDelivery TruthfulOutcome
PROPERTY NoSendAfterTakeover PauseRespected ImplementsVerdict ImplementsLifecycle
PROPERTY ClaimsResolve DecisionsSettle TakeoverRetiresIntent
