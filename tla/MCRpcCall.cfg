CONSTANTS
    Main = main
    Callers = {main, worker}
    Ok = ok
    Statuses = {ok, refused}
    Failed = failed
    NoMsg = NoMsg
    NoResult = NoResult
    MaxCalls = 2
    MaxBefore = 0
SPECIFICATION FairSpec
INVARIANTS
    DeliveryHitsLiveFrame
    NoLostWakeup
    NobodyForgotten
    OwnReply
PROPERTIES
    RegistryFrozenWhileApplied
    CallReturns
    LossEndsPlayer
    ServiceSpec
CHECK_DEADLOCK FALSE
