CONSTANTS
    Main = main
    Callers = {main, worker}
    Ok = ok
    Statuses = {ok, refused}
    Failed = failed
    NoMsg = NoMsg
    NoResult = NoResult
    MaxCalls = 2
    MaxBefore = 0
SPECIFICATION FairSpec
PROPERTY AbortExits
CHECK_DEADLOCK FALSE
