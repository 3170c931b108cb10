CONSTANTS
    Senders = {main, url}
    Fds = {f, g}
    TimedFds = {g}
    HdrLen = 2
    MaxLen = 3
    MaxMsgs = 2
    Cap = 1
SPECIFICATION FairSpec
INVARIANTS
    NoSleepingBacklog
    NeverDesynced
    NothingVanishes
PROPERTIES
    XsendReturns
    AllArrives
    ChannelSpec
CHECK_DEADLOCK FALSE
