CONSTANTS
    Senders = {main, url}
    Fds = {f, g}
    TimedFds = {f, g}
    HdrLen = 2
    MaxLen = 3
    MaxMsgs = 2
    Cap = 1
SPECIFICATION Spec
INVARIANT MagicEverywhere
CHECK_DEADLOCK FALSE
