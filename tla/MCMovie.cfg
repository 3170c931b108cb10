CONSTANTS
    Fds = {3, 4}
    Pids = {101, 102}
    MaxConns = 2
    MaxSends = 1
SPECIFICATION FairSpec
INVARIANTS
    TypeOK
    OneMovie
    OwnUntilReuse
    KillsOnlyTheStopped
PROPERTIES
    StoppedPlayerEnds
CHECK_DEADLOCK FALSE
