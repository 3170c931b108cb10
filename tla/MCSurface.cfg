CONSTANTS
    Dims = {1, 2, 3}
    MaxSizes = 3
SPECIFICATION FairSpec
INVARIANTS
    TypeOK
    LockWorksOnMain
    SyncsWhatIsShown
    SettledAtRest
PROPERTIES
    SizeSettles
    HostCatchesUp
CHECK_DEADLOCK FALSE
