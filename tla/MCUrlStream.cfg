CONSTANTS
    Addrs = {a1, a2}
    MaxStreams = 2
    MaxBytes = 1
    MaxTotal = 2
    MaxFlight = 2
    MaxRemain = 2
    MaxGiven = 2
SPECIFICATION FairSpec
INVARIANTS
    UrlFilledBeforeUse
    HitsItsStream
    BytesAtTheirOffset
    NothingForgotten
PROPERTIES
    ContractSpec
    EveryLoadEnds
CHECK_DEADLOCK FALSE
