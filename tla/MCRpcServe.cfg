CONSTANT MaxReqs = 4
SPECIFICATION FairSpec
INVARIANTS
    TypeOK
    OrderUntilRace
    NoStrandedRequest
PROPERTIES
    NothingAfterError
    AllHandled
    EndReportedUnlessDeaf
CHECK_DEADLOCK FALSE
