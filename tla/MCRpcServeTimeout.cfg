CONSTANT MaxReqs = 4
SPECIFICATION FairSpec
PROPERTY EndReported
CHECK_DEADLOCK FALSE
