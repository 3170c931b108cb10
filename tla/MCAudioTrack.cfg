CONSTANTS
    MaxStarts = 3
SPECIFICATION FairSpec
INVARIANTS
    FilledAlone
    NoBufferLost
PROPERTIES
    KeepsPlaying
CHECK_DEADLOCK FALSE
