CONSTANTS
    StreamLen = 4
    SegmentSize = 2
    DupAckThresh = 2
    MaxBuffer = 4
    SackModes = {TRUE, FALSE}
    LimitedTransmit = TRUE
    NoDelay = TRUE
    RcvBufSize = 4
    Windows = {2, 4}
    DataRetries = 1
    Writes = {1}
    NetCapacity = 2
SPECIFICATION FairSpec
INVARIANTS
    TypeOK
    ScoreboardSound
    HighestSackIsLive
    NoAssertFails
    NeverForgetsMissing
    OutstandingHasTimer
PROPERTIES
    OneRecoveryPerWindow
    RtoRestartsTransmission
    AckedOrAborted
CHECK_DEADLOCK FALSE
