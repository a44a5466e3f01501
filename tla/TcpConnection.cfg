SPECIFICATION FairSpec
CONSTANTS
    ClientData = 1
    ServerData = 1
    HalfClosers = {"s"}
    SynRetries = 2
    DataRetries = 1
    NetCapacity = 2
INVARIANTS
    TypeOK
    ActiveCloseIsComplete
    AckedIsReceived
    OutstandingHasTimer
PROPERTIES
    HandshakeEnds
    LastAckEnds
\* A closed connection does nothing more.
CHECK_DEADLOCK FALSE
