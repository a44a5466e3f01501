SPECIFICATION Spec
CONSTANTS
    ClientData = 2
    ServerData = 0
    HalfClosers = {"c"}
    SynRetries = 1
    DataRetries = 2
    NetCapacity = 2
INVARIANT FinMeansComplete
CHECK_DEADLOCK FALSE
