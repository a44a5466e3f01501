SPECIFICATION Spec
CONSTANTS
    Kinds = {"list", "heap", "calendar"}
    RemovingKinds = {"list", "calendar"}
    Delays = {0, 2}
    MaxEvents = 5
    MaxPushes = 2
    MaxCancels = 1
    MaxSwaps = 1
INVARIANTS
    TypeOK
    IsExpiredIsExact
    UnscheduledCounts
    CrossThreadWaits
PROPERTY InOrder
