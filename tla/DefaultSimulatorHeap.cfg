SPECIFICATION Spec
CONSTANTS
    Kinds = {"heap"}
    RemovingKinds = {"heap"}
    Delays = {0, 1}
    MaxEvents = 7
    MaxPushes = 0
    MaxCancels = 1
    MaxSwaps = 0
PROPERTY TimeGoesForward
