SPECIFICATION Spec
CONSTANTS
    QueueMax = 12
    Depths = {0, 2, 8}
    Idles = {0, 2000}
    Gaps = {2000, 10000}
    MaxTime = 30000
INVARIANTS SevereIsHeld SilentIsClosed CloseIsEarned
PROPERTIES Justified
CHECK_DEADLOCK FALSE
