SPECIFICATION Spec
CONSTANTS
    r1 = r1
    r2 = r2
    f1 = f1
    f2 = f2
    SensorCnt = 1
    MaxUpdates = 3
    MaxTime = 3
    MinGap = 0
    Readers = {r1}
    Files = {f1}
    Handle <- Alone
    Minors = {0}
    Counts = {0, 2}
    TextLen <- MCTextLen
    MaxSignals = 2
    Faults = TRUE
CHECK_DEADLOCK FALSE
INVARIANT StaleIsDetected
