SPECIFICATION Spec
CONSTANTS
    r1 = r1
    r2 = r2
    f1 = f1
    f2 = f2
    SensorCnt = 1
    MaxUpdates = 3
    MaxTime = 2
    MinGap = 0
    Readers = {r1, r2}
    Files = {f1}
    Handle <- Shared
    Minors = {0}
    Counts = {2}
    TextLen <- MCTextLen
    MaxSignals = 1
    Faults = FALSE
CHECK_DEADLOCK FALSE
INVARIANT MutualExclusion
