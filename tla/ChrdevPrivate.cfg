SPECIFICATION LiveSpec
CONSTANTS
    r1 = r1
    r2 = r2
    f1 = f1
    f2 = f2
    SensorCnt = 2
    MaxUpdates = 3
    MaxTime = 3
    MinGap = 1
    Readers = {r1}
    Files = {f1}
    Handle <- Alone
    Minors = {0, 9}
    Counts = {0, 2}
    TextLen <- MCTextLen
    MaxSignals = 2
    Faults = TRUE
INVARIANTS CopyWithinText StaleIsDetected
PROPERTIES ReadsAreWhole ReadReturns SignalEndsRead
CHECK_DEADLOCK FALSE
