SPECIFICATION Spec
CONSTANTS
    SensorCnt = 2
    MAX_PACKET_LEN = 300
    OOPS = 50
    Frames <- MCFrames
    MaxFrames = 2
    Burst = FALSE
INVARIANTS TypeOK FieldPosition UpdatesAsSent
CHECK_DEADLOCK FALSE
