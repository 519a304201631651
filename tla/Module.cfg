CONSTANTS
    SensorCnt = 2
    t1 = t1
    t2 = t2
    TTYs = {t1, t2}
    MaxOpen = 1
    MaxLoads = 2
    h1 = h1
    h2 = h2
    Helpers <- MCHelpers
    HeldOpen = {t2}
    MaxSignals = 2
SPECIFICATION AttachSpec
SYMMETRY Processes
INVARIANTS TypeOK SingleTTY UsersHaveSensors NothingRegistered
    AttachTypeOK OneHelper HelperHasTerminal GivenBack
PROPERTIES LeaksOneSensor
CHECK_DEADLOCK FALSE
