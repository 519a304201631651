CONSTANTS
    p1 = p1
    p2 = p2
    Procs = {p1, p2}
    f1 = f1
    f2 = f2
    Files = {f1, f2}
    Fds = {3, 4}
    Sids = {0}
    Size = 16
SPECIFICATION Spec
PROPERTIES IoctlTellsFailure
CHECK_DEADLOCK FALSE
