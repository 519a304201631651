CONSTANTS
    p1 = p1
    p2 = p2
    Procs = {p1, p2}
    f1 = f1
    f2 = f2
    Files = {f1, f2}
    Fds = {3, 4}
    Sids = {0}
    Size = 16
    d1 = d1
    d2 = d2
    Devices = {d1, d2}
    Device = d1
    CRYPTO_NR_DEVICES = 1
    MaxMinor = 3
SPECIFICATION ModuleSpec
INVARIANTS TypeOK OneRequest FdsOfFiles
    ModuleTypeOK MinorsUnique NothingLeft
PROPERTIES CallsAsRemote CallReturns
