CONSTANTS
    c1 = c1
    c2 = c2
    Server = Server
    Clients <- Two
    Parts = 2
    MaxTyped = 3
SPECIFICATION Spec
INVARIANTS TypeOK ShownAsSent ServerSurvives
PROPERTIES PeerGoneEnds
CHECK_DEADLOCK FALSE
