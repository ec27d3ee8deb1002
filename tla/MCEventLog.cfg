SPECIFICATION FairSpec
CONSTANTS
    w1 = w1 w2 = w2 k1 = k1 k2 = k2
    Workers = {w1, w2}
    Keys = {k1, k2}
    NoGen = NoGen
    MaxConnections = 1
    MaxGenerations = 3
INVARIANTS
    TypeOK
    ClosedComesLast
    NoEventForgotten
PROPERTIES
    StayingIsAnnounced
    ClosesLogged
CHECK_DEADLOCK FALSE
