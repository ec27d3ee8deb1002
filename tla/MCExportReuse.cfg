SPECIFICATION Spec
CONSTANTS
    Processors = {p1, p2}
    Keys = {k1}
    NoKey = NoKey
    NoRecord = NoRecord
    Sizes = {1, 2}
    QueueLimit = 1
    RetryRecords = 2
    RetryBytes = 3
    AttributionWait = 1
    MaxPackets = 3
    MaxGenerations = 2
INVARIANTS
    CommentFromOwnConnection
CHECK_DEADLOCK FALSE
