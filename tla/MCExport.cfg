SPECIFICATION FairSpec
CONSTANTS
    Processors = {p1}
    Keys = {k1}
    NoKey = NoKey
    NoRecord = NoRecord
    Sizes = {1, 2}
    QueueLimit = 1
    RetryRecords = 2
    RetryBytes = 3
    AttributionWait = 1
    MaxPackets = 3
    MaxGenerations = 2
INVARIANTS
    TypeOK
    ArrivalOrder
    RetryBounded
    CommentFromQueueTime
PROPERTIES
    KeepsRecordQueue
    RecordsLeave
    ExportEnds
CHECK_DEADLOCK FALSE
