SPECIFICATION FairSpec
CONSTANTS
    QueueLimit = 2
    BatchLimit = 2
    RetentionDays = 0
    MaxEvents = 3
    MaxDays = 1
    ServerRetention = 1
    PartitionThreshold = 2
    UploadBatch = 2
    MaxLate = 1
    MaxRestarts = 2
    MaxOutages = 1
INVARIANTS
    TypeOK
    CursorCoveredUnlessOutage
    OneEventPerId
    IdsInOrder
PROPERTIES
    NewRowsPending
    KeptUntilUploaded
    CursorNeverMovesBack
    KeepsOutbox
    UploadCatchesUp
