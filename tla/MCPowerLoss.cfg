SPECIFICATION Spec
CONSTANTS
    QueueLimit = 2
    BatchLimit = 2
    RetentionDays = 0
    MaxEvents = 3
    MaxDays = 1
    ServerRetention = 1
    PartitionThreshold = 4
    UploadBatch = 2
    MaxLate = 1
    MaxRestarts = 2
    MaxOutages = 1
INVARIANTS
    CursorCovered
