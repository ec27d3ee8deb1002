SPECIFICATION PurgeFairSpec
CONSTANTS
    QueueLimit = 2
    BatchLimit = 2
    RetentionDays = 0
    MaxEvents = 1
    MaxDays = 1
    ServerRetention = 0
    PartitionThreshold = 1
    UploadBatch = 2
    MaxLate = 1
    MaxRestarts = 0
    MaxOutages = 0
PROPERTIES
    ExpiredRowsLeave
