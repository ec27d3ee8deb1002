SPECIFICATION FairSpec
CONSTANTS
    p1 = p1 p2 = p2 a4 = a4 b4 = b4 a6 = a6 b6 = b6
    Procs = {p1, p2}
    V4 = {a4, b4}
    V6 = {a6, b6}
    Zero = Zero NoSocket = NoSocket NoName = NoName NoKey = NoKey
    Nobody = Nobody NoRow = NoRow Pending = Pending NoAnswer = NoAnswer
    Ports = {1, 2}
    MAX_ENTRIES = 2
    MaxAge = 2
    Flows <- Shapes
    Environments <- Kernels
    CleanupInterval = 1
    StaleThreshold = 1
    CacheTtl = 1
    RefreshInterval = 1
    MaxOpens = 2
    MaxTuples = 1
INVARIANTS
    TypeOK
    RecordedFlowsFound
PROPERTIES
    AnswersRecent
    CacheAnswersFresh
    StaleRecordsLeave
