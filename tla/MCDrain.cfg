SPECIFICATION FairSpec
CONSTANTS
    w1 = w1 w2 = w2 t1 = t1 t2 = t2 t3 = t3 q1 = q1 q2 = q2 c1 = c1 c2 = c2
    NoRow = NoRow NoKey = NoKey NoCid = NoCid NoPacket = NoPacket
    Workers = {w1, w2}
    TcpKeys = {t1, t2, t3}
    QuicKeys = {}
    Cids = {}
    Packets <- FloodMix
    MaxConnections = 1
    MaxHistoric = 1
    MaxQuicMappings = 1
    MaxTombstones = 2
    KeepHistoric = FALSE
    TickSeconds = 200
    MaxBumps = 1
    MaxLag = 2
    MaxClock = 2
    CaptureUntil = 1
INVARIANTS
    CountAccounting
    CapOvershootBounded
PROPERTIES
    EveryPacketLeaves
    TableDrains
