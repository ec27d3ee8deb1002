SPECIFICATION Spec
CONSTANTS
    w1 = w1 w2 = w2 t1 = t1 t2 = t2 t3 = t3 q1 = q1 q2 = q2 c1 = c1 c2 = c2
    NoRow = NoRow NoKey = NoKey NoCid = NoCid NoPacket = NoPacket
    Workers = {w1, w2}
    TcpKeys = {t1}
    QuicKeys = {}
    Cids = {}
    Packets <- ReuseMix
    MaxConnections = 1
    MaxHistoric = 2
    MaxQuicMappings = 1
    MaxTombstones = 2
    KeepHistoric = TRUE
    TickSeconds = 15
    MaxBumps = 2
    MaxLag = 1
    MaxClock = 5
    CaptureUntil = 5
SYMMETRY Symmetry
INVARIANTS
    TypeOK
    GenerationsOrdered
    TerminalClockCoherent
PROPERTIES
    KeepsRetainedTable
    HistoricImmutable
    TerminalClockNeverRestarts
    NoPhantomRow
    RowHeldByReader
